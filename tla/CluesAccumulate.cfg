SPECIFICATION Spec
CONSTANTS
  j1 = j1
  a1 = a1
  c1 = c1
  c2 = c2
  None = None
  Jobs = {j1}
  Accounts = {a1}
  Files = {}
  Clients = {c1, c2}
  MaxActive = 1
  MaxAttempts = 1
  ContinueFloor = 0
  MaxCalls = 2
  VisionEnabled = TRUE
  MaxCrashes = 0
  MaxSkips = 0
PROPERTY CluesAccumulate
CHECK_DEADLOCK FALSE
