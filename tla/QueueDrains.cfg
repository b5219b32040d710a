SPECIFICATION FairSpec
CONSTANTS
  j1 = j1
  j2 = j2
  a1 = a1
  a2 = a2
  c1 = c1
  None = None
  Jobs = {j1, j2}
  Accounts = {a1, a2}
  Files = {}
  Clients = {c1}
  MaxActive = 2
  MaxAttempts = 2
  ContinueFloor = 0
  MaxCalls = 1
  VisionEnabled = TRUE
  MaxCrashes = 1
  MaxSkips = 0
PROPERTY QueueDrains
CHECK_DEADLOCK FALSE
