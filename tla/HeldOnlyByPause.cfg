SPECIFICATION FairSpec
CONSTANTS
  j1 = j1
  a1 = a1
  c1 = c1
  None = None
  Jobs = {j1}
  Accounts = {a1}
  Files = {}
  Clients = {c1}
  MaxActive = 1
  MaxAttempts = 2
  ContinueFloor = 0
  MaxCalls = 1
  VisionEnabled = TRUE
  MaxCrashes = 0
  MaxSkips = 0
PROPERTY HeldOnlyByPause
CHECK_DEADLOCK FALSE
