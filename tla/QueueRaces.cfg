SPECIFICATION Spec
CONSTANTS
  j1 = j1
  j2 = j2
  a1 = a1
  c1 = c1
  f1 = f1
  c2 = c2
  None = None
  Jobs = {j1, j2}
  Accounts = {a1}
  Files = {f1}
  Clients = {c1, c2}
  MaxActive = 1
  MaxAttempts = 1
  ContinueFloor = 1
  MaxCalls = 2
  VisionEnabled = TRUE
  MaxCrashes = 1
  MaxSkips = 0
SYMMETRY Symmetry
INVARIANT TypeOK
INVARIANT RunningIsOwned
INVARIANT PurgedWhenFinal
INVARIANT FileGoesFirst
INVARIANT CapacityHeldByLock
CHECK_DEADLOCK FALSE
