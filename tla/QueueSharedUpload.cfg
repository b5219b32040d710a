SPECIFICATION Spec
CONSTANTS
  j1 = j1
  j2 = j2
  a1 = a1
  f1 = f1
  c1 = c1
  None = None
  Jobs = {j1, j2}
  Accounts = {a1}
  Files = {f1}
  Clients = {c1}
  MaxActive = 2
  MaxAttempts = 1
  ContinueFloor = 0
  MaxCalls = 2
  VisionEnabled = FALSE
  MaxCrashes = 1
  MaxSkips = 1
SYMMETRY Symmetry
INVARIANT RunningIsOwned
INVARIANT PurgedWhenFinal
PROPERTY KeepsCustody
PROPERTY FifoClaims
CHECK_DEADLOCK FALSE
