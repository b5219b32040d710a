SPECIFICATION FairSpec
CONSTANTS
  j1 = j1
  j2 = j2
  d1 = d1
  d2 = d2
  t1 = t1
  c1 = c1
  None = None
  Jobs = {j1, j2}
  Devices = {d1, d2}
  Tokens = {t1}
  Clients = {c1}
  Account <- OneAccount
  Refused = {}
  Ops = {"stop", "resume", "continue", "clue", "cancel", "delete"}
  Batch = 2
  MaxCalls = 1
  MaxFaults = 1
  MaxCrashes = 1
INVARIANT TypeOK
INVARIANT NoOneForgotten
PROPERTY NotToldAgain
PROPERTY EveryoneSettled
