SPECIFICATION FairSpec
CONSTANTS
  j1 = j1
  j2 = j2
  d1 = d1
  d2 = d2
  t1 = t1
  t2 = t2
  c1 = c1
  None = None
  Jobs = {j1, j2}
  Devices = {d1, d2}
  Tokens = {t1, t2}
  Clients = {c1}
  Account <- TwoAccounts
  Refused = {t1}
  Ops = {"clue"}
  Batch = 1
  MaxCalls = 0
  MaxFaults = 1
  MaxCrashes = 0
PROPERTY EveryoneSettled
