SPECIFICATION FairSpec
CONSTANTS
  f1 = f1
  j1 = j1
  c1 = c1
  None = None
  Worker = Worker
  Files = {f1}
  Jobs = {j1}
  Clients = {c1}
  Quota = 2
  MaxUpload = 2
  MaxCrashes = 0
PROPERTY AnalysisIsTemporary
CHECK_DEADLOCK FALSE
