SPECIFICATION FairSpec
CONSTANTS
  f1 = f1
  f2 = f2
  j1 = j1
  c1 = c1
  None = None
  Worker = Worker
  Files = {f1, f2}
  Jobs = {j1}
  Clients = {c1}
  Quota = 2
  MaxUpload = 2
  MaxCrashes = 1
INVARIANT TypeOK
INVARIANT QuotaHeld
INVARIANT CleanupSparesJobs
INVARIANT AnalysisGoesWithUpload
PROPERTY OrphansGo
CHECK_DEADLOCK FALSE
