SPECIFICATION FairSpec
CONSTANTS
  a = a
  b = b
  c = c
  d = d
  e = e
  f = f
  h1 = h1
  h2 = h2
  None = None
  Requests = {a, b, c, d, e, f}
  Hosts = {h1, h2}
  Proxies <- OneProxy
  PageHost <- PageHosts
  ImageHost <- ImageHosts
  Mode = "auto"
  Reliable = {"vpn"}
  MaxRedirects = 1
  Queries = 1
  ImageQueries = 1
  MaxCandidates = 5
  VerifyPages = 2
  HttpConcurrency = 2
  Batches <- SomeBatches
INVARIANT TypeOK
INVARIANT BlockedByFailures
INVARIANT WorkingExitIsFound
INVARIANT WithinBudget
PROPERTY SentOnlyToAllowed
PROPERTY StickyMoves
PROPERTY VisualReserve
PROPERTY RoundEnds
CHECK_DEADLOCK FALSE
