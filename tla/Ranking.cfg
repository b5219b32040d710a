SPECIFICATION Spec
CONSTANTS
  u1 = u1
  u2 = u2
  u3 = u3
  u4 = u4
  c1 = c1
  None = None
  Urls = {u1, u2, u3, u4}
  Clients = {c1}
  Domain <- Hosts
  SameWork <- Works
  Kinds <- Found
  Target = 3
  PerDomain = 1
  MaxSources = 2
  MaxRounds = 2
  MaxClues = 1
SYMMETRY Symmetry
INVARIANT TypeOK
INVARIANT CountIsShown
INVARIANT ShownIsVerified
INVARIANT ShownIsDiverse
PROPERTY EvidenceStays
CHECK_DEADLOCK FALSE
