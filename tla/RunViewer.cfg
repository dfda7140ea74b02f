SPECIFICATION MCSpec
CONSTANTS
  Root = {s1}
  Side = {s2, s3}
  Turns = {s1}
  Https = {s2}
  Watched = {s3}
  NoCopy = noCopy
  MaxRevision = 1
  MaxLosses = 1
INVARIANTS
  EvidenceIsKept
  CardsEnd
  CaughtUpIsExact
PROPERTIES
  ViewNeverGoesBack
  ViewerCatchesUp
\* a closed run stops
CHECK_DEADLOCK FALSE
