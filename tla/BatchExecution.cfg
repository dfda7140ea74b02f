SPECIFICATION BatchSpec
CONSTANTS
  Batches = {b1}
  Tools = {t1}
  MaxCalls = 2
  MaxSends = 2
  NoId = NoId
  NoSummary = noSummary
INVARIANTS
  VerdictsMatchEvidence
  ReplaysAreExact
  ReportsMatchAssessments
  SummaryIsAccounted
  RewardsAreEarned
\* every caller stops after its requests
CHECK_DEADLOCK FALSE
