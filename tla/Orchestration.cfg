SPECIFICATION FairSpec
CONSTANTS
  Shapes = {s1}
  Works = {w1, w2}
  Reasons = {r1}
  NoReason = none
  MaxRevisions = 3
  MaxTasks = 2
  MaxPlan = 1
  Recent = 1
INVARIANTS
  PlansAreSound
  AttemptsAreSound
  RuntimeTracksLedger
  FailedWorkCanBeRetried
  
PROPERTIES
  HistoryIsImmutable
  EveryTaskIsAnswered
CHECK_DEADLOCK FALSE
