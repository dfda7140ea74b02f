SPECIFICATION Spec
CONSTANTS
  Overhead = 1
  Least = 2
  MarkerSize = 2
  MessageLimit = 40
  Definitions <- MCDefinitions
  Describing <- MCDescribing
  Windows = {16, 40}
  Protocol = 4
  BaseSize = 3
  NameSize = 1
  OmittedSize = 1
  PrefixLimit = 8
  TaskSizes = {4, 34}
  SourceSizes = {2, 12}
  TextSizes = {3, 12}
  SummarySizes = {0, 4, 10}
  SourceLimit = 10
  SummaryLimit = 10
  HeaderSize = 1
  NoticeSize = 1
  Limit = 60
  Charges = {12, 30}
  MaxTurns = 3
  MaxChanges = 1
  MaxOthers = 1
INVARIANTS
  LaunchesAreAuthorized
  ProviderRequestsAreValid
  NothingIsForgotten
CHECK_DEADLOCK FALSE
