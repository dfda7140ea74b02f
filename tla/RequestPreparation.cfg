SPECIFICATION MCSpec
CONSTANTS
  Operations = {"search", "create", "resource", "variant", "lookup", "upload", "attach", "write",
                "note", "keyed", "single", "frozen"}
  Contract <- MCContract
  Lower <- MCLower
  Sensitive = {"authorization", "cookie", "x-api-key"}
  MaxLevel = 4
  MaxDomain = 3
  MaxStates = 7
  MaxCandidates = 2
  MaxPatches = 2
  MaxAffected = 3
  MaxObserved = 3
  Unit = 4
  Span = 8
  StringSpan = 3
  LongestTried = 30
INVARIANTS
  RequestsMeetConstraints
  ReadBackIsFaithful
  SearchIsExact
  PatchesAreKept
  SelectionIsFaithful
  ContractsAreKept
\* a slot ends with its request
CHECK_DEADLOCK FALSE
