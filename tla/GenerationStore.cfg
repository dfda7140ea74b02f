SPECIFICATION Spec
CONSTANTS
  i1 = i1
  i2 = i2
  plain = plain
  value = value
  resource = resource
  Inputs = {i1, i2}
  Plain = {plain}
  ValueSources = {value}
  ResourceSources = {resource}
  Initial <- MCInitial
  Patchers = {p1, p2}
  Batches = {b1}
  Nobody = nobody
  NotFrozen = notFrozen
  NoPlan = noPlan
  MaxPatched = 1
  MaxRevision = 2
  MaxEvidence = 1
  MaxBatches = 2
SYMMETRY StoreSymmetry
INVARIANTS
  AppliedAsValidated
  StatisticsArePure
  BindingsAreDurable
PROPERTIES
  ImplementsRegister
CHECK_DEADLOCK FALSE
