SPECIFICATION Spec
CONSTANTS
  Root = root
  NoAgent = none
  Children = {c1, c2}
  MaxOpen = 3
  MaxActive = 2
  MaxTurns = 2
  Endless = FALSE
SYMMETRY ChildSymmetry
INVARIANTS
  SlotAccounting
  OrphansCancelled
  CancellationIsEffective
PROPERTIES
  ImplementsContract
