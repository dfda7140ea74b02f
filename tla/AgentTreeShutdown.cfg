SPECIFICATION TimedSpec
CONSTANTS
  Root = root
  NoAgent = none
  Children = {c1, c2}
  MaxOpen = 3
  MaxActive = 3
  MaxTurns = 0
  Endless = TRUE
PROPERTIES
  ShutdownEndsTree
