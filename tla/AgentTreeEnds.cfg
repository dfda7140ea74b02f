SPECIFICATION FairSpec
CONSTANTS
  Root = root
  NoAgent = none
  Children = {c1, c2}
  MaxOpen = 3
  MaxActive = 1
  MaxTurns = 2
  Endless = FALSE
PROPERTIES
  EveryAgentEnds
