SPECIFICATION BFairSpec
CONSTANTS
  N = 6
  Size = 3
INVARIANTS
  BInv
PROPERTIES
  ProgramEnds
  ImplementsChannel
