SPECIFICATION BSpec
CONSTANTS
  N = 3
  Size = 2
INVARIANTS
  PopReturnsItem
