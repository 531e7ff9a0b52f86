SPECIFICATION NFairSpec
CONSTANTS
  N = 4
  Size = 3
INVARIANTS
  MagicNumber
PROPERTIES
  Prints
