SPECIFICATION SFairSpec
CONSTANTS
  BufSize = 4
  FlushSize = 3
  MessageRoom = 2
  MaxBytes = 8
INVARIANTS TerminalLines FlushBounded
PROPERTIES KeepsUp
CHECK_DEADLOCK FALSE
