SPECIFICATION ASpec
CONSTANTS
  Threads = {logger, c1, c2}
  Logger = logger
  MaxMessages = 3
  PollFails = FALSE
  Items <- MCItems
  Capacity = 2
  NoThread = NoThread
  NoItem = NoItem
SYMMETRY ClientSymmetry
INVARIANTS Chronological
CHECK_DEADLOCK TRUE
