SPECIFICATION RFairSpec
CONSTANTS
  Main = main
  Stdin = stdin
  Log = log
  Threads = {main, stdin, log}
  Items = {msg}
  Capacity = 1
  NoThread = NoThread
  NoItem = NoItem
  Impatient = TRUE
  Faults = TRUE
  Timely = TRUE
INVARIANTS RTypeOK JoinIsShort ReleasedAfterEnd DestroyedEmpty CrashOnlyWhenForced
PROPERTIES EndsUnlessOrphaned HangIsTheMutex
CHECK_DEADLOCK FALSE
