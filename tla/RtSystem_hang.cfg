SPECIFICATION RFairSpec
CONSTANTS
  Main = main
  Stdin = stdin
  Log = log
  Threads = {main, stdin, log}
  Items = {msg}
  Capacity = 1
  NoThread = NoThread
  NoItem = NoItem
  Impatient = TRUE
  Faults = FALSE
  Timely = TRUE
PROPERTIES Ends
CHECK_DEADLOCK FALSE
