SPECIFICATION AFairSpec
CONSTANTS
  Threads = {logger, c1, c2}
  Logger = logger
  MaxMessages = 4
  PollFails = TRUE
  Items <- MCItems
  Capacity = 2
  NoThread = NoThread
  NoItem = NoItem
INVARIANTS ATypeOK EveryMessageInOnePlace DrainComplete SenderOrder FlagsAgree
PROPERTIES StopIsAnswered EventuallyOut
CHECK_DEADLOCK TRUE
