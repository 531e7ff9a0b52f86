SPECIFICATION TFairSpec
CONSTANTS
  Tasks = {t1, t2}
  NArrays = 2
  Capacity <- MCCapacity
  NoTask = NoTask
  Impatient = TRUE
  Faults = TRUE
  Timely = FALSE
INVARIANTS SlotsAgree NoSelfDeadlock ForceReachesAll
PROPERTIES SkippedBehindDone LoopsEnd StopHeeded
CHECK_DEADLOCK FALSE
