SPECIFICATION QFairSpec
CONSTANTS
  Threads = {t1, t2}
  Items = {a, b}
  Capacity = 3
  NoThread = NoThread
  NoItem = NoItem
INVARIANTS QInv PollSeesItems
PROPERTIES CallsReturn ImplementsFifo
CHECK_DEADLOCK TRUE
