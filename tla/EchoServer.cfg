SPECIFICATION EFairSpec
CONSTANTS
  Clients = {c1}
  Listeners = {l1}
  bufferSize = 3
  PrefixSize = 2
  symmetric = TRUE
  MaxBytes = 4
  MaxDatagrams = 1
INVARIANTS EchoIsSpoken DiesOnlyOverlong
PROPERTIES EchoingEnds
CHECK_DEADLOCK FALSE
