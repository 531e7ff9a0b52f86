SPECIFICATION XFairSpec
CONSTANTS
  s1 = s1
  s2 = s2
  Senders = {s1, s2}
  Receiver = receiver
  NoClient = NoClient
  Malformed = Malformed
  Lines <- MCLines
  INT_MAX = 3
  MaxSends = 2
  MaxCopies = 2
  SockBuf = 3
  Faults = {s2, receiver}
INVARIANTS RepetitionsExact DisconnectedHeard DatagramsWhole
PROPERTIES SignalHeeded ServedInTurn
CHECK_DEADLOCK FALSE
