\* Three sockets, two sessions in a behaviour, one subscriber per session.
SPECIFICATION Spec
CONSTANTS
  Socket = {w1, w2, w3}
  Session = {s1, s2}
  None = None
  HeaderLen = 1
  MaxBlocks = 1
  MaxChunk = 1
  QueueBlocks = 2
  MaxSubscribers = 1
SYMMETRY Symmetry
CHECK_DEADLOCK FALSE
INVARIANTS
  SubscribersAgree
