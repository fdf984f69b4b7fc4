\* An owner and a subscriber that exchange roles, over longer streams: what the
\* subscriber is sent, and its detachment, under the event loop's fairness.
SPECIFICATION FairSpec
CONSTANTS
  Socket = {w1, w2}
  Session = {s1, s2}
  None = None
  HeaderLen = 2
  MaxBlocks = 4
  MaxChunk = 2
  QueueBlocks = 4
  MaxSubscribers = 1
CHECK_DEADLOCK FALSE
INVARIANTS
  FeedIsExact
  NoSilentDrop
PROPERTY EndedSessionDetaches
