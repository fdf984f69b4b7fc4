\* Two workers, two radios; alternative mixes of disturbances.
SPECIFICATION FairSpec
CONSTANTS
  Worker = {w1, w2}
  Secret = {s1, s2}
  Engine = {e1, e2, e3}
  Phy = {0, 1}
  Iface = {i1, i2}
  On <- BothOnOne
  NoMonitor = {}
  Disturbance = {"crash", "fault", "loss", "reload", "restart", "net", "getjwt"}
  Mixes <- AllMixes
  Burst = 2
  Attempts = 2
  Empty = Empty
  None = None
\* systemd gives up after Burst failed starts: then nothing happens.
CHECK_DEADLOCK FALSE
INVARIANTS OneCoreMonitor SignedIsAccepted EnginesDisposed
PROPERTY TablesComeBack
