\* Two sockets contending for two interfaces, two captures in a behaviour.
SPECIFICATION Spec
CONSTANTS
  Socket = {w1, w2}
  Interface = {i1, i2}
  Captures = {c1, c2}
  Namespace = {root, netns}
  Root = root
  None = None
SYMMETRY Symmetry
CHECK_DEADLOCK FALSE
INVARIANTS
  NoSharedInterface
  LeaseCoversCapture
  NothingLeftOver
  HopsInOwnNamespace
PROPERTIES
  EndCodeTellsWhoEnded
  ImplementsExclusive
