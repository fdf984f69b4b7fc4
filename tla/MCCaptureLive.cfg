\* Progress of stops and of captures that die, under the event loop's fairness.
SPECIFICATION FairSpec
CONSTANTS
  Socket = {w1, w2}
  Interface = {i1}
  Captures = {c1, c2}
  Namespace = {root}
  Root = root
  None = None
CHECK_DEADLOCK FALSE
PROPERTIES
  StopCompletes
  ExitFreesInterfaces
