\* One entry in root and one in a namespace, with monitors, DHCP and apps.
SPECIFICATION Spec
CONSTANTS
  Entry = {e1, e2}
  e1 = e1
  e2 = e2
  Place = {root, n1}
  n1 = n1
  Root = root
  At <- AtPlaces
  InRoot = {e2}
  Secure = {e1}
  WithRoute = {e1}
  WithApp = {e1, e2}
  Monitor = {m1, m2}
  Handler = handler
  Pid = {p1, p2}
  MaxFaults = 1
  None = None
INVARIANTS NoUncontrolledMonitor OneLateEffect DownMeansQuiet
PROPERTIES KillsOnlyItsOwn
