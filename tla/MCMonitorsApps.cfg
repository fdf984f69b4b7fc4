\* Two entries in one namespace, both with monitor and app.
SPECIFICATION Spec
CONSTANTS
  Entry = {e1, e2}
  e1 = e1
  e2 = e2
  Place = {root, n1}
  n1 = n1
  Root = root
  At <- AtPlaces
  InRoot = {}
  Secure = {e1, e2}
  WithRoute = {}
  WithApp = {e1, e2}
  Monitor = {m1, m2}
  Handler = handler
  Pid = {p1, p2}
  MaxFaults = 0
  None = None
INVARIANT OneAppPerPlace
