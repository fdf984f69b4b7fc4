\* A purge and starts through Core of the profiler unit.
SPECIFICATION MCSpec
CONSTANTS
  Request = {r1, r2}
  Managed = {"wlan0", "wlan1"}
  Monitor = {"wlanpi0", "wlanpi1"}
  Radio = {"phy0"}
  Root = "root"
  Place <- MCPlace
  On <- MCOn
  Run = {p1, p2, p3}
  Script = {s1, s2}
  Mixes <- AllMixes
  MaxFaults = 1
  None = None
SYMMETRY Symmetry
INVARIANT PurgeExcludesCoreStarts
