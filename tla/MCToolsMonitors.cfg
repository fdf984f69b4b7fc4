\* Two scans on an Intel radio with monitors only, by the name of either; nothing fails.
SPECIFICATION MCSpec
CONSTANTS
  Request = {r1, r2}
  Managed = {}
  Monitor = {"wlanpi0", "wlanpi1"}
  Radio = {"phy0"}
  Root = "root"
  Place <- MCPlace
  On <- MCOn
  Run = {p1, p2, p3}
  Script = {s1, s2}
  Mixes <- OnlyScans
  MaxFaults = 0
  None = None
SYMMETRY Symmetry
INVARIANT EachLeftAsFound
