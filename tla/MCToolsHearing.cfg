\* A scan by wpa_cli answers, and clears the mt7921 filter, before the sweep that sets
\* the filter again is over.
SPECIFICATION MCSpec
CONSTANTS
  Request = {r1, r2}
  Managed = {"wlan0", "wlan1"}
  Monitor = {"wlanpi0", "wlanpi1"}
  Radio = {"phy0"}
  Root = "root"
  Place <- MCPlace
  On <- MCOn
  Run = {p1, p2, p3}
  Script = {s1, s2}
  Mixes <- OnlyScans
  MaxFaults = 0
  None = None
SYMMETRY Symmetry
INVARIANT LeftHearing
