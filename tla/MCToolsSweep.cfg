\* A scan by wpa_cli answers with cached results and restores the Intel radio's
\* monitor while the radio still sweeps.
SPECIFICATION MCSpec
CONSTANTS
  Request = {r1, r2}
  Managed = {"wlan0", "wlan1"}
  Monitor = {"wlanpi0", "wlanpi1"}
  Radio = {"phy0"}
  Root = "root"
  Place <- MCPlace
  On <- MCOn
  Run = {p1, p2, p3}
  Script = {s1, s2}
  Mixes <- OnlyScans
  MaxFaults = 0
  None = None
SYMMETRY Symmetry
PROPERTY NoRestoreInSweep
