\* Two scans on an Intel radio, one of which looks while the other has its monitor down.
SPECIFICATION MCSpec
CONSTANTS
  Request = {r1, r2}
  Managed = {"wlan0", "wlan1"}
  Monitor = {"wlanpi0", "wlanpi1"}
  Radio = {"phy0"}
  Root = "root"
  Place <- MCPlace
  On <- MCOn
  Run = {p1, p2, p3}
  Script = {s1, s2}
  Mixes <- OnlyScans
  MaxFaults = 1
  None = None
SYMMETRY Symmetry
INVARIANT NoScanBesideMonitor
