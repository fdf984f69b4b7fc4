\* Two requests, three runs of the profiler or two of the port blinker, or scans
\* on one radio of any driver with two interfaces of each mode; a disturbance.
SPECIFICATION MCSpec
CONSTANTS
  Request = {r1, r2}
  Managed = {"wlan0", "wlan1"}
  Monitor = {"wlanpi0", "wlanpi1"}
  Radio = {"phy0"}
  Root = "root"
  Place <- MCPlace
  On <- MCOn
  Run = {p1, p2, p3}
  Script = {s1, s2}
  Mixes <- AllMixes
  MaxFaults = 1
  None = None
SYMMETRY Symmetry
INVARIANTS ChildIsNamed StartTellsTruth PurgeAlone OneBlinker StopMeansDark LeftAsFound
PROPERTIES ScansStayApart
