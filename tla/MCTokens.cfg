\* Three alternatives: concurrent requests, rotations, or clocks that go wrong.
SPECIFICATION Spec
CONSTANTS
  Request = {r1, r2, r3}
  Key = {k1, k2, k3}
  Token = {t1, t2}
  Device = {"webui", "app"}
  PamClient = "webui"
  None = none
  Life = 2
  Skew = 1
  MaxTime = 3
  MaxBoot = 2
  Settings <- BusyOrClocks
INVARIANTS
  OneActiveKey
  LiveTokensUseActiveKey
  AcceptedWasValid
  SameBootMonotonic
PROPERTIES
  NeverValidAgain
SYMMETRY Symmetry
