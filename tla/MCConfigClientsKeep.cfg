\* A profile is edited by a client that keeps its secret.
SPECIFICATION Spec
CONSTANTS
  Cli = {}
  Api = {api}
  Id = {a}
  Default = default
  Slot = {r1, n1, r2}
  Interface = {w1, w2}
  r1 = r1
  n1 = n1
  r2 = r2
  w1 = w1
  w2 = w2
  Of <- InterfaceOf
  Rooted = {r1, r2}
  MaxSent = 1
  None = None
CHECK_DEADLOCK FALSE
INVARIANT ReadsBack
