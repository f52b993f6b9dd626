SPECIFICATION Spec
CONSTANTS
  Sessions = {s1, s2}
  Disconnectors = {d1}
  MaxOpens = 2
  MaxMonitors = 0
  MaxDisconnects = 1
  MaxOverlap = 0
SYMMETRY SessionSymmetry
INVARIANTS SessionsAreTracked
CHECK_DEADLOCK FALSE
