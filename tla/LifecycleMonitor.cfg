SPECIFICATION FairSpec
CONSTANTS
  Sessions = {s1}
  Disconnectors = {d1, d2}
  MaxOpens = 1
  MaxMonitors = 2
  MaxDisconnects = 2
  MaxOverlap = 1
INVARIANTS MonitorIsShown
 
CHECK_DEADLOCK FALSE
