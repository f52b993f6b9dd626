SPECIFICATION FairSpec
CONSTANTS
  Tunnels = {t1}
  Calls = {c1, c2}
  Kinds = {"dynamic", "remote"}
CHECK_DEADLOCK FALSE
INVARIANTS ResourcesAreHeld StopsAreComplete
 
