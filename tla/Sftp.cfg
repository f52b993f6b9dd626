SPECIFICATION FairSpec
CONSTANTS
  Contexts = {c1}
  DefaultContext = c1
  MaxGeneration = 5
  Reconnects = {r1, r2}
  Lists = {l1}
INVARIANTS SessionsAreSound ShownIsBacked
PROPERTIES StateNeverGoesBack 
CHECK_DEADLOCK FALSE
