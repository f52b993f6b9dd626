SPECIFICATION Spec
CONSTANTS
  t1 = t1
  t2 = t2
  firstKind = "scpDir"
  secondKind = "scpFile"
  Transfers <- MCTransfers
  Kind <- MCKind
  Files = 2
  Chunks = 1
PROPERTY PauseTakesEffect
CHECK_DEADLOCK FALSE
