SPECIFICATION Spec
CONSTANTS
  Servers = {a, b}
  Cancelable = {a, b}
  Concurrency = 1
  OutputLimit = 1
  ChunkSizes = {1}
SYMMETRY ServerSymmetry
INVARIANTS WithinLimits VerdictsAreTrue
PROPERTIES ResultIsFinal
CHECK_DEADLOCK FALSE
