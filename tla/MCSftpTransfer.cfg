SPECIFICATION FairSpec
CONSTANTS
  t1 = t1
  t2 = t2
  firstKind = "dir"
  secondKind = "file"
  Transfers <- MCTransfers
  Kind <- MCKind
  Files = 1
  Chunks = 1
INVARIANTS TypeOK OneAtATime PausesAreSafe OutcomeIsTrue
PROPERTIES ImplementsQueue OutcomeIsFinal TransfersEnd
CHECK_DEADLOCK FALSE
