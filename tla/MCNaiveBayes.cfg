CONSTANTS
  Words <- MCWords
  Jobs <- MCJobs
  HoldOut <- MCHoldOut
  TopWords = 1
SPECIFICATION Spec
\* The test returns or raises: the last state has no successor.
CHECK_DEADLOCK FALSE
INVARIANTS
  SplitIsPartition
  CountsExact
  RaisesOnlyWhenShort
  UntrainedNeverAnswered
