CONSTANT Jobs <- MCJobs
SPECIFICATION AscentSpec
\* A routine returns or raises: the last state has no successor.
CHECK_DEADLOCK FALSE
INVARIANTS
  UpdatesExact
  LateRowsRare
  StepsFall
