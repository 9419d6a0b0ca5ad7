CONSTANTS
  c1 = c1
  Clients = {c1}
  Radix = 2
  Epoch = 13
  MaxNow = 5
SPECIFICATION Spec
\* When every client has exited the server waits for others.
CHECK_DEADLOCK FALSE
INVARIANTS
  TimeIsCurrent
  CloseAfterTime
PROPERTIES
  EveryoneLeaves
