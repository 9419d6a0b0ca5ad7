CONSTANTS
  c1 = c1
  Clients = {c1}
  MessageLength = 5
  BufferSize = 2
SPECIFICATION Spec
\* When every client has exited the server waits for others.
CHECK_DEADLOCK FALSE
INVARIANTS
  NoByteLost
  CloseAfterEcho
  WholeMessageEchoed
PROPERTIES
  EveryoneLeaves
  ImplementsEchoService
