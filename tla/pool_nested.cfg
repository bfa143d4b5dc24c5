SPECIFICATION FairSpec
CONSTANTS
  c1 = c1
  c2 = c2
  a = a
  b = b
  c = c
  d = d
  e = e
  NWorkers = 2
  Client = {c1, c2}
  Task = {a, b, c, d, e}
  Parent <- TwoRootsParent
  Waits = {a, c}
  CounterRange = 3
  ClientsQuiesce = FALSE
  StaleStopReads = FALSE
  NoTask = NoTask
INVARIANTS
  OnlyClientsLosePromises
PROPERTIES
  AcceptedReadyOrAllStuck
\* bodies that wait can stop the pool for good
CHECK_DEADLOCK FALSE
