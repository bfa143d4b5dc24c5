SPECIFICATION FairSpec
CONSTANTS
  c1 = c1
  c2 = c2
  a = a
  b = b
  c = c
  d = d
  e = e
  NWorkers = 2
  Client = {c1}
  Task = {a, b}
  Parent <- OneChildParent
  Waits = {a}
  CounterRange = 3
  ClientsQuiesce = TRUE
  StaleStopReads = FALSE
  NoTask = NoTask
PROPERTIES
  DestructorReturns
CHECK_DEADLOCK FALSE
