SPECIFICATION FairSpec
CONSTANTS
  c1 = c1
  c2 = c2
  a = a
  b = b
  c = c
  d = d
  e = e
  NWorkers = 2
  Client = {c1}
  Task = {a, b, c, d}
  Parent <- ForkParent
  Waits = {}
  CounterRange = 3
  ClientsQuiesce = TRUE
  StaleStopReads = TRUE
  NoTask = NoTask
INVARIANTS
  NeverLost
  NeverTwice
  QueuedWorkIsWatched
PROPERTIES
  ImplementsTaskPool
  WorkAndPoolEnd
