SPECIFICATION FairSpec
CONSTANTS
  c1 = c1
  c2 = c2
  l1 = l1
  l2 = l2
  Null = Null
  Caller = {c1, c2}
  Stopper = {c1, c2}
  NMessages = 3
  Author <- Authors
  Severity <- Severities
  Level = {0, 1}
  InitialLevel = 1
  Parts = 2
  Logger = {l1, l2}
INVARIANTS
  Kept
  LinesUnmixed
PROPERTIES
  SilentOnceStopped
  QueuedIsWritten
\* the threads stop when they have nothing left to log
CHECK_DEADLOCK FALSE
