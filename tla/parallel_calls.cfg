SPECIFICATION FairSpec
CONSTANTS
  Ops = {"for_each", "transform", "reduce", "scan", "merge_sort", "tim_sort"}
  Sizes = {0, 1, 4, 5}
  Key = {0, 1}
  ThreadCounts = {1, 3, 5}
  HardwareCounts = {0, 3}
  MinChunk = 2
  Run = 2
  MayThrow = TRUE
  MaxTasks = 10
INVARIANTS
  NoRace
  Correct
PROPERTIES
  CallEnds
\* a call ends
CHECK_DEADLOCK FALSE
