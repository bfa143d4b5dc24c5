SPECIFICATION FairSpec
CONSTANTS
  Size = 4
  Orders <- TwoOrders
  BatchSizes = {0, 1, 2, 3}
  Prefetches = {0, 1, 2, 3}
  MissingSets <- AnyMissing
  FailingSets <- AtMostOne
  PoolStops = TRUE
  LeavesEarly = TRUE
INVARIANTS
  InOrder
  OnlyRestDropped
  PrefetchBounded
PROPERTIES
  LoopEnds
