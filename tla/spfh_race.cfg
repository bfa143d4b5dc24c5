SPECIFICATION RaceSpec
CONSTANTS
  Corrupt = Corrupt
  NaN = NaN
  Points <- FramePoints
  LabelFiles <- FrameLabels
  Poses <- FramePoses
  LabelIds = {0, 1, 2}
  MaxScan = 1
  CacheSizes = {0, 1}
  DefaultSize = 2
  Skips = {0, 1}
  Moving = {1}
  Generators = {"serial", "parallel", "knn"}
  Views <- SomeViews
  NoView <- NotViewed
  Ratios = {80, 120}
  Near = {1, 9}
  Algorithms = {"point_to_point", "point_to_plane", "generalized", "ndt", "accelerated"}
  FineCloud <- SmallClouds
  NoFineCloud <- Cloudless
  Settings = {1, 2}
  FineLimits = {0, 1, 3}
  MaxLength = 6
  Workers = {1, 2, 4}
  SmallestParallel = 3
  Grain = 2
  SpfhPoint = {1, 2, 3, 4}
  SpfhClouds <- SharedNeighbours
  Modes = {TRUE, FALSE}
  Kinds <- Extractors
  KeyPoint = {1, 2, 3}
  KeyValues = {0, 1, 2, 3}
  Others = {0, 2}
  Strong = 1
  Neighbours <- Nearness
  Methods = {"ransac", "prosac"}
  Putative <- Putatives
  NoPutative <- NonePutative
  Rankings <- Orders
  m_sample_size = 3
  Needed <- SamplesNeeded
  Initial = 4
  Added <- SamplesAdded
  Window = 3
  EarlyStop = 90
  Random = 50
  CoarseLimits = {3, 6}
  SampledCloud <- DrawnClouds
  NoSampledCloud <- NoneDrawn
  SampleSizes = {0, 5}
  Candidate <- Motions
  MaxBases = 2
  Overlaps = {0, 50, 100}
  Minima = {0, 3}
  MaxCalls = 2
  CloudName = {"a", "b"}
  MaxIds = 2
  MaxPoints = 2
  MaxMoves = 1
INVARIANTS
  ThreadSafe
CHECK_DEADLOCK FALSE
