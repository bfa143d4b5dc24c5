SPECIFICATION Spec
CONSTANTS
  NaN = NaN
  Blank = Blank
  Unset = Unset
  Item = {"i1", "i2", "i3", "i4"}
  User = {"u1", "u2"}
  Initial = 1
  Growth = 3
  MaxCached = 1
  HasReset = TRUE
  Thread = {"t1", "t2"}
  Key = {1, 2}
  Needs <- NeededKeys
  Value = {0, 1}
  MaxCalls = 2
  Reader = {"r1", "r2"}
  NFrames = 4
  Corrupt = {3}
  CacheSizes = {0, 1, 2}
  DefaultSize = 2
  Extractor = {"kp", "no", "lo"}
  Kind <- ExtractorKinds
  Knn = {"tree"}
  KdTrees = {"tree"}
  Cloud = {"empty", "one"}
  EmptyCloud = "empty"
  NoPointer = "none"
  Kinds = {"distance", "geometric", "custom"}
  Lists <- Ranked
  Consistency <- Agreeing
  Thresholds = {1, 2}
  Functions <- RatingFunctions
  NoFunction <- NoRating
  Quality <- Judged
  Weights = {12, 36}
  MaxSorters = 2
  Root = "app"
  Commands = {"app", "run"}
  Parent <- Parents
  Callbacks = {"app", "run"}
  Parameters <- Declared
  Numbers = {"7", "-5"}
  NoValue = "none"
  IniFiles <- Files
  Tokens <- CommandTokens
  MaxTokens <- RunLengths
INVARIANTS
  TokensAccounted
  LastSettingWins
  ReadIsTrue
  OneAnswerPerKey
  ListMatchesCache
  AsksAboutItsCloud
  RankingIsFresh
  AnswersAreRight
PROPERTIES
  PoolsLend
\* a command line ends, a pool is destroyed, a file is not written for ever
CHECK_DEADLOCK FALSE
