-------------------------------- MODULE Keepers --------------------------------
(***************************************************************************)
(* The components that keep something for their callers: the memory pool   *)
(* and the object pool, the memoized functions, the frames of a dataset,   *)
(* the nearest-neighbour objects, the sorters, and the parameters of the   *)
(* command line.  They do not call each other: part says which one a       *)
(* behaviour is about, and the variables of the others are 0.              *)
(***************************************************************************)
EXTENDS Integers, Sequences, FiniteSets

CONSTANTS
  Item, User, Initial, Growth, MaxCached, HasReset,              \* of the pools
  Thread, Key, Needs, Value, MaxCalls,                           \* of Memoize
  Reader, NFrames, Corrupt, CacheSizes, DefaultSize,             \* of FrameCache
  Extractor, Kind, Knn, KdTrees, Cloud, EmptyCloud, NoPointer,   \* of NeighbourIndex
  Kinds, Lists, Consistency, Thresholds, Functions, NoFunction,  \* of Sorters
  Quality, Weights, MaxSorters,
  Root, Commands, Parent, Callbacks, Parameters, Numbers,        \* of CommandLine
  NoValue, IniFiles, Tokens, MaxTokens

VARIABLES
  part,
  pool, heap, held, alive,                                       \* of BlockPool
  shelf, made, lent, call, dirty, open,                          \* of ObjectPool
  cache, stack, calls, answers, returned,                        \* of Memoize
  frames, lru_list, max_cache_size, strict, pc, index, answer, recent,  \* of FrameCache
  m_cloud, m_knn, m_normals, m_data, m_kdtree, m_use_runtime_metric,    \* of NeighbourIndex
  last, alone, ordered,
  kind, invert, normalize, threshold, function,                  \* of Sorters
  m_correspondences, m_clouds, m_cached, m_scores, m_indices, weights, behind, ranked,
  phase, args, queue, cmd, target, dashed, next_arg, help,       \* of CommandLine
  failed, value, exit, ran, runs, role, before

Blocks == INSTANCE BlockPool
Objects == INSTANCE ObjectPool WITH pool <- shelf, heap <- made, held <- lent, alive <- open
Memo == INSTANCE Memoize
Frames == INSTANCE FrameCache WITH cache <- frames
Trees == INSTANCE NeighbourIndex WITH User <- Extractor, None <- NoPointer
Ranks == INSTANCE Sorters WITH last <- ranked
Parser == INSTANCE CommandLine

\* Nobody is called as the places where unused items are, no item as the calls that have
\* none, and the sizes are numbers of items.
ASSUME PoolsAssumption ==
  /\ User \cap {"shelf", "system"} = {} /\ Item \cap {"nothing", "making"} = {}
  /\ Initial \in Nat /\ Growth \in Nat \ {0} /\ MaxCached \in Nat /\ HasReset \in BOOLEAN
ASSUME CachesAssumption == Memo!MemoizeAssumption /\ Frames!CacheAssumption
ASSUME ParserAssumption == Parser!CommandLineAssumption
\* No pointer points to an extractor, an object or a cloud.
ASSUME PointersAssumption == NoPointer \notin Extractor \cup Knn \cup Cloud

-------------------------------------------------------------------------------

block_vars == <<pool, heap, held, alive>>
object_vars == <<shelf, made, lent, call, dirty, open>>
memo_vars == <<cache, stack, calls, answers, returned>>
frame_vars == <<frames, lru_list, max_cache_size, strict, pc, index, answer, recent>>
tree_vars ==
  <<m_cloud, m_knn, m_normals, m_data, m_kdtree, m_use_runtime_metric, last, alone, ordered>>
rank_vars ==
  <<kind, invert, normalize, threshold, function, m_correspondences, m_clouds, m_cached,
    m_scores, m_indices, weights, behind, ranked>>
parser_vars ==
  <<phase, args, queue, cmd, target, dashed, next_arg, help, failed, value, exit, ran, runs,
    role, before>>
keeper_vars ==
  <<part, block_vars, object_vars, memo_vars, frame_vars, tree_vars, rank_vars, parser_vars>>

NoBlocks == pool = 0 /\ heap = 0 /\ held = 0 /\ alive = 0
NoObjects == shelf = 0 /\ made = 0 /\ lent = 0 /\ call = 0 /\ dirty = 0 /\ open = 0
NoMemo == cache = 0 /\ stack = 0 /\ calls = 0 /\ answers = 0 /\ returned = 0
NoFrames ==
  /\ frames = 0 /\ lru_list = 0 /\ max_cache_size = 0 /\ strict = 0
  /\ pc = 0 /\ index = 0 /\ answer = 0 /\ recent = 0
NoTrees ==
  /\ m_cloud = 0 /\ m_knn = 0 /\ m_normals = 0 /\ m_data = 0 /\ m_kdtree = 0
  /\ m_use_runtime_metric = 0 /\ last = 0 /\ alone = 0 /\ ordered = 0
NoRanks ==
  /\ kind = 0 /\ invert = 0 /\ normalize = 0 /\ threshold = 0 /\ function = 0
  /\ m_correspondences = 0 /\ m_clouds = 0 /\ m_cached = 0 /\ m_scores = 0 /\ m_indices = 0
  /\ weights = 0 /\ behind = 0 /\ ranked = 0
NoParser ==
  /\ phase = 0 /\ args = 0 /\ queue = 0 /\ cmd = 0 /\ target = 0 /\ dashed = 0 /\ next_arg = 0
  /\ help = 0 /\ failed = 0 /\ value = 0 /\ exit = 0 /\ ran = 0 /\ runs = 0 /\ role = 0
  /\ before = 0

KeepersParts == {"blocks", "objects", "memo", "frames", "index", "sort", "parser"}

KeepersStart ==
  /\ IF part = "blocks" THEN Blocks!Init ELSE NoBlocks
  /\ IF part = "objects" THEN Objects!Init ELSE NoObjects
  /\ IF part = "memo" THEN Memo!Init ELSE NoMemo
  /\ IF part = "frames" THEN Frames!Init ELSE NoFrames
  /\ IF part = "index" THEN Trees!Init ELSE NoTrees
  /\ IF part = "sort" THEN Ranks!Init ELSE NoRanks
  /\ IF part = "parser" THEN Parser!Init ELSE NoParser

KeepersInit == part \in KeepersParts /\ KeepersStart

KeepersNext ==
  \/ /\ part = "blocks" /\ Blocks!Next
     /\ UNCHANGED <<part, object_vars, memo_vars, frame_vars, tree_vars, rank_vars, parser_vars>>
  \/ /\ part = "objects" /\ Objects!Next
     /\ UNCHANGED <<part, block_vars, memo_vars, frame_vars, tree_vars, rank_vars, parser_vars>>
  \/ /\ part = "memo" /\ Memo!Next
     /\ UNCHANGED <<part, block_vars, object_vars, frame_vars, tree_vars, rank_vars, parser_vars>>
  \/ /\ part = "frames" /\ Frames!Next
     /\ UNCHANGED <<part, block_vars, object_vars, memo_vars, tree_vars, rank_vars, parser_vars>>
  \/ /\ part = "index" /\ Trees!Next
     /\ UNCHANGED <<part, block_vars, object_vars, memo_vars, frame_vars, rank_vars, parser_vars>>
  \/ /\ part = "sort" /\ Ranks!Next
     /\ UNCHANGED <<part, block_vars, object_vars, memo_vars, frame_vars, tree_vars, parser_vars>>
  \/ /\ part = "parser" /\ Parser!Next
     /\ UNCHANGED <<part, block_vars, object_vars, memo_vars, frame_vars, tree_vars, rank_vars>>

KeepersSpec == KeepersInit /\ [][KeepersNext]_keeper_vars

-------------------------------------------------------------------------------
(* Properties *)

\* BlockPool: no block has two users, none is freed while in use or kept, none is lost;
\* and the free list stays within its limit, but for what one expansion leaves.
\* ObjectPool: no object has two users, and none comes with what another user left in it.
PoolsLend ==
  /\ [](part = "blocks" => Blocks!FreeBounded)
  /\ part = "blocks" => Blocks!Lender!Init
  /\ [][part = "blocks" => Blocks!Lender!Next \/ UNCHANGED Blocks!Lender!lending_vars]_keeper_vars
  /\ [](part = "objects" => Objects!TypeOK)
  /\ part = "objects" => Objects!Lender!Init
  /\ [][part = "objects" => Objects!Lender!Next \/ UNCHANGED Objects!Lender!lending_vars]_keeper_vars

\* Memoize: everybody who asks for a key gets one and the same answer.
OneAnswerPerKey == part = "memo" => Memo!TypeOK /\ Memo!OneAnswerPerKey

\* FrameCache, until readers race in the containers: the list of the least recently used
\* names every cached frame once, there are never more than the limit, and what stays is
\* what was used last; what a reader has found stays until it has copied it, and a loaded
\* frame is lost to its reader only if the others overtook it.
ListMatchesCache ==
  part = "frames" => Frames!ListMatchesCache /\ Frames!LatestKept /\ Frames!LostOnlyWhenOvertaken

\* NeighbourIndex: an extractor that has its object alone asks about its own cloud.
AsksAboutItsCloud == part = "index" => Trees!TypeOK /\ Trees!AsksAboutItsCloud

\* CommandLine: when a callback is called, every token of the line has been taken for
\* exactly one thing and none was refused; and there is one call at most, only for a line
\* that asks for it.
TokensAccounted == part = "parser" => Parser!TokensAccounted /\ Parser!CallbackJustified

\* CommandLine: the last setting on the line wins, then the ini file.
LastSettingWins == part = "parser" => Parser!LastSettingWins

\* Sorters: a ranking from the cache is the one that would be computed now.
RankingIsFresh == part = "sort" => Ranks!RankingIsFresh
===============================================================================
