------------------------------- MODULE Datasets -------------------------------
(***************************************************************************)
(* semantic_kitti_dataset_t, which adds the labels of a second directory   *)
(* to the frames of a KITTI sequence and caches them, and the pair         *)
(* datasets over it: two frames skip_ apart.  One thread uses them.        *)
(* The frames themselves come from the dataset of module FrameCache, which *)
(* answers a lone reader whenever the file is good and the cache can hold  *)
(* a frame.                                                                *)
(***************************************************************************)
EXTENDS Integers, Sequences, FiniteSets

CONSTANTS
  Points,       \* a sequence: the number of points of each frame, Corrupt if unreadable
  LabelFiles,   \* a sequence: the labels in each file, in the order of the points;
                \* empty when there is no directory of labels
  Poses,        \* a sequence: where each frame was taken, on a line
  Corrupt,
  LabelIds,
  MaxScan,      \* frames that get_unique_labels(false) looks at (10)
  CacheSizes, DefaultSize, Skips, Thresholds

NFrames == Len(Points)
Frame == 0 .. NFrames - 1
Unlabeled == 0
Nullopt == [labels |-> "nullopt"]

VARIABLES
  label_cache,             \* the frames whose labels are kept
  label_cache_size,        \* and of the cache of frames below
  unique_labels_cached_, unique_labels_cache_,
  validate_labels_,
  skip_, filter_by_motion_, min_translation,
  answer                   \* the last call, with its arguments and its result

cache_vars == <<label_cache, unique_labels_cached_, unique_labels_cache_>>
config_vars == <<label_cache_size, validate_labels_, skip_, filter_by_motion_, min_translation>>
dataset_vars == <<cache_vars, config_vars, answer>>

\* Operators called Mutant_... are faulty variants of the definition that follows
\* them; no specification uses them.

Asked(call, argument, value) == [call |-> call, argument |-> argument, value |-> value]

Init ==
  /\ label_cache = {} /\ label_cache_size = DefaultSize
  /\ unique_labels_cached_ = FALSE /\ unique_labels_cache_ = {}
  /\ validate_labels_ \in BOOLEAN
  /\ skip_ \in Skips \ {0}      \* the constructor throws on 0, set_skip() does not
  /\ filter_by_motion_ \in BOOLEAN /\ min_translation \in Thresholds
  /\ answer = Asked("none", 0, Nullopt)

-------------------------------------------------------------------------------
(* Labels                                                                  *)

HasFile(i) == i < Len(LabelFiles)
Good(i) == HasFile(i) /\ LabelFiles[i + 1] # Corrupt

\* What load_labels(i) would answer with no cache at all.
OnDisk(i) == IF Good(i) THEN LabelFiles[i + 1] ELSE <<>>

\* erase(begin()) of a std::map: the frames that come last in the sequence stay.
Trimmed(cached, n) == {i \in cached : Cardinality({j \in cached : j >= i}) <= n}

Load(cached, i) ==
  IF i \in cached \/ ~Good(i) THEN cached ELSE Trimmed(cached \union {i}, label_cache_size)

\* load_labels() answers with its own copy: the entry it has put there may be gone.
Mutant_FromCache(cached, i) == IF i \in Load(cached, i) THEN OnDisk(i) ELSE <<>>
Labels(cached, i) == IF i \in cached \/ Good(i) THEN OnDisk(i) ELSE <<>>

\* The cache after load_labels() for the first n frames, as far as they are in a set.
Loaded(frames, n) ==
  LET after[k \in 0 .. n] ==
        IF k = 0 THEN label_cache
        ELSE IF k - 1 \in frames THEN Load(after[k - 1], k - 1) ELSE after[k - 1]
  IN  after[n]

\* What each of these calls answers for the first n frames.
Scanned(n) == [i \in 0 .. n - 1 |-> Labels(Loaded(Frame, i), i)]

Smaller(m, n) == IF m < n THEN m ELSE n
Within(s) == {s[k] : k \in DOMAIN s}
Ids(labels) == UNION {Within(labels[i]) : i \in DOMAIN labels}

-------------------------------------------------------------------------------
(* Frames and pairs                                                        *)

Readable(i) == i < NFrames /\ Points[i + 1] # Corrupt
HasFrame(i) == Readable(i) /\ label_cache_size > 0

\* std::vector::resize
Resized(labels, n) == [k \in 1 .. n |-> IF k <= Len(labels) THEN labels[k] ELSE Unlabeled]

\* The labels that at_impl() gives a frame.
FrameLabels(i, loaded) ==
  IF ~HasFile(i) \/ (validate_labels_ /\ Len(loaded) # Points[i + 1])
  THEN Resized(IF HasFile(i) THEN loaded ELSE <<>>, Points[i + 1]) ELSE loaded

\* at_impl(i) with a cache: the frame, and the cache after it.
FrameAt(cached, i) ==
  IF ~HasFrame(i) THEN [cache |-> cached, value |-> Nullopt]
  ELSE [cache |-> IF HasFile(i) THEN Load(cached, i) ELSE cached,
        value |-> [frame |-> i, labels |-> FrameLabels(i, Labels(cached, i))]]

PairCount(n) == IF n > skip_ THEN n - skip_ ELSE 0

MovesEnough(i, j) == LET d == Poses[j + 1] - Poses[i + 1] IN d >= min_translation \/ -d >= min_translation

PairAt(cached, k) ==
  LET source == FrameAt(cached, k)
      target == FrameAt(source.cache, k + skip_)
  IN  CASE k >= PairCount(NFrames) -> [cache |-> cached, value |-> Nullopt]
        [] k < PairCount(NFrames) /\ source.value = Nullopt -> source
        [] OTHER -> [cache |-> target.cache, value |->
             IF target.value = Nullopt \/ (filter_by_motion_ /\ ~MovesEnough(k, k + skip_))
             THEN Nullopt ELSE [labels |-> source.value.labels \o target.value.labels,
                                source |-> k, target |-> k + skip_]]

\* The frames of the other pair dataset are in a cache of its own, which has its default size.
OdometryPairAt(k) ==
  IF k < PairCount(NFrames) /\ Readable(k) /\ Readable(k + skip_)
  THEN [source |-> k, target |-> k + skip_] ELSE Nullopt

-------------------------------------------------------------------------------
(* Calls                                                                   *)

At(i) ==
  /\ label_cache' = FrameAt(label_cache, i).cache
  /\ answer' = Asked("at", i, FrameAt(label_cache, i).value)
  /\ UNCHANGED <<unique_labels_cached_, unique_labels_cache_, config_vars>>

GetUniqueLabels(scan_all) ==
  LET n == IF scan_all THEN NFrames ELSE Smaller(NFrames, MaxScan)
      unique == IF LabelFiles = <<>> THEN {Unlabeled} ELSE Ids(Scanned(n))
  IN  /\ IF ~scan_all /\ unique_labels_cached_
         THEN answer' = Asked("unique", scan_all, unique_labels_cache_) /\ UNCHANGED cache_vars
         ELSE /\ answer' = Asked("unique", scan_all, unique)
              /\ IF LabelFiles = <<>> THEN UNCHANGED cache_vars
                 ELSE /\ label_cache' = Loaded(Frame, n)
                      /\ unique_labels_cached_' = (unique_labels_cached_ \/ scan_all)
                      /\ unique_labels_cache_' = IF scan_all THEN unique ELSE unique_labels_cache_
      /\ UNCHANGED <<config_vars>>

\* The frames whose labels are loaded when they are asked for, and what is answered.
Labelled == {i \in Frame : HasFrame(i) /\ HasFile(i)}
Visited(n) == [i \in 0 .. n - 1 |-> FrameAt(Loaded(Labelled, i), i).value]

ComputeLabelStatistics(max_frames) ==
  LET n == IF max_frames = 0 THEN NFrames ELSE Smaller(max_frames, NFrames)
      values == Visited(n)
  IN  /\ label_cache' = Loaded(Labelled, n)
      /\ answer' = Asked("statistics", n, [id \in LabelIds |-> Cardinality(
           {e \in (0 .. n - 1) \X (1 .. 3) :
              /\ values[e[1]] # Nullopt
              /\ e[2] <= Len(values[e[1]].labels) /\ values[e[1]].labels[e[2]] = id})])
      /\ UNCHANGED <<unique_labels_cached_, unique_labels_cache_, config_vars>>

Has(labels, id, min_points) ==
  LET count == Cardinality({k \in DOMAIN labels : labels[k] = id})
  IN  count > 0 /\ count >= min_points

GetFramesWithLabel(id, min_points) ==
  LET labels == Scanned(NFrames)
  IN  /\ label_cache' = Loaded(Frame, NFrames)
      /\ answer' = Asked("frames", <<id, min_points>>, {i \in Frame : Has(labels[i], id, min_points)})
      /\ UNCHANGED <<unique_labels_cached_, unique_labels_cache_, config_vars>>

Pair(k) ==
  /\ label_cache' = PairAt(label_cache, k).cache
  /\ answer' = Asked("pair", k, PairAt(label_cache, k).value)
  /\ UNCHANGED <<unique_labels_cached_, unique_labels_cache_, config_vars>>

OdometryPair(k) ==
  /\ answer' = Asked("odometry", k, OdometryPairAt(k))
  /\ UNCHANGED <<cache_vars, config_vars>>

GetPairsWithMotion ==
  /\ answer' = Asked("motion", min_translation,
       {k \in 0 .. PairCount(NFrames) - 1 :
          OdometryPairAt(k) # Nullopt /\ MovesEnough(k, k + skip_)})
  /\ UNCHANGED <<cache_vars, config_vars>>

SetCacheSize(n) ==
  /\ label_cache_size' = n /\ label_cache' = Trimmed(label_cache, n)
  /\ answer' = Asked("size", n, Nullopt)
  /\ UNCHANGED <<unique_labels_cached_, unique_labels_cache_, validate_labels_, skip_,
                 filter_by_motion_, min_translation>>

SetSkip(n) ==
  /\ skip_' = n /\ answer' = Asked("skip", n, Nullopt)
  /\ UNCHANGED <<cache_vars, label_cache_size, validate_labels_, filter_by_motion_,
                 min_translation>>

\* unique_labels_cached_ stays.
ClearCache ==
  /\ label_cache' = {} /\ unique_labels_cache_' = {}
  /\ answer' = Asked("clear", 0, Nullopt)
  /\ UNCHANGED <<unique_labels_cached_, config_vars>>

Next ==
  \/ \E i \in 0 .. NFrames : At(i) \/ Pair(i) \/ OdometryPair(i)
  \/ \E scan_all \in BOOLEAN : GetUniqueLabels(scan_all)
  \/ \E n \in 0 .. NFrames : ComputeLabelStatistics(n)
  \/ \E id \in LabelIds, n \in {1, 2} : GetFramesWithLabel(id, n)
  \/ GetPairsWithMotion
  \/ \E n \in CacheSizes : SetCacheSize(n)
  \/ \E n \in Skips : SetSkip(n)
  \/ ClearCache

Spec == Init /\ [][Next]_dataset_vars

-------------------------------------------------------------------------------
(* Properties                                                              *)

TypeOK ==
  /\ label_cache \subseteq {i \in 0 .. Len(LabelFiles) - 1 : Good(i)}
  /\ label_cache_size \in CacheSizes \union {DefaultSize}
  /\ unique_labels_cached_ \in BOOLEAN /\ unique_labels_cache_ \subseteq LabelIds
  /\ skip_ \in Skips

TrueLabels(i) == FrameLabels(i, OnDisk(i))
AllIds == IF LabelFiles = <<>> THEN {Unlabeled} ELSE Ids([i \in Frame |-> OnDisk(i)])

\* What the cache holds, evicts or has just thrown away again never shows: it stays within
\* its size, and every frame, pair, statistic and search answers with the labels that are in
\* the files, those of a frame cut or filled up to its points when they are validated.
CacheIsTransparent ==
  LET a == answer.argument
      v == answer.value
  IN  /\ TypeOK
      /\ Cardinality(label_cache) <= label_cache_size
      /\ CASE answer.call = "at" -> v # Nullopt => v.labels = TrueLabels(a)
           [] answer.call = "pair" -> v # Nullopt =>
                /\ v.target = v.source + skip_ /\ {v.source, v.target} \subseteq Frame
                /\ v.labels = TrueLabels(v.source) \o TrueLabels(v.target)
           [] answer.call = "frames" -> v = {i \in Frame : Has(OnDisk(i), a[1], a[2])}
           [] answer.call = "statistics" -> \A id \in LabelIds :
                v[id] = Cardinality({e \in (0 .. a - 1) \X (1 .. 3) :
                          /\ HasFrame(e[1]) /\ e[2] <= Len(TrueLabels(e[1]))
                          /\ TrueLabels(e[1])[e[2]] = id})
           [] answer.call = "unique" -> a => v = AllIds
           [] OTHER -> TRUE
===============================================================================
