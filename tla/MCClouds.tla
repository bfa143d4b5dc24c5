------------------------------- MODULE MCClouds -------------------------------
(***************************************************************************)
(* The components of the point cloud library, and the measures and helpers *)
(* that it computes with, as TLC checks them: those of CloudCalls, with    *)
(* what its constants stand for, and others, which share call and answer.  *)
(***************************************************************************)
EXTENDS CloudCalls, SequencesExt, TLC

CONSTANT NaN

-------------------------------------------------------------------------------
(* FineRegistration: clouds with all, no and some normals, and an empty one. *)

Sized(id, size, normals) == [id |-> id, size |-> size, normals |-> normals]
SmallClouds == {Sized(1, 2, 2), Sized(2, 2, 0), Sized(3, 2, 1), Sized(4, 0, 0)}
Cloudless == Sized(0, 0, 0)

-------------------------------------------------------------------------------
(* Datasets: three frames, of which the second cannot be read.             *)

FramePoints == <<2, Corrupt, 1>>
FrameLabels == <<<<1, 2>>, <<2>>, <<1, 1>>>>

FramePoses == <<0, 1, 5>>

-------------------------------------------------------------------------------
(* SpfhCache: two or three keypoints among four points; a point that two, three or *)
(* all of them have as a neighbour.                                              *)

SharedNeighbours ==
  {[near |-> n, keypoints |-> k] :
     n \in {<<{1, 4}, {2, 4}, {3}, {1, 2, 4}>>,
            <<{1, 2, 4}, {1, 2}, {3, 4}, {1, 3, 4}>>,
            <<{1, 2}, {1, 2, 3}, {2, 3}, {4}>>},
     k \in {{1, 2}, {1, 2, 3}}}

-------------------------------------------------------------------------------
(* Keypoints: three points, in three, two or one neighbourhoods, or in a row. *)

Extractors ==
  {"harris3d", "agast", "susan", "curvature", "iss", "mls", "sift3d", "loam"}
Nearness ==
  {<<{1}, {2}, {3}>>, <<{1, 2}, {1, 2}, {3}>>, <<{1, 2, 3}, {1, 2, 3}, {1, 2, 3}>>,
   <<{1, 2}, {1, 2, 3}, {2, 3}>>}

-------------------------------------------------------------------------------
(* CoarseRegistration: too few correspondences; four, of which one sample is      *)
(* degenerate; and five, whose best motion loses inliers when it is refined.      *)

\* A sample of good ones has them for inliers, what is estimated of all of these the
\* refit, and any other motion at most the last correspondence.
Agreement(n, good, refit) ==
  [s \in (SUBSET (1 .. n)) \ {{}} |->
     IF s = good THEN refit ELSE IF s \subseteq good THEN good ELSE s \cap {n}]
PutativeSet(id, n, good, refit, degenerate) ==
  [id |-> id, size |-> n, agree |-> Agreement(n, good, refit), degenerate |-> degenerate]
NonePutative == [id |-> "none", size |-> 0, agree |-> <<>>, degenerate |-> {}]
Putatives ==
  {PutativeSet("few", 2, {1, 2}, {1, 2}, {}),
   PutativeSet("four", 4, {1, 2, 4}, {1, 2, 4}, {{1, 2, 3}}),
   PutativeSet("five", 5, {1, 2, 3, 5}, {2, 5}, {{1, 2, 5}})}
SamplesNeeded == [n \in 1 .. 5 |-> [k \in 1 .. n |-> IF 2 * k > n THEN 2 ELSE 4]]
SamplesAdded == <<0, 0, 0, 2, 1>>
Orders == {<<>>, <<4, 2, 3, 1>>, <<5, 3, 1, 2, 4>>}

-------------------------------------------------------------------------------
(* FourPoints: clouds too small, just large enough and larger than the sample.    *)

Motion(id, valid, inliers, score) ==
  [id |-> id, valid |-> valid, inliers |-> inliers, lcp_score |-> score]
Motions ==
  {Motion("a", TRUE, {1, 2}, 5), Motion("b", TRUE, {2, 3}, 4),
   Motion("c", TRUE, {1, 3, 4}, 7), Motion("skewed", FALSE, {1, 2, 3, 4}, 1),
   Motion("away", TRUE, {}, 1000000)}
Drawn(id, size) == [id |-> id, size |-> size]
DrawnClouds == {Drawn(1, 3), Drawn(2, 4), Drawn(3, 6)}
NoneDrawn == Drawn(0, 0)

-------------------------------------------------------------------------------
(* Correspondences: views that do not fit, are empty, have equal descriptors or a *)
(* keypoint twice.                                                                *)

View(points, descriptors) == [keypoints |-> points, descriptors |-> descriptors]

SomeViews ==
  {View(<<>>, <<>>), View(<<7>>, <<3, 4>>), View(<<5>>, <<2>>), View(<<4, 9>>, <<1, 3>>),
   View(<<8, 2, 6>>, <<1, 5, 2>>), View(<<3, 1, 5>>, <<4, 4, 9>>), View(<<3, 3>>, <<1, 6>>)}
NotViewed == View(<<>>, <<0>>)

-------------------------------------------------------------------------------
(* Measures, descriptors: clouds whose points are all near each other, or in a     *)
(* row; features inside, at and outside their range.                               *)

FeatureTable ==
  <<<<0, 2, 8, 3>>, <<8, 4, 0, 8>>, <<3, 7, 5, -1>>, <<-2, 5, 8, 0>>, <<5, 3, 2, 9>>,
    <<1, 0, 1, 4>>, <<6, 6, 7, 2>>>>
PointsDescribed(close, smooth, coincident, a, b) ==
  [size |-> Len(close), near |-> close, smooth |-> smooth, coincident |-> coincident,
   features |-> [i \in DOMAIN close |->
                   [j \in DOMAIN close |-> FeatureTable[((a * i + b * j) % 7) + 1]]]]
AllNear(n) == [i \in 1 .. n |-> [j \in 1 .. n |-> j]]
InARow(n) == [i \in 1 .. n |-> SelectSeq(<<i - 1, i, i + 1>>, LAMBDA j : j \in 1 .. n)]
PairsUpTo(n) == {{i, j} : i, j \in 1 .. n}
DescribedClouds ==
  {PointsDescribed(close, smooth, coincident, a, b) :
     close \in {AllNear(6), InARow(6), InARow(2)},
     smooth \in {PairsUpTo(6), PairsUpTo(3) \cup {{4, 5}, {5, 6}},
                 {{1, 2}, {2, 6}, {3, 4}, {4, 5}, {1, 4}}},
     coincident \in {{}, {{1, 2}}}, a \in {1, 2}, b \in {3}}
TwoRows ==
  {<<a, b>> : a, b \in BoundedSeq({0, 1, 3}, 2) \cup {<<3, 0, 1>>}}

-------------------------------------------------------------------------------
(* Helpers: functions on three values; scripts of up to five steps of a watch,      *)
(* three of a pointer to an array; coordinates of three bits that wrap, or floating  *)
(* ones of which two at a distance of 2 count as equal; bounds of up to four points. *)

Values == 0 .. 2
Functions3 == {0 :> 1 @@ 1 :> 2 @@ 2 :> 2, 0 :> 2 @@ 1 :> 1 @@ 2 :> 0, 0 :> 0 @@ 1 :> 0 @@ 2 :> 1}
Reductions ==
  {[p \in Values \X Values |-> p[1]], [p \in Values \X Values |-> (2 * p[1] + p[2]) % 3],
   [p \in Values \X Values |-> IF p[1] > p[2] THEN p[1] ELSE p[2]]}
Handle(op, id) == [op |-> op, id |-> id]
SmallCoordinates == [signed |-> {-4, -1, 0}, unsigned |-> {0, 1, 7}, float |-> {0, 2, 4}]

Help == INSTANCE Helpers WITH
  Value <- Values, Function <- Functions3,
  Predicate <- {[v \in Values |-> v > 0], [v \in Values |-> v = 1]},
  Container <- BoundedSeq(Values, 2) \cup {<<1, 0, 2>>, <<2, 2, 0>>, <<0, 1, 1>>},
  BinaryOp <- Reductions,
  Steps <- {"start", "stop", "reset", "tick"}, Length <- 5,
  Handling <- {Handle("create", 0), Handle("create", 2), Handle("delete", 0),
               Handle("start", 1), Handle("stop", 2), Handle("start", -1)},
  Width <- 3, Eps <- 2, Coordinates <- SmallCoordinates, Shapes <- {{1, 3}},
  Inputs <- BoundedSeq({<<1, 0>>, <<0, NaN>>, <<NaN, 2>>, <<2, 1>>}, 3)
              \cup {<<<<NaN>>>>, <<<<1>>, <<0>>>>, <<<<2, 1>>, <<1, NaN>>, <<NaN, 2>>, <<1, 0>>>>},
  ChunkSizes <- 1 .. 3, Threshold <- 3

-------------------------------------------------------------------------------
(* Measures: vectors of two coordinates, histograms of three bins, clouds of up to   *)
(* four points, data of up to four numbers of three bits.                            *)

Registering ==
  {[op |-> "clear"], [op |-> "register", name |-> "l1", metric |-> "L2"],
   [op |-> "inform", name |-> "mine", metric |-> "KLDivergence"],
   [op |-> "inform", name |-> "l1", metric |-> "Cosine"]}

Measured == INSTANCE Measures WITH
  Vector <- {<<>>} \cup [1 .. 2 -> -1 .. 1],
  Histogram <- {<<0, 0, 0>>, <<1, 0, 0>>, <<0, 0, 1>>, <<1, 1, 0>>, <<1, 2, 0>>, <<0, 1, 2>>,
                <<-1, 1, 0>>},
  Powers <- {0, 1, 2, 3, 1000000}, Weights <- {<<>>, <<2>>, <<1, 3>>},
  Script <- BoundedSeq(Registering, 2),
  Cloud <- BoundedSeq({0, 1, 3}, 2)
             \cup {<<0, 1, 2>>, <<1, 3, 3>>, <<3, 0, 1>>, <<2, 2, 0>>, <<3, 1, 0>>},
  Ks <- 0 .. 3, Shifts <- {-1, 0}, Threshold <- 0 .. 1,
  Width <- 3,
  Data <- BoundedSeq({0, 3, 7}, 2)
            \cup {<<1, 7, 0>>, <<3, 3, 1>>, <<5, 6, 5>>, <<1, 0, 3, 1>>, <<7, 1, 6, 2>>,
                  <<3, 0, 0, 3>>, <<2, 5, 1, 4>>},
  Portions <- {<<0, 1>>, <<1, 3>>, <<1, 2>>, <<3, 4>>, <<1, 1>>, <<5, 4>>, <<-1, 2>>},
  Counts <- 0 .. 3, Limits <- {0, 2, 3},
  Full <- 8, DescribedCloud <- DescribedClouds, Described <- {<<>>, <<2, 1>>},
  MaxNeighbours <- {2, 5, 9}, Subdivisions <- {0, 1, 5, 6}, Rows <- TwoRows

-------------------------------------------------------------------------------

rest == <<registering, searching, fine, two, sampling, trying, ranked, paired, matching,
          phase, lost, signing, near, extracting, adding, length, workers, enabled,
          rounds, pending, failed, futures, written, label_cache, label_cache_size,
          unique_labels_cached_, unique_labels_cache_, validate_labels_, skip_,
          filter_by_motion_, min_translation>>
NoRest ==
  /\ NoRegistering /\ NoSearching /\ NoFine /\ NoTwo /\ NoSampling /\ NoTrying /\ NoRanked
  /\ NoPaired /\ NoMatching /\ phase = 0 /\ lost = 0 /\ NoSigning /\ near = 0
  /\ NoExtracting /\ NoAdding /\ length = 0 /\ workers = 0 /\ enabled = 0 /\ rounds = 0
  /\ pending = 0 /\ failed = 0 /\ futures = 0 /\ written = 0 /\ label_cache = 0
  /\ label_cache_size = 0 /\ unique_labels_cached_ = 0 /\ unique_labels_cache_ = 0
  /\ validate_labels_ = 0 /\ skip_ = 0 /\ filter_by_motion_ = 0 /\ min_translation = 0

Init ==
  \/ CloudsInit
  \/ /\ \/ part = "helpers" /\ Help!Init
        \/ part = "measures" /\ Measured!Init
     /\ NoRest

Next ==
  \/ CloudsNext
  \/ /\ \/ part = "helpers" /\ Help!Next
        \/ part = "measures" /\ Measured!Next
     /\ UNCHANGED <<part, rest>>

Spec == Init /\ [][Next]_vars
RaceSpec == Init /\ part = "spfh" /\ [][Next]_vars

-------------------------------------------------------------------------------
(* Properties *)

\* What is counted and measured is what it is defined to be.  Measures: each metric of
\* vectors, histograms and clouds against its definition, its symmetry and its zeros, and
\* what the registry says of it; what describes data against its definition, in whole
\* numbers that wrap; of a descriptor, every neighbour, pair or point of a smooth region is
\* counted once, in the bin it belongs to, and the ratio test accepts only what is
\* unambiguous.  Helpers: the laws of the functional helpers; a watch shows the ticks between its
\* starts and stops; the operators, the order and the bounds of points.
FiguresAreRight ==
  /\ part = "measures" =>
       /\ Measured!MeasuresAgree /\ Measured!CloudsAgree /\ Measured!NumbersDescribed
       /\ Measured!CountedOnce
  /\ part = "helpers" => Help!LawsHold /\ Help!TimeAccounted /\ Help!PointsAgree

\* SpfhCache: the comment of the lazy computation calls it thread-safe.
ThreadSafe == part = "spfh" => Spfh!ThreadSafe
===============================================================================
