------------------------------- MODULE CloudCalls -------------------------------
(***************************************************************************)
(* The calls of the point cloud library and of its datasets about which    *)
(* theorems are proved: registration, the calls that cut their work into   *)
(* chunks, the cache of signatures, keypoints, correspondences, sums of    *)
(* clouds, and labelled frames.  They do not call each other: part says    *)
(* which one a behaviour is about, and the variables that it does not have *)
(* are 0.                                                                  *)
(***************************************************************************)
EXTENDS Integers, Sequences, FiniteSets

CONSTANTS
  Algorithms, FineCloud, NoFineCloud, Settings, FineLimits,      \* of FineRegistration
  Methods, Putative, NoPutative, Rankings, m_sample_size, Needed,  \* of CoarseRegistration
  Initial, Added, Window, EarlyStop, Random, CoarseLimits,
  SampledCloud, NoSampledCloud, SampleSizes, Candidate,          \* of FourPoints
  MaxBases, Overlaps,
  Minima, MaxCalls,                                              \* of registrations
  Generators, Views, NoView, Ratios, Near,                       \* of Correspondences
  MaxLength, Workers, SmallestParallel, Grain,                   \* of ChunkedCalls
  SpfhPoint, SpfhClouds, Modes,                                  \* of SpfhCache
  Kinds, KeyPoint, KeyValues, Others, Strong, Neighbours,        \* of Keypoints
  CloudName, MaxIds, MaxPoints, MaxMoves,                        \* of PointClouds
  Points, LabelFiles, Poses, Corrupt, LabelIds, MaxScan,         \* of Datasets
  CacheSizes, DefaultSize, Skips, Moving

-------------------------------------------------------------------------------
(* What the code knows of its data: what the theorems assume of the constants.  *)

IterationsAreNumbers == FineLimits \subseteq Nat /\ MaxCalls \in Nat

\* Inliers are counted, and scores can be compared.
CandidatesAreMeasured ==
  /\ MaxBases \in Nat /\ MaxCalls \in Nat
  /\ \A c \in Candidate : IsFiniteSet(c.inliers) /\ c.lcp_score \in Int

PutativeSets == Putative \cup {NoPutative}

\* A set of correspondences has finitely many, a motion has its inliers among them, and
\* PROSAC's schedule grows: initialize_prosac_parameters() rounds every increment up, to 1 at
\* least as long as the powers it is made of do not underflow.
PutativesAreMeasured ==
  /\ m_sample_size \in Nat \ {0} /\ Window \in Nat \ {0} /\ Initial \in Nat
  /\ CoarseLimits \subseteq Nat /\ MaxCalls \in Nat /\ Rankings \subseteq Seq(Nat)
  /\ \A c \in PutativeSets :
       /\ c.size \in Nat
       /\ \A s \in SUBSET (1 .. c.size) : s # {} => c.agree[s] \in SUBSET (1 .. c.size)
       /\ \A k \in 1 .. c.size : Needed[c.size][k] \in Nat
       /\ \A n \in 1 .. c.size : n > m_sample_size => Added[n] \in Nat \ {0}

ViewsAreSequences ==
  /\ Ratios \subseteq Int /\ Near \subseteq Int
  /\ \A v \in Views \cup {NoView} : v.keypoints \in Seq(Nat) /\ v.descriptors \in Seq(Int)

ChunksAreOfWorkers ==
  MaxLength \in Nat /\ Workers \subseteq Nat \ {0} /\ Grain \in Nat \ {0}

\* The points of a cloud are finitely many, and each is among its own neighbours.
NeighboursAreInCloud ==
  /\ IsFiniteSet(SpfhPoint) /\ Modes \subseteq BOOLEAN
  /\ \A c \in SpfhClouds :
       /\ c.near \in [SpfhPoint -> SUBSET SpfhPoint] /\ c.keypoints \subseteq SpfhPoint
       /\ \A p \in SpfhPoint : p \in c.near[p]

\* Within a radius, near is near for both.
PointsAreNear ==
  /\ Kinds \subseteq {"harris3d", "agast", "susan", "curvature", "iss", "mls", "sift3d", "loam"}
  /\ IsFiniteSet(KeyPoint) /\ KeyValues \subseteq Int /\ Others \subseteq Int /\ Strong \in Int
  /\ \A n \in Neighbours : /\ n \in [KeyPoint -> SUBSET KeyPoint]
                           /\ \A i, j \in KeyPoint : j \in n[i] => i \in n[j]

LabelsAreKnown ==
  /\ Points \in Seq(Nat \cup {Corrupt}) /\ LabelFiles \in Seq(Seq(LabelIds) \cup {Corrupt})
  /\ CacheSizes \subseteq Nat /\ DefaultSize \in Nat /\ MaxScan \in Nat /\ Skips \subseteq Nat

ASSUME CloudsAssumption ==
  /\ IterationsAreNumbers /\ CandidatesAreMeasured /\ PutativesAreMeasured
  /\ ViewsAreSequences /\ ChunksAreOfWorkers /\ NeighboursAreInCloud /\ PointsAreNear
  /\ LabelsAreKnown

-------------------------------------------------------------------------------

VARIABLES
  part,
  calls, returned, result, iter, limit,                          \* of registrations
  algorithm, source_updated, target_updated, setting, grid_updated, index, changed,
  record, callback, current, previous_error, refused,                             \* of FineRegistration
  source, target,                                                \* and FourPoints
  sample_size, source_samples, target_samples, overlap, bases, base_idx,
  best, tried, least,                                            \* and CoarseRegistration
  ranking, m_refine_result, iterations, pool, history,
  method, correspondences,                                       \* and Correspondences
  m_knn, m_ratio, m_mutual_verification, m_distance_threshold, results, statistics,
  phase,                                                         \* and ChunkedCalls
  call, length, workers, enabled, rounds, pending, failed, futures, written,
  lost,                                                          \* and SpfhCache
  keypoint_indices, m_enable_parallel, stage, computed, spfh_computed, signature, task,
  near,                                                          \* and Keypoints
  kind, responses, keypoints, labels, extracted,
  cloud, made,                                                   \* of PointClouds
  label_cache, label_cache_size, unique_labels_cached_, unique_labels_cache_,
  validate_labels_, skip_, filter_by_motion_, min_translation, answer  \* of Datasets

Registration == INSTANCE FineRegistration WITH
  Cloud <- FineCloud, NoCloud <- NoFineCloud, Limits <- FineLimits
Coarse == INSTANCE CoarseRegistration WITH
  Correspondences <- Putative, None <- NoPutative, Threshold <- Random,
  Limits <- CoarseLimits
Four == INSTANCE FourPoints WITH Cloud <- SampledCloud, NoCloud <- NoSampledCloud
Match == INSTANCE Correspondences WITH Methods <- Generators, Thresholds <- Near
Chunked == INSTANCE ChunkedCalls WITH Threshold <- SmallestParallel
Spfh == INSTANCE SpfhCache WITH Point <- SpfhPoint, Clouds <- SpfhClouds
Extractor == INSTANCE Keypoints WITH
  Point <- KeyPoint, Values <- KeyValues, Threshold <- Strong
Sums == INSTANCE PointClouds WITH Clouds <- CloudName
Kitti == INSTANCE Datasets WITH Thresholds <- Moving

-------------------------------------------------------------------------------
(* What a part leaves over.                                                *)

registering == <<calls, returned, result>>
searching == <<iter, limit>>
fine == <<algorithm, source_updated, target_updated, setting, grid_updated, index,
  changed, record, callback, current, previous_error, refused>>
two == <<source, target>>
sampling == <<sample_size, source_samples, target_samples, overlap, bases, base_idx>>
trying == <<best, tried, least>>
ranked == <<ranking, m_refine_result, iterations, pool, history>>
paired == <<method, correspondences>>
matching == <<m_knn, m_ratio, m_mutual_verification, m_distance_threshold, results,
  statistics>>
chunking == <<call, length, workers, enabled, rounds, pending, failed, futures,
  written>>
signing == <<keypoint_indices, m_enable_parallel, stage, computed, spfh_computed,
  signature, task>>
extracting == <<kind, responses, keypoints, labels, extracted>>
adding == <<cloud, made>>
labelling == <<label_cache, label_cache_size, unique_labels_cached_,
  unique_labels_cache_, validate_labels_, skip_, filter_by_motion_, min_translation,
  answer>>

vars == <<part, registering, searching, fine, two, sampling, trying, ranked,
        paired, matching, phase, chunking, lost, signing, near, extracting, adding,
        labelling>>

NoRegistering == calls = 0 /\ returned = 0 /\ result = 0
NoSearching == iter = 0 /\ limit = 0
NoFine ==
  /\ algorithm = 0 /\ source_updated = 0 /\ target_updated = 0 /\ setting = 0
  /\ grid_updated = 0 /\ index = 0 /\ changed = 0 /\ record = 0 /\ callback = 0
  /\ current = 0 /\ previous_error = 0 /\ refused = 0
NoTwo == source = 0 /\ target = 0
NoSampling ==
  /\ sample_size = 0 /\ source_samples = 0 /\ target_samples = 0 /\ overlap = 0
  /\ bases = 0 /\ base_idx = 0
NoTrying == best = 0 /\ tried = 0 /\ least = 0
NoRanked == ranking = 0 /\ m_refine_result = 0 /\ iterations = 0 /\ pool = 0 /\ history = 0
NoPaired == method = 0 /\ correspondences = 0
NoMatching ==
  /\ m_knn = 0 /\ m_ratio = 0 /\ m_mutual_verification = 0 /\ m_distance_threshold = 0
  /\ results = 0 /\ statistics = 0
NoChunking ==
  /\ call = 0 /\ length = 0 /\ workers = 0 /\ enabled = 0 /\ rounds = 0 /\ pending = 0
  /\ failed = 0 /\ futures = 0 /\ written = 0
NoSigning ==
  /\ keypoint_indices = 0 /\ m_enable_parallel = 0 /\ stage = 0 /\ computed = 0
  /\ spfh_computed = 0 /\ signature = 0 /\ task = 0
NoExtracting == kind = 0 /\ responses = 0 /\ keypoints = 0 /\ labels = 0 /\ extracted = 0
NoAdding == cloud = 0 /\ made = 0
NoLabelling ==
  /\ label_cache = 0 /\ label_cache_size = 0 /\ unique_labels_cached_ = 0
  /\ unique_labels_cache_ = 0 /\ validate_labels_ = 0 /\ skip_ = 0
  /\ filter_by_motion_ = 0 /\ min_translation = 0 /\ answer = 0

-------------------------------------------------------------------------------

CloudsInit ==
  \/ /\ part = "registration" /\ Registration!Init
     /\ NoSampling /\ NoTrying /\ NoRanked /\ NoPaired /\ NoMatching /\ NoChunking
     /\ lost = 0 /\ NoSigning /\ near = 0 /\ NoExtracting /\ NoAdding /\ NoLabelling
  \/ /\ part = "four points" /\ Four!Init
     /\ NoSearching /\ NoFine /\ NoRanked /\ NoPaired /\ NoMatching /\ NoChunking
     /\ lost = 0 /\ NoSigning /\ near = 0 /\ NoExtracting /\ NoAdding /\ NoLabelling
  \/ /\ part = "coarse" /\ Coarse!Init
     /\ NoFine /\ NoTwo /\ NoSampling /\ NoMatching /\ NoChunking /\ lost = 0 /\ NoSigning
     /\ near = 0 /\ NoExtracting /\ NoAdding /\ NoLabelling
  \/ /\ part = "match" /\ Match!Init
     /\ NoRegistering /\ NoSearching /\ NoFine /\ NoSampling /\ NoTrying /\ NoRanked
     /\ NoChunking /\ lost = 0 /\ NoSigning /\ near = 0 /\ NoExtracting /\ NoAdding
     /\ NoLabelling
  \/ /\ part = "chunked" /\ Chunked!Init
     /\ NoRegistering /\ NoSearching /\ NoFine /\ NoTwo /\ NoSampling /\ NoTrying
     /\ NoRanked /\ NoPaired /\ NoMatching /\ NoSigning /\ near = 0 /\ NoExtracting
     /\ NoAdding /\ NoLabelling
  \/ /\ part = "spfh" /\ Spfh!Init
     /\ NoRegistering /\ NoSearching /\ NoFine /\ NoTwo /\ NoSampling /\ NoTrying
     /\ NoRanked /\ NoPaired /\ NoMatching /\ phase = 0 /\ NoChunking /\ NoExtracting
     /\ NoAdding /\ NoLabelling
  \/ /\ part = "keypoints" /\ Extractor!Init
     /\ NoRegistering /\ NoSearching /\ NoFine /\ NoTwo /\ NoSampling /\ NoTrying
     /\ NoRanked /\ NoPaired /\ NoMatching /\ phase = 0 /\ NoChunking /\ lost = 0
     /\ NoSigning /\ NoAdding /\ NoLabelling
  \/ /\ part = "clouds" /\ Sums!Init
     /\ NoRegistering /\ NoSearching /\ NoFine /\ NoTwo /\ NoSampling /\ NoTrying
     /\ NoRanked /\ NoPaired /\ NoMatching /\ phase = 0 /\ NoChunking /\ lost = 0
     /\ NoSigning /\ near = 0 /\ NoExtracting /\ NoLabelling
  \/ /\ part = "kitti" /\ Kitti!Init
     /\ NoRegistering /\ NoSearching /\ NoFine /\ NoTwo /\ NoSampling /\ NoTrying
     /\ NoRanked /\ NoPaired /\ NoMatching /\ phase = 0 /\ NoChunking /\ lost = 0
     /\ NoSigning /\ near = 0 /\ NoExtracting /\ NoAdding

CloudsNext ==
  \/ /\ part = "registration" /\ Registration!Next
     /\ UNCHANGED <<part, sampling, trying, ranked, paired, matching, chunking, lost,
                    signing, near, extracting, adding, labelling>>
  \/ /\ part = "four points" /\ Four!Next
     /\ UNCHANGED <<part, searching, fine, ranked, paired, matching, chunking, lost,
                    signing, near, extracting, adding, labelling>>
  \/ /\ part = "coarse" /\ Coarse!Next
     /\ UNCHANGED <<part, fine, two, sampling, matching, chunking, lost, signing, near,
                    extracting, adding, labelling>>
  \/ /\ part = "match" /\ Match!Next
     /\ UNCHANGED <<part, registering, searching, fine, sampling, trying, ranked,
                    chunking, lost, signing, near, extracting, adding, labelling>>
  \/ /\ part = "chunked" /\ Chunked!Next
     /\ UNCHANGED <<part, registering, searching, fine, two, sampling, trying, ranked,
                    paired, matching, signing, near, extracting, adding, labelling>>
  \/ /\ part = "spfh" /\ Spfh!Next
     /\ UNCHANGED <<part, registering, searching, fine, two, sampling, trying, ranked,
                    paired, matching, phase, chunking, extracting, adding, labelling>>
  \/ /\ part = "keypoints" /\ Extractor!Next
     /\ UNCHANGED <<part, registering, searching, fine, two, sampling, trying, ranked,
                    paired, matching, phase, chunking, lost, signing, adding, labelling>>
  \/ /\ part = "clouds" /\ Sums!Next
     /\ UNCHANGED <<part, registering, searching, fine, two, sampling, trying, ranked,
                    paired, matching, phase, chunking, lost, signing, near, extracting,
                    labelling>>
  \/ /\ part = "kitti" /\ Kitti!Next
     /\ UNCHANGED <<part, registering, searching, fine, two, sampling, trying, ranked,
                    paired, matching, phase, chunking, lost, signing, near, extracting,
                    adding>>

CloudsSpec == CloudsInit /\ [][CloudsNext]_vars

-------------------------------------------------------------------------------
(* Properties *)

\* FineRegistration: what was prepared for the clouds is of the clouds that are set, and a
\* result says nothing of an earlier call.
IndexIsCurrent ==
  part = "registration" =>
    Registration!TypeOK /\ Registration!IndexIsCurrent /\ Registration!ResultIsOfThisCall

\* ChunkedCalls: when a call returns, every element has its result, computed once.
\* PointClouds: however clouds are put together, a normal stays with its point.
EveryElementOnce ==
  /\ part = "chunked" => Chunked!TypeOK /\ Chunked!EveryElementOnce
  /\ part = "clouds" => Sums!PointsKeepTheirs

\* SpfhCache: a signature that is read is complete and two tasks do not meet, save at a
\* point counted exactly twice or whose bit was lost.
MeetOnlyWhereCountedTwice == part = "spfh" => Spfh!TypeOK /\ Spfh!MeetOnlyWhereCountedTwice

\* Keypoints: no part of the cloud that has a candidate is left without a keypoint.
RegionsKept == part = "keypoints" => Extractor!TypeOK /\ Extractor!RegionsKept

\* CoarseRegistration and FourPoints: a call returns the best motion it has tried, with
\* what was measured of that motion; and PROSAC's pool neither lags behind its schedule
\* nor hurries ahead.
ResultIsBestTried ==
  /\ part = "coarse" => Coarse!TypeOK /\ Coarse!ResultIsBestTried /\ Coarse!PoolKeepsUp
  /\ part = "four points" => Four!TypeOK /\ Four!ResultIsBestTried

\* Correspondences: what is returned is the mutual, unambiguous and near pairs.
MatchesAreMutual == part = "match" => Match!TypeOK /\ Match!MatchesAreMutual

\* Datasets: what is answered from the cache of labels is what the files say.
CacheIsTransparent == part = "kitti" => Kitti!CacheIsTransparent
===============================================================================
