---------------------------- MODULE Correspondences ----------------------------
(***************************************************************************)
(* brute_force_correspondence_generator_t and                              *)
(* knn_correspondence_generator_t: compute() pairs every source descriptor *)
(* with its nearest target descriptor, drops the ambiguous pairs and, with *)
(* mutual verification, those whose target is nearer to another source.    *)
(* A descriptor is a number, and two are as far apart as they differ.      *)
(***************************************************************************)
EXTENDS Integers, Sequences, FiniteSets, Functions, SequenceFacts

CONSTANTS
  Views,       \* records [keypoints, descriptors]: keypoint indices and signatures
  NoView,      \* such a record of neither: nothing is set
  Methods,     \* "serial", "parallel", "knn"
  Ratios,      \* of set_ratio(), in percent
  Thresholds   \* of set_distance_threshold()

VARIABLES
  method,      \* the generator, and m_enable_parallel
  m_knn,       \* whether an index is set
  source, target,
  m_ratio, m_mutual_verification, m_distance_threshold,
  phase,       \* idle or search
  results,     \* thread_results: for each source descriptor its candidates, or Waiting
  correspondences,
  statistics   \* total, ratio, mutual and distance

match_vars ==
  <<method, m_knn, source, target, m_ratio, m_mutual_verification,
    m_distance_threshold, phase, results, correspondences, statistics>>

views == <<source, target>>
options == <<m_ratio, m_mutual_verification, m_distance_threshold>>

\* Operators called Mutant_... are faulty variants of the definition that follows
\* them; no specification uses them.

Waiting == <<0>>
NoStatistics == [total |-> 0, ratio |-> 0, mutual |-> 0, distance |-> 0]

Init ==
  /\ method \in Methods /\ m_knn \in BOOLEAN
  /\ source = NoView /\ target = NoView
  /\ m_ratio \in Ratios /\ m_mutual_verification \in BOOLEAN
  /\ m_distance_threshold \in Thresholds
  /\ phase = "idle" /\ results = <<>> /\ correspondences = <<>>
  /\ statistics = NoStatistics

\* A result is of the views it was computed from.
Forget == correspondences' = <<>> /\ statistics' = NoStatistics

SetSource(view) ==
  /\ phase = "idle" /\ source' = view /\ Forget
  /\ UNCHANGED <<method, m_knn, target, options, phase, results>>

SetDestination(view) ==
  /\ phase = "idle" /\ target' = view /\ Forget
  /\ UNCHANGED <<method, m_knn, source, options, phase, results>>

-------------------------------------------------------------------------------
(* compute()                                                                     *)

Fits(view) == view # NoView /\ Len(view.descriptors) = Len(view.keypoints)
ValidateInput == Fits(source) /\ Fits(target)
HasIndex == method = "knn" => m_knn

Reject ==
  /\ phase = "idle" /\ ~(ValidateInput /\ HasIndex)
  /\ Forget
  /\ UNCHANGED <<method, m_knn, views, options, phase, results>>

Compute ==
  /\ phase = "idle" /\ ValidateInput /\ HasIndex
  /\ phase' = "search" /\ results' = [i \in DOMAIN source.descriptors |-> Waiting]
  /\ Forget
  /\ UNCHANGED <<method, m_knn, views, options>>

Distance(a, b) == IF a < b THEN b - a ELSE a - b
Away(d, descriptors, i) == Distance(d, descriptors[i])
Smaller(a, b) == IF a < b THEN a ELSE b

\* The number nearest of the descriptors, nearest first; among equals the brute force
\* takes the first, and what an index takes is its own affair.
Nearest(d, descriptors, number) ==
  LET D(i) == Away(d, descriptors, i)
      Before(i, j) == D(i) < D(j) \/ (D(i) = D(j) /\ (i <= j \/ method = "knn"))
  IN {s \in [1 .. Smaller(number, Len(descriptors)) -> DOMAIN descriptors] :
        /\ IsInjective(s)
        /\ \A k \in DOMAIN s, l \in DOMAIN s : k < l => Before(s[k], s[l])
        /\ \A k \in DOMAIN s, i \in DOMAIN descriptors : i \notin Range(s) => Before(s[k], i)}

\* find_candidates_for_descriptor(): one task for each descriptor, or one loop.
FindCandidates(i) ==
  /\ phase = "search" /\ results[i] = Waiting
  /\ method # "parallel" => \A j \in 1 .. i - 1 : results[j] # Waiting
  /\ \E nearest \in Nearest(source.descriptors[i], target.descriptors, 2) :
       results' = [results EXCEPT ![i] = nearest]
  /\ UNCHANGED <<method, m_knn, views, options, phase, correspondences, statistics>>

Correspondence(i, j) ==
  [src_idx |-> source.keypoints[i], dst_idx |-> target.keypoints[j],
   distance |-> Distance(source.descriptors[i], target.descriptors[j])]

ApplyRatioTest(i) ==
  \/ Len(results[i]) < 2
  \/ LET D(k) == Away(source.descriptors[i], target.descriptors, results[i][k])
     IN 100 * D(1) < m_ratio * D(2)

\* The best candidates of the descriptors that pass the test, in the order of the source.
Passed == {i \in DOMAIN results : results[i] # <<>> /\ ApplyRatioTest(i)}
Forward ==
  LET order == Without([i \in DOMAIN results |-> i], DOMAIN results \ Passed)
  IN [k \in DOMAIN order |-> Correspondence(order[k], results[order[k]][1])]

\* The descriptor of a keypoint is the first one listed for it.
DescriptorOf(dst_idx) ==
  CHOOSE j \in DOMAIN target.keypoints :
    /\ target.keypoints[j] = dst_idx
    /\ \A k \in 1 .. j - 1 : target.keypoints[k] # dst_idx

\* The reverse search: for each target descriptor a nearest source descriptor.
ReverseMatches ==
  {f \in [DOMAIN target.descriptors -> DOMAIN source.descriptors] :
     \A j \in DOMAIN f :
       <<f[j]>> \in Nearest(target.descriptors[j], source.descriptors, 1)}

Mutant_PerformMutualVerification(forward, reverse) ==
  Without(forward, {c \in Range(forward) :
                      \A j \in DOMAIN reverse : source.keypoints[reverse[j]] # c.src_idx})
PerformMutualVerification(forward, reverse) ==
  Without(forward, {c \in Range(forward) :
                      source.keypoints[reverse[DescriptorOf(c.dst_idx)]] # c.src_idx})

ApplyDistanceThreshold(pairs) ==
  Without(pairs, {c \in Range(pairs) : c.distance > m_distance_threshold})

\* m_total_candidates: the candidates of all descriptors, of which each has two at most.
TotalCandidates ==
  Cardinality({e \in (DOMAIN results) \X (1 .. 2) : e[2] <= Len(results[e[1]])})

Finish ==
  /\ phase = "search" /\ \A i \in DOMAIN results : results[i] # Waiting
  /\ \E reverse \in IF Forward = <<>> THEN {<<>>} ELSE ReverseMatches :
       LET verified == IF m_mutual_verification
                       THEN PerformMutualVerification(Forward, reverse) ELSE Forward
       IN /\ correspondences' = ApplyDistanceThreshold(verified)
          /\ statistics' =
               [total |-> TotalCandidates, ratio |-> Len(Forward),
                mutual |-> IF m_mutual_verification THEN Len(verified) ELSE 0,
                distance |-> Len(correspondences')]
  /\ phase' = "idle"
  /\ UNCHANGED <<method, m_knn, views, options, results>>

Next ==
  \/ \E view \in Views : SetSource(view) \/ SetDestination(view)
  \/ Reject \/ Compute
  \/ \E i \in DOMAIN source.descriptors : FindCandidates(i)
  \/ Finish

Spec == Init /\ [][Next]_match_vars

-------------------------------------------------------------------------------
(* Properties *)

TypeOK ==
  /\ method \in Methods /\ m_knn \in BOOLEAN
  /\ source \in Views \cup {NoView} /\ target \in Views \cup {NoView}
  /\ phase \in {"idle", "search"} /\ results \in Seq(Seq(Nat))

Unique(view) == IsInjective(view.keypoints)
Apart(i, j) == Distance(source.descriptors[i], target.descriptors[j])

\* The reference: j is the nearest target of i by the ratio, near enough and, when that
\* is asked for, no source is nearer to j than i.
Matches(i, j) ==
  /\ \A other \in DOMAIN target.descriptors \ {j} :
       Apart(i, j) <= Apart(i, other) /\ 100 * Apart(i, j) < m_ratio * Apart(i, other)
  /\ Apart(i, j) <= m_distance_threshold
  /\ m_mutual_verification =>
       \A other \in DOMAIN source.descriptors : Apart(i, j) <= Apart(other, j)
Tied(i, j) ==
  \/ \E other \in DOMAIN source.descriptors \ {i} : Apart(i, j) = Apart(other, j)
  \/ \E other \in DOMAIN target.descriptors \ {j} : Apart(i, j) = Apart(i, other)

\* When keypoints are listed once, all three ways to compute return the pairs of the
\* reference, every one that is not tied with another, and with mutual verification no
\* keypoint twice; and the counts that get_statistics() reports only fall from test to
\* test.  With a keypoint listed twice the reverse search asks about the wrong
\* descriptor, which the property leaves out.
MatchesAreMutual ==
  (phase = "idle" /\ statistics # NoStatistics /\ Unique(source) /\ Unique(target)) =>
    /\ \A c \in Range(correspondences) :
         \E i \in DOMAIN source.descriptors, j \in DOMAIN target.descriptors :
           c = Correspondence(i, j) /\ Matches(i, j)
    /\ \A i \in DOMAIN source.descriptors, j \in DOMAIN target.descriptors :
         Matches(i, j) /\ ~Tied(i, j) => Correspondence(i, j) \in Range(correspondences)
    /\ m_mutual_verification =>
         \A k, l \in DOMAIN correspondences :
           correspondences[k].dst_idx = correspondences[l].dst_idx => k = l
    /\ statistics.total >= statistics.ratio
    /\ m_mutual_verification => /\ statistics.ratio >= statistics.mutual
                                /\ statistics.mutual >= statistics.distance

===============================================================================
