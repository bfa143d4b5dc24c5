------------------------------ MODULE FourPoints ------------------------------
(***************************************************************************)
(* four_pcs_registration_t: align() takes coplanar bases of four sampled   *)
(* source points, looks for congruent ones among the target samples, and   *)
(* keeps the motion between two bases that maps most source samples onto   *)
(* the target.  A candidate is a record of what is measured of it.         *)
(* super_four_pcs_registration_t inherits align() from the base class of   *)
(* this one, which calls four_pcs_registration_t::align_impl(): its own    *)
(* align_impl() with the grid index is never reached.                      *)
(***************************************************************************)
EXTENDS Integers, FiniteSets

CONSTANTS
  Cloud,        \* records [id, size]
  NoCloud,      \* such a record of size 0
  SampleSizes,  \* of set_sample_size()
  Candidate,    \* records [id, valid, inliers, lcp_score], inliers being sample numbers
  MaxBases,     \* m_num_bases
  Overlaps,     \* m_overlap in percent
  Minima,       \* of set_min_inliers()
  MaxCalls

VARIABLES
  sample_size,
  source, target,                  \* m_source_cloud, m_target_cloud
  source_samples, target_samples,  \* [id, number]: of which cloud, and how many
  overlap, least,                  \* m_overlap, m_min_inliers
  phase,                           \* idle or search
  bases, base_idx,                 \* how many there are, and the current one
  best,
  tried,                           \* the valid candidates measured in this call
  returned, result, calls

four_vars ==
  <<sample_size, source, target, source_samples, target_samples, overlap, least, phase,
    bases, base_idx, best, tried, returned, result, calls>>

settings == <<sample_size, source, target, source_samples, target_samples>>
options == <<overlap, least>>
search == <<bases, base_idx, best, tried>>

Unlikely == 1000000   \* the largest number
NoCandidate == [id |-> "unset", valid |-> FALSE, inliers |-> {}, lcp_score |-> Unlikely]
NewResult == [transformation |-> "identity", inliers |-> {}, score |-> Unlikely,
              converged |-> FALSE, num_iterations |-> 0]
NoSamples == [id |-> NoCloud.id, number |-> 0]

Init ==
  /\ sample_size \in SampleSizes
  /\ source = NoCloud /\ target = NoCloud
  /\ source_samples = NoSamples /\ target_samples = NoSamples
  /\ overlap \in Overlaps /\ least \in Minima
  /\ phase = "idle" /\ bases = 0 /\ base_idx = 0 /\ best = NoCandidate /\ tried = {}
  /\ returned = FALSE /\ result = NewResult /\ calls = 0

-------------------------------------------------------------------------------
(* Setters: the samples are drawn when a cloud is set.                           *)

Smaller(a, b) == IF a < b THEN a ELSE b
Sampled(cloud) == [id |-> cloud.id, number |-> Smaller(sample_size, cloud.size)]

SetSource(cloud) ==
  /\ phase = "idle" /\ calls < MaxCalls
  /\ source' = cloud /\ source_samples' = Sampled(cloud)
  /\ UNCHANGED <<sample_size, target, target_samples, options, phase, search,
                 returned, result, calls>>

SetTarget(cloud) ==
  /\ phase = "idle" /\ calls < MaxCalls
  /\ target' = cloud /\ target_samples' = Sampled(cloud)
  /\ UNCHANGED <<sample_size, source, source_samples, options, phase, search,
                 returned, result, calls>>

SetSampleSize(size) ==
  /\ phase = "idle" /\ calls < MaxCalls
  /\ sample_size' = size
  /\ UNCHANGED <<source, target, source_samples, target_samples, options,
                 phase, search, returned, result, calls>>

-------------------------------------------------------------------------------
(* align()                                                                       *)

CloudsSet == source.size > 0 /\ target.size > 0
Valid == CloudsSet /\ source.size >= 4 /\ target.size >= 4 /\ overlap' > 0

ChooseOptions == overlap' \in Overlaps /\ least' \in Minima

Rejected ==
  /\ phase = "idle" /\ calls < MaxCalls
  /\ ChooseOptions /\ ~Valid
  /\ calls' = calls + 1 /\ returned' = FALSE
  /\ UNCHANGED <<settings, phase, search, result>>

\* A base of 4PCS is four different samples in a plane and apart, tried a hundred
\* times for each base wanted.
CoplanarBases(number) == number \in 0 .. IF source_samples.number < 4 THEN 0 ELSE MaxBases

SampledBoth == source_samples.number > 0 /\ target_samples.number > 0

Start ==
  /\ phase = "idle" /\ calls < MaxCalls
  /\ ChooseOptions /\ Valid
  /\ calls' = calls + 1 /\ returned' = FALSE /\ result' = NewResult
  /\ IF SampledBoth THEN CoplanarBases(bases') ELSE bases' = 0
  /\ phase' = IF bases' = 0 THEN "idle" ELSE "search"
  /\ base_idx' = 1 /\ best' = NoCandidate /\ tried' = {}
  /\ UNCHANGED settings

\* What find_congruent_sets() may return.
CongruentSets ==
  {c \in IF target_samples.number < 4 THEN {} ELSE Candidate :
     c.inliers \subseteq 1 .. source_samples.number}

\* The motion of a candidate is named as the candidate.
Transform(c) == c.id
IsValid(c) == c.valid
Inliers(c) == c.inliers

NumInliers(c) == Cardinality(Inliers(c))

Better(c) ==
  \/ NumInliers(c) > NumInliers(best)
  \/ NumInliers(c) = NumInliers(best) /\ c.lcp_score < best.lcp_score

Evaluate(c) ==
  /\ phase = "search" /\ c \in CongruentSets
  /\ IF IsValid(c) /\ Better(c)
     THEN best' = c /\ result' = [result EXCEPT !.inliers = Inliers(c), !.num_iterations = base_idx]
     ELSE best' = best /\ result' = [result EXCEPT !.num_iterations = base_idx]
  /\ tried' = IF IsValid(c) THEN tried \cup {c} ELSE tried
  /\ UNCHANGED <<settings, options, phase, bases, base_idx, returned, calls>>

GoodEnough == 1000 * NumInliers(best) >= 9 * overlap * source_samples.number

\* All candidates of the base are evaluated.
NextBase ==
  /\ phase = "search" /\ base_idx < bases /\ ~GoodEnough
  /\ base_idx' = base_idx + 1
  /\ result' = [result EXCEPT !.num_iterations = base_idx]
  /\ UNCHANGED <<settings, options, phase, bases, best, tried, returned, calls>>

\* refine_candidate() measures the motion again.  Without a candidate the motion was
\* never initialised, and so is what is measured.
Measured == IF best = NoCandidate THEN {NoCandidate} \cup CongruentSets ELSE {best}

EnoughInliers == NumInliers(best) >= least

Finish ==
  /\ phase = "search" /\ (base_idx = bases \/ GoodEnough)
  /\ phase' = "idle" /\ returned' = EnoughInliers
  /\ LET ended == [result EXCEPT !.num_iterations = base_idx, !.converged = GoodEnough]
     IN IF ~EnoughInliers THEN result' = ended
        ELSE \E m \in Measured :
               result' = [ended EXCEPT
                 !.transformation = Transform(best), !.score = m.lcp_score,
                 !.converged = GoodEnough \/ NumInliers(m) >= least]
  /\ UNCHANGED <<settings, options, search, calls>>

Next ==
  \/ \E cloud \in Cloud : SetSource(cloud) \/ SetTarget(cloud)
  \/ \E size \in SampleSizes : SetSampleSize(size)
  \/ Rejected \/ Start
  \/ \E c \in Candidate : Evaluate(c)
  \/ NextBase \/ Finish

Spec == Init /\ [][Next]_four_vars

-------------------------------------------------------------------------------
(* Properties *)

TypeOK ==
  /\ sample_size \in SampleSizes
  /\ source \in Cloud \cup {NoCloud} /\ target \in Cloud \cup {NoCloud}
  /\ phase \in {"idle", "search"} /\ bases \in 0 .. MaxBases /\ base_idx \in Nat
  /\ best \in Candidate \cup {NoCandidate} /\ tried \subseteq Candidate
  /\ returned \in BOOLEAN /\ calls \in 0 .. MaxCalls

\* No candidate that a call has measured is better than the one it keeps, neither by
\* its inliers nor, among equals, by its score; the inliers that are returned are those
\* of the motion that is returned, with its score.
\* With a minimum of 0 a call may succeed without a candidate: then the motion is the
\* uninitialised one, which the property leaves out.
ResultIsBestTried ==
  /\ \A c \in tried :
       \/ NumInliers(c) < NumInliers(best)
       \/ NumInliers(c) = NumInliers(best) /\ c.lcp_score >= best.lcp_score
  /\ phase = "idle" /\ returned /\ best # NoCandidate =>
       /\ \E c \in tried : /\ Transform(c) = result.transformation
                           /\ result.inliers = Inliers(c) /\ result.score = c.lcp_score
       /\ result.converged

===============================================================================
