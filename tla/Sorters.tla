-------------------------------- MODULE Sorters --------------------------------
(***************************************************************************)
(* The correspondence sorters: one sub-sorter (by descriptor distance, by  *)
(* geometric consistency or by a function of the client) and a combined    *)
(* sorter that adds up weighted scores.  Each keeps the ranking it         *)
(* computed last, until one of its own setters is called.  A score is in   *)
(* twelfths, a weight too.                                                 *)
(***************************************************************************)
EXTENDS Integers, Sequences, FiniteSets, SequencesExt

CONSTANTS
  Kinds,        \* "distance", "geometric", "custom"
  Lists,        \* lists of correspondences: sequences of distances, a multiple of 12
  Consistency,  \* Consistency[list][threshold]: what the geometric sorter may answer,
                \* a set of scores, as it draws the neighbours at random
  Thresholds,   \* of set_distance_ratio_threshold() and the neighbourhood
  Functions,    \* records [id, full]: full ones read the clouds, simple ones do not
  NoFunction,   \* such a record: none is set
  Quality,      \* Quality[function id][list]: what the function answers
  Weights,      \* of add_sorter()
  MaxSorters

VARIABLES
  kind,                             \* of the sub-sorter
  invert, normalize,                \* of the distance sorter
  threshold,                        \* of the geometric one
  function,                         \* of the custom one
  m_correspondences, m_clouds,      \* of each sorter: a list or <<>>, and whether set
  m_cached, m_scores, m_indices,    \* of each sorter
  weights,                          \* m_sorters: the sub-sorter under each weight
  behind,                           \* the sub-sorter was set up anew since the combined
                                    \* one has asked it
  last                              \* the last answer [sorter, scores, indices], or None

sorter_vars ==
  <<kind, invert, normalize, threshold, function, m_correspondences, m_clouds, m_cached,
    m_scores, m_indices, weights, behind, last>>

Sorter == {"sub", "combined"}
settings == <<invert, normalize, threshold, function>>
inputs == <<m_correspondences, m_clouds>>
cache == <<m_scores, m_indices>>

\* Operators called Mutant_... are faulty variants of the definition that follows
\* them; no specification uses them.

None == [sorter |-> "none", scores |-> <<>>, indices |-> <<>>]

Init ==
  /\ kind \in Kinds
  /\ invert = TRUE /\ normalize = TRUE /\ function = NoFunction
  /\ threshold \in IF kind = "geometric" THEN Thresholds ELSE {CHOOSE t \in Thresholds : TRUE}
  /\ m_correspondences = [s \in Sorter |-> <<>>] /\ m_clouds = [s \in Sorter |-> FALSE]
  /\ m_cached = [s \in Sorter |-> FALSE]
  /\ m_scores = [s \in Sorter |-> <<>>] /\ m_indices = [s \in Sorter |-> <<>>]
  /\ weights = <<>> /\ behind = FALSE /\ last = None

-------------------------------------------------------------------------------
(* Setters: each forgets the cached ranking of its own sorter, which is not read *)
(* again.                                                                        *)

Mutant_Uncached(s) == s = "combined"
Uncached(s) == TRUE

Uncache(s) ==
  IF Uncached(s)
  THEN /\ m_cached' = [m_cached EXCEPT ![s] = FALSE]
       /\ m_scores' = [m_scores EXCEPT ![s] = <<>>]
       /\ m_indices' = [m_indices EXCEPT ![s] = <<>>]
  ELSE UNCHANGED <<m_cached, cache>>

SetUp(s) == Uncache(s) /\ last' = None /\ UNCHANGED kind

\* What the sub-sorter would answer changes, or only what it is asked about.
ChangesAnswers == behind' = m_cached["combined"]
ChangesInputs(s) == behind' = (behind /\ s = "sub")

SetPointClouds(s) ==
  /\ SetUp(s) /\ ChangesInputs(s) /\ m_clouds' = [m_clouds EXCEPT ![s] = TRUE]
  /\ UNCHANGED <<settings, m_correspondences, weights>>

SetCorrespondences(s, list) ==
  /\ SetUp(s) /\ ChangesInputs(s) /\ m_correspondences' = [m_correspondences EXCEPT ![s] = list]
  /\ UNCHANGED <<settings, m_clouds, weights>>

SetInvertScore == kind = "distance" /\ invert' = ~invert /\ UNCHANGED normalize
SetNormalize == kind = "distance" /\ normalize' = ~normalize /\ UNCHANGED invert

SetScore ==
  /\ SetUp("sub") /\ ChangesAnswers /\ (SetInvertScore \/ SetNormalize)
  /\ UNCHANGED <<threshold, function, inputs, weights>>

SetThreshold(t) ==
  /\ SetUp("sub") /\ ChangesAnswers /\ kind = "geometric" /\ threshold' = t
  /\ UNCHANGED <<invert, normalize, function, inputs, weights>>

SetQualityFunction(f) ==
  /\ SetUp("sub") /\ ChangesAnswers /\ kind = "custom" /\ function' = f
  /\ UNCHANGED <<invert, normalize, threshold, inputs, weights>>

AddSorter(w) ==
  /\ Len(weights) < MaxSorters /\ SetUp("combined") /\ behind' = FALSE
  /\ weights' = Append(weights, w)
  /\ UNCHANGED <<settings, inputs>>

ClearSorters ==
  /\ SetUp("combined") /\ behind' = FALSE /\ weights' = <<>>
  /\ UNCHANGED <<settings, inputs>>

Total == FoldSeq(LAMBDA a, b : a + b, 0, weights)

NormalizeWeights ==
  /\ SetUp("combined") /\ behind' = FALSE
  /\ weights' = IF Total = 0 THEN weights
                ELSE [k \in DOMAIN weights |-> (12 * weights[k]) \div Total]
  /\ UNCHANGED <<settings, inputs>>

ClearCache(s) ==
  /\ m_cached' = [m_cached EXCEPT ![s] = FALSE]
  /\ m_scores' = [m_scores EXCEPT ![s] = <<>>] /\ m_indices' = [m_indices EXCEPT ![s] = <<>>]
  /\ ChangesInputs(s) /\ last' = None
  /\ UNCHANGED <<kind, settings, inputs, weights>>

-------------------------------------------------------------------------------
(* compute_quality_scores_impl() of each kind, for a list                        *)

Least(list) == CHOOSE d \in Range(list) : \A e \in Range(list) : d <= e
Largest(list) == CHOOSE d \in Range(list) : \A e \in Range(list) : d >= e

Normalized(list) ==
  LET range == Largest(list) - Least(list)
  IN [i \in DOMAIN list |->
        (12 * (list[i] - Least(list))) \div (IF range = 0 THEN 12 ELSE range)]

DistanceScores(list) ==
  IF normalize
  THEN [i \in DOMAIN list |-> IF invert THEN 12 - Normalized(list)[i] ELSE Normalized(list)[i]]
  ELSE [i \in DOMAIN list |-> IF invert THEN -list[i] ELSE list[i]]

Zeros(list) == [i \in DOMAIN list |-> 0]

CustomScores(list) == IF function = NoFunction THEN Zeros(list) ELSE Quality[function.id][list]

SubScores(list) ==
  CASE kind = "distance" -> {DistanceScores(list)}
    [] kind = "geometric" -> Consistency[list][threshold]
    [] kind = "custom" -> {CustomScores(list)}

SubAccepts(clouds) ==
  /\ kind = "geometric" => clouds
  /\ kind = "custom" => (function.full => clouds)

\* The combined sorter asks the sub-sorter once for each weight.
Asked(list) == [DOMAIN weights -> SubScores(list)]

Weighted(by, asked, list) ==
  [i \in DOMAIN list |->
     FoldFunction(LAMBDA k, sum : sum + (by[k] * asked[k][i]) \div 12, 0,
                  [k \in DOMAIN by |-> k])]

Combined(asked, list) == Weighted(weights, asked, list)

\* std::sort by falling scores; equal ones come in any order.
Rankings(scores) ==
  {p \in [DOMAIN scores -> DOMAIN scores] :
     /\ IsInjective(p)
     /\ \A k, l \in DOMAIN p : k < l => scores[p[k]] >= scores[p[l]]}

-------------------------------------------------------------------------------
(* compute_sorted_indices()                                                      *)

Answer(s, scores, indices) == [sorter |-> s, scores |-> scores, indices |-> indices]

HasCorrespondences(s) == m_correspondences[s] # <<>>

\* The combined sorter needs none but what its sub-sorters need, and does not ask.
Accepts(s) == HasCorrespondences(s) /\ (s = "sub" => SubAccepts(m_clouds[s]))

Refused(s) ==
  /\ ~Accepts(s)
  /\ last' = Answer(s, <<>>, <<>>)
  /\ UNCHANGED <<kind, settings, inputs, m_cached, cache, weights, behind>>

FromCache(s) ==
  /\ Accepts(s) /\ m_cached[s]
  /\ last' = Answer(s, m_scores[s], m_indices[s])
  /\ UNCHANGED <<kind, settings, inputs, m_cached, cache, weights, behind>>

Kept(s, scores, indices) ==
  /\ m_cached' = [m_cached EXCEPT ![s] = TRUE]
  /\ m_scores' = [m_scores EXCEPT ![s] = scores]
  /\ m_indices' = [m_indices EXCEPT ![s] = indices]
  /\ last' = Answer(s, scores, indices)

ComputedBySub ==
  /\ Accepts("sub") /\ ~m_cached["sub"]
  /\ \E scores \in SubScores(m_correspondences["sub"]) :
       \E indices \in Rankings(scores) : Kept("sub", scores, indices)
  /\ UNCHANGED <<kind, settings, inputs, weights, behind>>

ComputedOfNone ==
  LET scores == Zeros(m_correspondences["combined"])
  IN /\ Accepts("combined") /\ ~m_cached["combined"] /\ weights = <<>>
     /\ \E indices \in Rankings(scores) : Kept("combined", scores, indices)
     /\ behind' = FALSE
     /\ UNCHANGED <<kind, settings, inputs, weights>>

\* The sub-sorter takes over the inputs of the combined one, forgets what it knew, and
\* keeps what it answers to the last question.  If it refuses them its scores are empty
\* and are read nevertheless: the process ends there, and no behaviour goes on.
ComputedFromSub ==
  LET list == m_correspondences["combined"]
  IN /\ Accepts("combined") /\ ~m_cached["combined"] /\ weights # <<>>
     /\ SubAccepts(m_clouds["combined"])
     /\ \E asked \in Asked(list) :
          LET scores == Combined(asked, list)
              its == asked[Len(weights)]
          IN \E indices \in Rankings(scores), its_indices \in Rankings(its) :
               /\ m_scores' = [s \in Sorter |-> IF s = "sub" THEN its ELSE scores]
               /\ m_indices' = [s \in Sorter |-> IF s = "sub" THEN its_indices ELSE indices]
               /\ last' = Answer("combined", scores, indices)
     /\ m_correspondences' = [m_correspondences EXCEPT !["sub"] = list]
     /\ m_clouds' = [m_clouds EXCEPT !["sub"] = m_clouds["combined"]]
     /\ m_cached' = [s \in Sorter |-> TRUE] /\ behind' = FALSE
     /\ UNCHANGED <<kind, settings, weights>>

Next ==
  \/ \E s \in Sorter :
       \/ SetPointClouds(s) \/ ClearCache(s) \/ Refused(s) \/ FromCache(s)
       \/ \E list \in Lists : SetCorrespondences(s, list)
  \/ SetScore
  \/ \E t \in Thresholds : SetThreshold(t)
  \/ \E f \in Functions : SetQualityFunction(f)
  \/ \E w \in Weights : AddSorter(w)
  \/ ClearSorters \/ NormalizeWeights
  \/ ComputedBySub \/ ComputedOfNone \/ ComputedFromSub

Spec == Init /\ [][Next]_sorter_vars

-------------------------------------------------------------------------------
(* Properties *)

TypeOK ==
  /\ kind \in Kinds /\ function \in Functions \cup {NoFunction}
  /\ m_correspondences \in [Sorter -> Lists \cup {<<>>}] /\ m_clouds \in [Sorter -> BOOLEAN]
  /\ m_cached \in [Sorter -> BOOLEAN] /\ weights \in Seq(Nat) /\ behind \in BOOLEAN

\* The scores that a sorter computes afresh from its settings as they are now.
Fresh(s) ==
  LET list == m_correspondences[s]
  IN IF s = "sub" THEN SubScores(list)
     ELSE {Combined(asked, list) : asked \in Asked(list)}

\* Every answer, from the cache or not, is what the sorter would compute now: scores of
\* its settings, weights, clouds and correspondences, and a ranking of all of these by
\* falling score.  One case is left out, a combined sorter whose sub-sorter was set up
\* anew behind its back: it is not told, and answers from its cache.
RankingIsFresh ==
  (last # None /\ Accepts(last.sorter) /\ ~(last.sorter = "combined" /\ behind)) =>
    /\ last.scores \in Fresh(last.sorter)
    /\ last.indices \in Rankings(last.scores)

===============================================================================
