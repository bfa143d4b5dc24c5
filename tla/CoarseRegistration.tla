-------------------------- MODULE CoarseRegistration --------------------------
(***************************************************************************)
(* ransac_registration_t and prosac_registration_t: align() estimates a    *)
(* rigid motion from samples of m_sample_size correspondences, keeps the   *)
(* one that most correspondences agree with, and estimates it again from   *)
(* those.  A motion is the set of correspondences it was estimated from;   *)
(* how many agree with it is a table that the correspondences come with.   *)
(***************************************************************************)
EXTENDS Integers, Sequences, FiniteSets

CONSTANTS
  Methods,         \* "ransac", "prosac"
  Correspondences, \* records [id, size, agree, degenerate]: agree[s] are the ones that
                   \* agree with the motion of the set s, degenerate the samples whose
                   \* points lie on a line or come twice
  None,            \* such a record of size 0: no correspondences are set
  Rankings,        \* permutations given to set_sorted_correspondences(), and <<>>
  m_sample_size,
  Needed,          \* Needed[n][k]: samples after which one of k in n is likely drawn
  Initial,         \* as many for the ratio of one half that RANSAC starts from
  Added,           \* Added[n]: what precompute_sampling_schedule() adds to T_{n-1}
  Window,          \* convergence_window_size
  EarlyStop,       \* m_early_stop_ratio in percent
  Threshold,       \* m_non_randomness_threshold in percent
  Limits, Minima,  \* of set_max_iterations(), set_min_inliers()
  MaxCalls

VARIABLES
  method, correspondences,
  ranking,         \* m_sorted_indices
  limit, least, m_refine_result,
  phase,           \* idle, search or found
  iter,            \* iter, or PROSAC's t
  iterations,      \* RANSAC's adapted limit
  pool,            \* PROSAC's n
  best,            \* the best motion, or {} before there is one
  history,         \* inlier_history
  tried,           \* the motions whose inliers this call has counted
  returned, result,  \* of align(), with the correspondences that are set
  calls

coarse_vars ==
  <<method, correspondences, ranking, limit, least, m_refine_result, phase, iter,
    iterations, pool, best, history, tried, returned, result, calls>>

input == <<method, correspondences, ranking>>
options == <<limit, least, m_refine_result>>

\* Operators called Mutant_... are faulty variants of the definition that follows
\* them; no specification uses them.

NoMotion == {}          \* the identity, of no sample
Size == correspondences.size
Agree(motion) == IF motion = NoMotion THEN {} ELSE correspondences.agree[motion]
Count(motion) == Cardinality(Agree(motion))
Least(a, b) == IF a < b THEN a ELSE b

NewResult == [transformation |-> NoMotion, inliers |-> {}, score |-> <<>>,
              converged |-> FALSE, num_iterations |-> 0]

Init ==
  /\ method \in Methods /\ correspondences = None /\ ranking = <<>>
  /\ limit \in Limits /\ least \in Minima /\ m_refine_result = TRUE
  /\ phase = "idle" /\ iter = 0 /\ iterations = 0 /\ pool = 0 /\ best = NoMotion
  /\ history = <<>> /\ tried = {}
  /\ returned = FALSE /\ result = NewResult /\ calls = 0

search == <<iter, iterations, pool, best, history, tried>>

\* The last result is of the correspondences of before.
Forget == best' = NoMotion /\ tried' = {} /\ returned' = FALSE

SetCorrespondences(c) ==
  /\ phase = "idle" /\ calls < MaxCalls
  /\ correspondences' = c /\ ranking' = <<>> /\ Forget
  /\ UNCHANGED <<method, options, phase, iter, iterations, pool, history, result, calls>>

InOrder(c) == [i \in 1 .. c.size |-> i]

SetSortedCorrespondences(c, order) ==
  /\ phase = "idle" /\ calls < MaxCalls /\ method = "prosac"
  /\ correspondences' = c
  /\ ranking' = IF order = <<>> THEN InOrder(c) ELSE order
  /\ Forget
  /\ UNCHANGED <<method, options, phase, iter, iterations, pool, history, result, calls>>

-------------------------------------------------------------------------------
(* align(): validation and start.  The clouds are set and not empty.             *)

EnoughForRansac == Size >= m_sample_size
RankingFits == ranking = <<>> \/ Len(ranking) = Size
Valid == Size > 0 /\ IF method = "ransac" THEN EnoughForRansac ELSE RankingFits

ChooseOptions == limit' \in Limits /\ least' \in Minima /\ m_refine_result' \in BOOLEAN

Rejected ==
  /\ phase = "idle" /\ calls < MaxCalls /\ ~Valid
  /\ ChooseOptions
  /\ calls' = calls + 1 /\ returned' = FALSE
  /\ UNCHANGED <<input, phase, search, result>>

\* calculate_iterations() for a best motion that k correspondences agree with.
Adapted(k, max) == IF k = 0 \/ k = Size THEN max ELSE Needed[Size][k]

Start ==
  /\ phase = "idle" /\ calls < MaxCalls /\ Valid
  /\ ChooseOptions
  /\ calls' = calls + 1 /\ returned' = FALSE /\ result' = NewResult
  /\ phase' = IF Size < m_sample_size THEN "idle" ELSE "search"
  /\ iter' = 0 /\ iterations' = Least(limit', Initial) /\ pool' = m_sample_size
  /\ best' = NoMotion /\ history' = <<>> /\ tried' = {}
  /\ UNCHANGED input

Sample(s, from) == s \subseteq from /\ Cardinality(s) = m_sample_size

Mutant_Better(motion) == Count(motion) >= m_sample_size
Better(motion) == Count(motion) > Count(best)

ReachesEarlyStop(motion) == 100 * Count(motion) >= EarlyStop * Size

-------------------------------------------------------------------------------
(* RANSAC                                                                        *)

Recorded ==
  LET all == Append(history, Count(best'))
  IN IF Len(all) > Window THEN Tail(all) ELSE all

\* Both the average and the relative improvement over a full window are small.
Settled(window) ==
  LET improvement == window[Len(window)] - window[1]
  IN /\ Len(window) >= Window
     /\ 2 * improvement < Window - 1
     /\ window[1] > 0 => 100 * improvement < window[1]

RansacIteration(s) ==
  /\ phase = "search" /\ method = "ransac" /\ iter < iterations
  /\ Sample(s, 1 .. Size)
  /\ tried' = tried \cup {s}
  /\ best' = IF Better(s) THEN s ELSE best
  /\ iterations' = IF Better(s) THEN Least(limit, Adapted(Count(s), limit)) ELSE iterations
  /\ LET stop == Better(s) /\ ReachesEarlyStop(s)
         settled == ~stop /\ Settled(Recorded)
     IN /\ history' = IF stop THEN history ELSE Recorded
        /\ phase' = IF stop \/ settled THEN "found" ELSE "search"
        /\ iter' = IF stop \/ settled THEN iter ELSE iter + 1
        /\ result' = [result EXCEPT !.num_iterations = iter + 1, !.converged = settled]
  /\ UNCHANGED <<input, options, pool, returned, calls>>

-------------------------------------------------------------------------------
(* PROSAC: the pool of the best correspondences grows with the iterations.       *)

T[n \in Nat] == IF n <= m_sample_size THEN 1 ELSE T[n - 1] + Added[n]

Ranked(i) == IF ranking = <<>> THEN i ELSE ranking[i]
Top(n) == {Ranked(i) : i \in 1 .. n}

Grown == IF iter = T[pool] /\ pool < Size THEN pool + 1 ELSE pool

\* progressive_sample()
Progressive(s) ==
  /\ Sample(s, Top(pool'))
  /\ iter >= T[pool'] => Ranked(pool') \in s

Binomial(n, k) == IF k > n THEN 0 ELSE
  LET P[i \in 0 .. k] == IF i = 0 THEN 1 ELSE (P[i - 1] * (n - i + 1)) \div i IN P[k]

\* compute_beta(j, m_sample_size, n) times the number of samples of n.
Beta(j, n) == IF j > n THEN 0 ELSE j * Binomial(j - 1, m_sample_size - 1)

\* check_non_randomness(): 1 - (1 - beta(m)) ... (1 - beta(k)) is below the threshold,
\* as a fraction of whole numbers.  With k < m the product is empty, and the
\* criterion met.
NonRandom(k, n) ==
  LET samples == Binomial(n, m_sample_size)
      Whole[j \in Nat] == IF j < m_sample_size THEN 1 ELSE Whole[j - 1] * samples
      Kept[j \in Nat] ==
        IF j < m_sample_size THEN 1 ELSE Kept[j - 1] * (samples - Beta(j, n))
  IN 100 * (Whole[k] - Kept[k]) < Threshold * Whole[k]

\* check_maximality(); more inliers than the pool has give no number to compare with.
Maximal(k, n, t) == 0 < k /\ k <= n /\ (k = n \/ t >= Needed[n][k])

ProsacIteration(s) ==
  /\ phase = "search" /\ method = "prosac" /\ iter < limit
  /\ pool' = Grown /\ Progressive(s)
  /\ LET counted == s \notin correspondences.degenerate
         better == counted /\ Better(s)
         stop == \/ better /\ (ReachesEarlyStop(s) \/ NonRandom(Count(s), pool'))
                 \/ /\ counted /\ Count(best') >= least
                    /\ Maximal(Count(best'), pool', iter)
     IN /\ tried' = IF counted THEN tried \cup {s} ELSE tried
        /\ best' = IF better THEN s ELSE best
        /\ phase' = IF stop THEN "found" ELSE "search"
        /\ iter' = IF stop THEN iter ELSE iter + 1
  /\ UNCHANGED <<input, options, iterations, history, returned, result, calls>>

\* The clock is read before each iteration.
TimeLimit ==
  /\ phase = "search" /\ method = "prosac" /\ iter < limit
  /\ phase' = "found"
  /\ UNCHANGED <<input, options, search, returned, result, calls>>

-------------------------------------------------------------------------------
(* The end of align()                                                            *)

Exhausted == phase = "search" /\ iter >= (IF method = "ransac" THEN iterations ELSE limit)

Refines ==
  /\ m_refine_result
  /\ IF method = "ransac" THEN Count(best) >= m_sample_size ELSE Count(best) > m_sample_size
Refined == IF Refines THEN Agree(best) ELSE best

\* Which motion was measured on which inliers; of no inliers the largest number.
Fitness(motion, inliers) == IF inliers = {} THEN <<>> ELSE <<motion, inliers>>

Recounted(motion) == Agree(motion)

RansacConverged(inliers) == result.converged \/ Cardinality(inliers) >= least

Filled ==
  LET motion == Refined
      inliers == Recounted(motion)
  IN [result EXCEPT !.transformation = motion, !.inliers = inliers,
                    !.score = Fitness(motion, inliers),
                    !.converged = method = "prosac" \/ RansacConverged(inliers),
                    !.num_iterations = IF method = "prosac" THEN iter ELSE @]

TooFewInliers == Count(best) < least

Finish ==
  /\ phase = "found" \/ Exhausted
  /\ phase' = "idle"
  /\ returned' = ~TooFewInliers
  /\ result' = IF ~TooFewInliers THEN Filled
               ELSE [result EXCEPT !.num_iterations = IF method = "prosac" THEN iter ELSE @]
  /\ UNCHANGED <<input, options, search, calls>>

Next ==
  \/ \E c \in Correspondences :
       \/ SetCorrespondences(c)
       \/ \E order \in Rankings : SetSortedCorrespondences(c, order)
  \/ Rejected \/ Start
  \/ \E s \in SUBSET (1 .. Size) : RansacIteration(s) \/ ProsacIteration(s)
  \/ TimeLimit \/ Finish

Spec == Init /\ [][Next]_coarse_vars

-------------------------------------------------------------------------------
(* Properties *)

TypeOK ==
  /\ method \in Methods /\ correspondences \in Correspondences \cup {None}
  /\ ranking \in Seq(Nat) /\ limit \in Limits /\ least \in Minima
  /\ phase \in {"idle", "search", "found"} /\ iter \in Nat /\ iterations \in Nat
  /\ pool \in Nat /\ best \in SUBSET (1 .. Size) /\ history \in Seq(Nat)
  /\ returned \in BOOLEAN /\ calls \in 0 .. MaxCalls

\* While a search runs, no motion it has counted has more inliers than the best; and
\* what align() returns belongs together: the inliers are those of the motion and the
\* score is that of both, the motion is the best one or was estimated from its inliers.
\* Refining may lose inliers: a call that succeeds may report fewer than the minimum.
ResultIsBestTried ==
  /\ phase # "idle" => /\ \A s \in tried : Count(s) <= Count(best)
                       /\ best # NoMotion => best \in tried
  /\ phase = "idle" /\ returned =>
       /\ result.inliers = Agree(result.transformation)
       /\ result.score = Fitness(result.transformation, result.inliers)
       /\ result.transformation \in {best, Agree(best)}
       /\ \A s \in tried : Count(s) <= Count(best)

\* The pool grows only in the iteration that equals a value of the schedule: it is
\* never left behind, whatever samples are rejected, and it never hurries ahead.
PoolKeepsUp ==
  (phase = "search" /\ method = "prosac") =>
    /\ pool < Size => iter <= T[pool]
    /\ pool > m_sample_size => iter > T[pool - 1]

===============================================================================
