----------------------------- MODULE ChunkedCalls -----------------------------
(***************************************************************************)
(* The calls of the point cloud library that cut their work into chunks,   *)
(* submit one task per chunk to the thread pool, and collect the futures:  *)
(* min/max, random points, transformation, normals, nearest neighbours,    *)
(* the voxel grid, inliers, keypoints, correspondences.  They differ in    *)
(* how they cut, from which size on, how many rounds they make, and        *)
(* whether they collect with get(), which rethrows what a task threw, or   *)
(* with wait(), which swallows it.                                         *)
(*                                                                         *)
(* The pool is a TaskPool: it runs the tasks in any order.  A task writes  *)
(* only its own chunk, so that one step may stand for it.                  *)
(***************************************************************************)
EXTENDS Integers, FiniteSets, FiniteSetsExt

CONSTANTS
  MaxLength,  \* bound on the number of elements
  Workers,    \* values of get_thread_count() and hardware_concurrency()
  Threshold,  \* stands for 1024, 1000 or 100: the size at which tasks pay
  Grain       \* stands for 256 or 1024: the smallest chunk of a granular call

\* Operators called Mutant_... are faulty variants of the definition that follows
\* them; no specification uses them.

Ceil(a, b) == (a + b - 1) \div b
Upto(a, b) == a .. b - 1

\* The chunks of n elements for w workers, as sets of indices.
Cut(n, size, count) ==
  {Upto(i * size, Min({(i + 1) * size, n})) : i \in Upto(0, count)} \ {{}}
Granular(n, w) ==
  LET size == Max({Grain, Ceil(n, 4 * w)}) IN Cut(n, size, Ceil(n, size))
Mutant_Even(n, w) == Cut(n, n \div w, w)
Even(n, w) == Cut(n, Ceil(n, w), w)
Single(n, w) == {{i} : i \in Upto(0, n)}
\* The last worker takes the rest, the others take their chunk unconditionally.
Floor(n, w) ==
  LET size == Max({1, n \div w})
  IN  {Upto(i * size, IF i = w - 1 THEN n ELSE (i + 1) * size) : i \in Upto(0, w)} \ {{}}

Chunks(division, n, w) ==
  CASE division = "granular" -> Granular(n, w)
    [] division = "even"     -> Even(n, w)
    [] division = "single"   -> Single(n, w)
    [] division = "floor"    -> Floor(n, w)

\* parallel: the smallest number of elements that goes to the pool.
Call(division, parallel, collect, rounds) ==
  [division |-> division, parallel |-> parallel, collect |-> collect, rounds |-> rounds]

CalculateMinmaxParallel      == Call("granular", Threshold, "get", 1)
GenerateRandomPointsParallel == Call("granular", 1, "get", 1)
TransformPointCloudParallel  == Call("granular", 1, "get", 1)
ExtractNormals               == Call("even", 1, "get", 1)
KNeighbors                   == Call("even", Threshold, "wait", 1)
RadiusNeighbors              == Call("even", Threshold, "wait", 1)
FilterVoxelGrid              == Call("even", Threshold + 1, "get", 2)
CountInliers                 == Call("even", Threshold + 1, "wait", 1)
BuildScaleSpace              == Call("even", Threshold + 1, "wait", 1)
ComputeAllHarrisResponses    == Call("even", Threshold + 1, "wait", 1)
ComputeAllMlsSurfaces        == Call("even", Threshold + 1, "wait", 1)
ComputeAllAgastResponses     == Call("even", Threshold + 1, "wait", 1)
ComputeAllSusanResponses     == Call("even", Threshold + 1, "wait", 1)
ComputeAllCurvatures         == Call("even", Threshold + 1, "wait", 1)
ComputeAllIssResponses       == Call("even", Threshold + 1, "wait", 1)
ComputeCurvatures            == Call("even", Threshold + 1, "wait", 1)
ComputeQualityScores         == Call("single", Threshold + 1, "get", 1)
ComputeAllCandidates         == Call("single", 1, "get", 1)
FindCorrespondences          == Call("floor", 0, "wait", 1)

KeypointCalls ==
  {BuildScaleSpace, ComputeAllHarrisResponses, ComputeAllMlsSurfaces,
   ComputeAllAgastResponses, ComputeAllSusanResponses, ComputeAllCurvatures,
   ComputeAllIssResponses, ComputeCurvatures}
AllCalls ==
  KeypointCalls \cup
  {CalculateMinmaxParallel, GenerateRandomPointsParallel, TransformPointCloudParallel,
   ExtractNormals, KNeighbors, RadiusNeighbors, FilterVoxelGrid, CountInliers,
   ComputeQualityScores, ComputeAllCandidates, FindCorrespondences}

VARIABLES
  call, length, workers, enabled,   \* what was called; m_enable_parallel
  phase,      \* "waiting", "returned" or "thrown"
  rounds,     \* rounds still to make after this one
  pending,    \* chunks submitted whose task has not ended
  failed,     \* chunks whose task threw
  futures,    \* chunks whose future is not collected, in the order of their elements
  written,    \* of each element, how many tasks have written it
  lost        \* elements that a task that threw has left unwritten
call_vars == <<call, length, workers, enabled>>
task_vars == <<phase, rounds, pending, failed, futures, written, lost>>
vars == <<call_vars, task_vars>>

Parallel(c, n) == enabled /\ n >= c.parallel

\* A round on n elements: a sequential one is a chunk that the caller does itself.
Round(c, n) == IF Parallel(c, n) THEN Chunks(c.division, n, workers) ELSE {Upto(0, n)} \ {{}}

Start(n, left) ==
  /\ length' = n
  /\ rounds' = left
  /\ phase' = "waiting"
  /\ pending' = Round(call, n) /\ futures' = pending'
  /\ failed' = {} /\ lost' = {}
  /\ written' = [i \in (UNION pending') \cup Upto(0, n) |-> 0]

Init ==
  /\ call \in AllCalls
  /\ length \in 0 .. MaxLength
  /\ workers \in Workers
  /\ enabled \in BOOLEAN
  /\ phase = "waiting"
  /\ rounds = call.rounds - 1
  /\ pending = Round(call, length) /\ futures = pending
  /\ failed = {} /\ lost = {}
  /\ written = [i \in (UNION pending) \cup Upto(0, length) |-> 0]

Wrote(part) == [i \in DOMAIN written |-> written[i] + IF i \in part THEN 1 ELSE 0]

\* A task of the pool runs: to its end, or to an element where it throws.
Run(chunk) ==
  /\ chunk \in pending
  /\ pending' = pending \ {chunk}
  /\ \/ /\ written' = Wrote(chunk)
        /\ UNCHANGED <<failed, lost>>
     \/ \E stop \in chunk :
          /\ written' = Wrote({i \in chunk : i < stop})
          /\ lost' = lost \cup {i \in chunk : i >= stop}
          /\ failed' = failed \cup {chunk}
  /\ UNCHANGED <<call_vars, phase, rounds, futures>>

\* The oldest future that is not collected, once its task has ended.
Oldest == CHOOSE chunk \in futures : \A other \in futures : Min(chunk) <= Min(other)
Collected == futures # {} /\ Oldest \notin pending

\* get() rethrows, in a sequential call the exception is simply not caught.
Rethrows(chunk) ==
  chunk \in failed /\ (call.collect = "get" \/ ~Parallel(call, length))

Collect ==
  /\ phase = "waiting" /\ Collected
  /\ IF Rethrows(Oldest)
     THEN phase' = "thrown" /\ UNCHANGED futures
     ELSE futures' = futures \ {Oldest} /\ UNCHANGED phase
  /\ UNCHANGED <<call_vars, rounds, pending, failed, written, lost>>

\* The voxel grid merges what the first round found, and makes a round over the voxels.
NextRound ==
  /\ phase = "waiting" /\ futures = {} /\ rounds > 0
  /\ \E voxels \in 1 .. length : Start(voxels, rounds - 1)
  /\ UNCHANGED <<call, workers, enabled>>

Return ==
  /\ phase = "waiting" /\ futures = {}
  /\ rounds = 0 \/ length = 0
  /\ phase' = "returned"
  /\ UNCHANGED <<call_vars, rounds, pending, failed, futures, written, lost>>

Next == Collect \/ NextRound \/ Return \/ \E chunk \in pending : Run(chunk)

Spec == Init /\ [][Next]_vars

-------------------------------------------------------------------------------
(* Properties *)

TypeOK ==
  /\ phase \in {"waiting", "returned", "thrown"}
  /\ failed \cap pending = {}
  /\ \A i \in DOMAIN written : written[i] \in Nat

\* Where the call of ICP cuts as intended: fewer points than workers less one leave
\* a chunk that begins behind the last point, and is read.
CutsWell == call.division = "floor" => length >= workers - 1 \/ ~enabled

\* When a call returns, every element has been written exactly once and nothing
\* else has, whatever the order of the tasks; only a call that waits without get()
\* may have lost what a task that threw left out.  No task still runs that holds
\* references to the locals of the call.
EveryElementOnce ==
  (phase = "returned" /\ CutsWell) =>
    /\ pending = {}
    /\ DOMAIN written = Upto(0, length)
    /\ \A i \in DOMAIN written : written[i] = IF i \in lost THEN 0 ELSE 1
    /\ call.collect = "get" => lost = {}
===============================================================================
