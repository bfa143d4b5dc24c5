------------------------------ MODULE CloudProofs ------------------------------
(***************************************************************************)
(* What TLAPS proves of the point cloud library's calls and of the labels  *)
(* of its datasets, for any clouds, settings, frames and numbers of calls. *)
(* Each part has its inductive invariant; the theorems are at the end.     *)
(***************************************************************************)
EXTENDS CloudCalls, FiniteSetTheorems, SequenceFacts

-------------------------------------------------------------------------------
(* Fine registration                                                       *)

FineClouds == FineCloud \cup {NoFineCloud}
Iteration == [call : Nat, iteration : Nat, transformation : Nat]
Reasons ==
  {"not started", "running", "terminated by callback", "maximum iterations reached",
   "transformation converged", "error converged", "gradient converged", "line search failed",
   "no correspondences", "missing normals", "normal count mismatch"}
FineResults ==
  [transformation : Nat, final_error : Int, converged : BOOLEAN, iterations_performed : Nat,
   termination_reason : Reasons, history : Seq(Iteration)]

FineTyped ==
  /\ source \in FineClouds /\ target \in FineClouds /\ setting \in Settings
  /\ index \in [source : FineClouds, target : FineClouds, setting : Settings]
  /\ limit \in FineLimits /\ record \in BOOLEAN /\ callback \in BOOLEAN
  /\ source_updated \in BOOLEAN /\ target_updated \in BOOLEAN /\ grid_updated \in BOOLEAN
  /\ phase \in {"idle", "iterate"} /\ iter \in Nat /\ current \in Nat /\ previous_error \in Int
  /\ returned \in BOOLEAN /\ result \in FineResults /\ calls \in 0 .. MaxCalls
  /\ changed \in BOOLEAN /\ refused \in BOOLEAN

\* The structures are of the clouds that are set, unless a flag says that they are not,
\* and of the setting, which for the voxels has a flag of its own.
BuiltOrFlagged ==
  /\ algorithm \in {"generalized", "ndt"} => index.setting = setting \/ changed
  /\ algorithm = "ndt" => index.setting = setting \/ grid_updated
  /\ target_updated \/ index.target = target
  /\ algorithm = "generalized" => source_updated \/ target_updated \/ index.source = source
  /\ phase = "iterate" => ~source_updated /\ ~target_updated

\* What this call has recorded of n iterations.
RecordedOf(n) ==
  [k \in 1 .. n |-> [call |-> calls, iteration |-> k - 1, transformation |-> k - 1]]

Unfinished == {"running", "terminated by callback"}

Iterating ==
  phase = "iterate" =>
    /\ iter < limit /\ current = iter
    /\ result.termination_reason \in Unfinished
    /\ record => result.history = RecordedOf(iter)

FineInv == FineTyped /\ BuiltOrFlagged /\ Iterating /\ Registration!ResultIsOfThisCall

LEMMA FineNew == Registration!NewResult \in FineResults
<1>1. <<>> \in Seq(Iteration)
  OBVIOUS
<1> QED BY <1>1 DEF FineResults, Registration!NewResult, Registration!Unmeasured, Reasons

\* The parts of the invariant that a step which leaves a call's state alone keeps.
FineCall == <<limit, record, phase, iter, current, refused, result, returned, calls>>

LEMMA FineCallStays ==
  ASSUME FineInv, UNCHANGED FineCall
  PROVE  Iterating' /\ Registration!ResultIsOfThisCall'
<1>1. /\ limit' = limit /\ record' = record /\ phase' = phase /\ iter' = iter /\ current' = current
      /\ result' = result /\ returned' = returned /\ calls' = calls /\ refused' = refused
  BY DEF FineCall
<1>2. Iterating'
  <2>1. RecordedOf(iter)' = RecordedOf(iter)
    BY <1>1 DEF RecordedOf
  <2> QED BY <1>1, <2>1 DEF FineInv, Iterating
<1>3. Registration!ResultIsOfThisCall'
  BY <1>1 DEF FineInv, Registration!ResultIsOfThisCall
<1> QED BY <1>2, <1>3

LEMMA FineStarts ==
  ASSUME IterationsAreNumbers, Registration!Init
  PROVE  FineInv
<1>2. /\ source = NoFineCloud /\ target = NoFineCloud /\ setting \in Settings
      /\ index = [source |-> NoFineCloud, target |-> NoFineCloud, setting |-> setting]
      /\ phase = "idle" /\ returned = FALSE /\ result = Registration!NewResult
  BY DEF Registration!Init
<1>3. result \in FineResults
  BY <1>2, FineNew
<1>4. FineTyped
  <2>1. /\ limit \in FineLimits /\ record = FALSE /\ callback = FALSE /\ iter = 0 /\ current = 0
        /\ previous_error = -1 /\ source_updated = FALSE /\ target_updated = FALSE
        /\ grid_updated = TRUE /\ calls = 0 /\ changed = FALSE /\ refused = FALSE
    BY DEF Registration!Init, Registration!Unmeasured
  <2>2. calls \in 0 .. MaxCalls /\ previous_error \in Int
    BY <2>1 DEF IterationsAreNumbers
  <2>3. index \in [source : FineClouds, target : FineClouds, setting : Settings]
    BY <1>2 DEF FineClouds
  <2> QED BY <1>2, <1>3, <2>1, <2>2, <2>3 DEF FineTyped, FineClouds
<1> QED BY <1>2, <1>4 DEF FineInv, BuiltOrFlagged, Iterating, Registration!ResultIsOfThisCall

LEMMA FineSets ==
  ASSUME IterationsAreNumbers, FineInv,
         \/ \E c \in FineCloud : Registration!SetSource(c) \/ Registration!SetTarget(c)
         \/ \E s \in Settings : Registration!SetSetting(s)
  PROVE  FineInv'
<1>1. FineTyped'
  BY DEF FineInv, FineTyped, FineClouds, Registration!SetSource, Registration!SetTarget,
     Registration!SetSetting, Registration!options, Registration!built
<1>2. BuiltOrFlagged'
  BY DEF FineInv, FineTyped, BuiltOrFlagged, Registration!SetSource, Registration!SetTarget,
     Registration!SetSetting, Registration!built
<1>3. Iterating' /\ Registration!ResultIsOfThisCall'
  <2>1. UNCHANGED FineCall
    BY DEF FineCall, Registration!SetSource, Registration!SetTarget, Registration!SetSetting,
       Registration!options
  <2> QED BY <2>1, FineCallStays
<1> QED BY <1>1, <1>2, <1>3 DEF FineInv

LEMMA FineRejects ==
  ASSUME IterationsAreNumbers, FineInv, Registration!Rejected
  PROVE  FineInv'
<1>1. FineTyped'
  <2>1. /\ limit' \in FineLimits /\ record' \in BOOLEAN /\ callback' \in BOOLEAN
        /\ calls < MaxCalls /\ calls' = calls + 1 /\ returned' = FALSE
        /\ UNCHANGED <<algorithm, source, target, setting, source_updated, target_updated,
                       grid_updated, index, changed, phase, iter, current, previous_error,
                       refused, result>>
    BY DEF Registration!Rejected, Registration!ChooseOptions, Registration!clouds,
       Registration!built
  <2>2. calls' \in 0 .. MaxCalls
    BY <2>1 DEF FineInv, FineTyped, IterationsAreNumbers
  <2> QED BY <2>1, <2>2 DEF FineInv, FineTyped
<1>2. BuiltOrFlagged'
  BY DEF FineInv, BuiltOrFlagged, Registration!Rejected, Registration!clouds, Registration!built
<1>3. Iterating' /\ Registration!ResultIsOfThisCall'
  BY DEF FineInv, Iterating, Registration!ResultIsOfThisCall, Registration!Rejected
<1> QED BY <1>1, <1>2, <1>3 DEF FineInv

LEMMA FineBegins ==
  ASSUME IterationsAreNumbers, FineInv, Registration!Start
  PROVE  FineInv'
<1>0. FineTyped /\ BuiltOrFlagged
  BY DEF FineInv
<1>1. /\ limit' \in FineLimits /\ limit' > 0 /\ record' \in BOOLEAN /\ callback' \in BOOLEAN
      /\ calls' = calls + 1 /\ calls < MaxCalls /\ phase' = "iterate" /\ iter' = 0 /\ current' = 0
      /\ source' = source /\ target' = target /\ setting' = setting /\ algorithm' = algorithm
      /\ source_updated' = FALSE /\ target_updated' = FALSE
      /\ returned' = returned /\ previous_error' \in Int
      /\ grid_updated' \in BOOLEAN /\ changed' \in BOOLEAN /\ refused' = FALSE
  BY <1>0 DEF Registration!Start, Registration!ChooseOptions, Registration!Valid,
     Registration!clouds, Registration!Outdated, FineTyped, Registration!Unmeasured
<1>2. PICK old \in {result, Registration!NewResult} : result' = Registration!Initialised(old)
  BY DEF Registration!Start
<1>3. old \in FineResults
  BY <1>0, FineNew DEF FineTyped
<1>4. /\ result' \in FineResults /\ result'.termination_reason = "running"
      /\ record' => result'.history = <<>>
  <2>1. result' = [transformation |-> 0, final_error |-> -1, converged |-> FALSE,
                   iterations_performed |-> 0, termination_reason |-> "running",
                   history |-> IF record' THEN <<>> ELSE old.history]
    BY <1>2 DEF Registration!Initialised, Registration!NewResult, Registration!Unmeasured
  <2>2. "running" \in Reasons
    BY DEF Reasons
  <2>3. <<>> \in Seq(Iteration) /\ old.history \in Seq(Iteration)
    BY <1>3 DEF FineResults
  <2> QED BY <2>1, <2>2, <2>3 DEF FineResults
<1>5. index' = IF Registration!Outdated THEN Registration!Preprocessed ELSE index
  BY DEF Registration!Start
<1>6. index' \in [source : FineClouds, target : FineClouds, setting : Settings]
  BY <1>0, <1>5 DEF FineTyped, Registration!Preprocessed, Registration!KdTree,
     Registration!Covariances, Registration!VoxelGrid
<1>7. index'.target = target /\ (algorithm = "generalized" => index'.source = source)
  BY <1>0, <1>5 DEF FineTyped, BuiltOrFlagged, Registration!Preprocessed, Registration!KdTree,
     Registration!Covariances, Registration!VoxelGrid, Registration!Outdated
<1>8. FineTyped'
  <2>1. calls' \in 0 .. MaxCalls
    BY <1>0, <1>1 DEF FineTyped, IterationsAreNumbers
  <2> QED BY <1>0, <1>1, <1>4, <1>6, <2>1 DEF FineTyped
<1>9. BuiltOrFlagged'
  <2>1. /\ changed' = (changed /\ ~Registration!Outdated)
        /\ grid_updated' = (grid_updated /\ ~(Registration!Outdated /\ algorithm = "ndt"))
    BY DEF Registration!Start
  <2>2. CASE Registration!Outdated
    <3>1. algorithm \in {"generalized", "ndt"} => index'.setting = setting
      BY <1>0, <1>5, <2>2 DEF FineTyped, BuiltOrFlagged, Registration!Preprocessed,
         Registration!Covariances, Registration!VoxelGrid
    <3> QED BY <1>1, <1>7, <3>1 DEF BuiltOrFlagged
  <2>3. CASE ~Registration!Outdated
    BY <1>0, <1>1, <1>5, <1>7, <2>1, <2>3 DEF BuiltOrFlagged
  <2> QED BY <2>2, <2>3
<1>10. Iterating'
  <2>1. RecordedOf(0)' = <<>>
    BY DEF RecordedOf
  <2>2. limit' \in Nat
    BY <1>1 DEF IterationsAreNumbers
  <2> QED BY <1>1, <1>4, <2>1, <2>2 DEF Iterating, Unfinished
<1>11. Registration!ResultIsOfThisCall'
  BY <1>1 DEF Registration!ResultIsOfThisCall
<1> QED BY <1>8, <1>9, <1>10, <1>11 DEF FineInv

LEMMA FineFails ==
  ASSUME IterationsAreNumbers, FineInv, NEW reason \in Reasons, phase = "iterate",
         Registration!Fails(reason)
  PROVE  FineInv'
<1>1. result' \in FineResults
  <2>1. result \in FineResults /\ result' = [result EXCEPT !.termination_reason = reason]
    BY DEF FineInv, FineTyped, Registration!Fails
  <2> QED BY <2>1 DEF FineResults
<1>2. FineTyped'
  BY <1>1 DEF FineInv, FineTyped, Registration!Fails, Registration!clouds, Registration!built,
     Registration!options
<1>3. BuiltOrFlagged' /\ Iterating' /\ Registration!ResultIsOfThisCall'
  BY DEF FineInv, BuiltOrFlagged, Iterating, Registration!ResultIsOfThisCall, Registration!Fails,
     Registration!clouds, Registration!built
<1> QED BY <1>2, <1>3 DEF FineInv

\* What an iteration records.
LEMMA FineRecords ==
  ASSUME IterationsAreNumbers, FineInv, phase = "iterate", NEW refuses \in BOOLEAN
  PROVE  LET r == Registration!Recorded(refuses)
         IN  /\ r \in FineResults
             /\ r.termination_reason \in Unfinished
             /\ record => r.history = RecordedOf(iter + 1)
<1> DEFINE r == Registration!Recorded(refuses)
           state == [call |-> calls, iteration |-> iter, transformation |-> current]
<1>1. /\ result \in FineResults /\ result.history \in Seq(Iteration) /\ calls \in Nat
      /\ iter \in Nat /\ current = iter /\ state \in Iteration /\ record \in BOOLEAN
  BY DEF FineInv, FineTyped, FineResults, Iterating, Iteration, IterationsAreNumbers
<1>2. Append(result.history, state) \in Seq(Iteration)
  BY <1>1
<1>3. r = [result EXCEPT
             !.history = IF record THEN Append(result.history, state) ELSE result.history,
             !.termination_reason = IF refuses THEN "terminated by callback"
                                    ELSE result.termination_reason]
  BY DEF Registration!Recorded
<1> HIDE DEF r
<1>4. r \in FineResults
  <2>1. r = [transformation |-> result.transformation, final_error |-> result.final_error,
             converged |-> result.converged,
             iterations_performed |-> result.iterations_performed,
             termination_reason |-> IF refuses THEN "terminated by callback"
                                    ELSE result.termination_reason,
             history |-> IF record THEN Append(result.history, state) ELSE result.history]
    BY <1>1, <1>3 DEF FineResults
  <2>2. "terminated by callback" \in Reasons
    BY DEF Reasons
  <2> QED BY <1>1, <1>2, <2>1, <2>2 DEF FineResults
<1>5. r.termination_reason \in Unfinished
  BY <1>1, <1>3 DEF FineInv, Iterating, Unfinished, FineResults
<1>6. ASSUME record PROVE r.history = RecordedOf(iter + 1)
  <2>1. r.history = Append(RecordedOf(iter), state)
    BY <1>1, <1>3, <1>6 DEF FineInv, Iterating, FineResults
  <2>2. RecordedOf(iter) \in Seq(Iteration) /\ Len(RecordedOf(iter)) = iter
    BY <1>1 DEF RecordedOf, Iteration
  <2>3. Append(RecordedOf(iter), state) = RecordedOf(iter + 1)
    BY <1>1, <2>2 DEF RecordedOf
  <2> QED BY <2>1, <2>3
<1> QED BY <1>4, <1>5, <1>6 DEF r

LEMMA FineFinishes ==
  ASSUME IterationsAreNumbers, FineInv, phase = "iterate", NEW r \in FineResults,
         record => r.history = RecordedOf(iter + 1),
         r.termination_reason \in Unfinished,
         NEW converged \in BOOLEAN, NEW reason \in Reasons,
         Registration!Finish(r, converged, reason),
         UNCHANGED <<Registration!clouds, source_updated, target_updated, Registration!built,
                     Registration!options, calls>>, refused' \in BOOLEAN,
         IF converged THEN iter' = iter /\ current' = current ELSE iter' = iter + 1 /\ current' = iter + 1,
         previous_error' \in Int,
         ~converged => iter + 1 = limit,
         converged <=> reason \notin Unfinished
  PROVE  FineInv'
<1>0. /\ iter \in Nat /\ current = iter /\ limit \in Nat /\ calls \in Nat /\ record \in BOOLEAN
      /\ r.history \in Seq(Iteration)
  BY DEF FineInv, FineTyped, Iterating, IterationsAreNumbers, FineResults
<1>1. /\ UNCHANGED <<algorithm, source, target, setting, source_updated, target_updated, grid_updated,
                     index, changed, limit, record, callback, calls>>
      /\ phase' = "idle" /\ returned' = TRUE
  BY DEF Registration!Finish, Registration!clouds, Registration!built, Registration!options
<1>2. result' = [r EXCEPT !.transformation = current', !.final_error = previous_error',
                          !.converged = converged, !.iterations_performed = Len(r.history),
                          !.termination_reason = reason]
  BY DEF Registration!Finish
<1>3. current' \in Nat /\ iter' \in Nat /\ current' = iter' /\ Len(r.history) \in Nat
  BY <1>0
<1>4. /\ result' \in FineResults /\ result'.transformation = iter' /\ result'.converged = converged
      /\ result'.iterations_performed = Len(r.history) /\ result'.termination_reason = reason
      /\ result'.history = r.history
  <2>1. result' = [transformation |-> current', final_error |-> previous_error',
                   converged |-> converged, iterations_performed |-> Len(r.history),
                   termination_reason |-> reason, history |-> r.history]
    BY <1>2 DEF FineResults
  <2> QED BY <1>0, <1>3, <2>1 DEF FineResults
<1>5. FineTyped'
  BY <1>1, <1>3, <1>4 DEF FineInv, FineTyped
<1>6. BuiltOrFlagged' /\ Iterating'
  BY <1>1 DEF FineInv, BuiltOrFlagged, Iterating
<1>7. Registration!ResultIsOfThisCall'
  <2> DEFINE last == IF result.converged THEN iter + 1 ELSE limit
             states == [k \in 1 .. Len(result.history) |->
                          [call |-> calls, iteration |-> k - 1, transformation |-> k - 1]]
  <2>1. last' = iter + 1
    BY <1>0, <1>1, <1>4
  <2>2. ASSUME record'
        PROVE  result'.history = states' /\ Len(r.history) = last' /\ Len(result'.history) = last'
    <3>1. r.history = RecordedOf(iter + 1)
      BY <1>1, <2>2
    <3>2. Len(RecordedOf(iter + 1)) = iter + 1
      BY <1>0 DEF RecordedOf
    <3>3. Len(result'.history) = iter + 1
      BY <1>4, <3>1, <3>2
    <3>4. states' = RecordedOf(iter + 1)
      BY <1>1, <3>3 DEF RecordedOf
    <3> QED BY <1>4, <2>1, <3>1, <3>2, <3>3, <3>4
  <2>3. result'.converged <=> result'.termination_reason \notin Unfinished
    BY <1>4
  <2> QED BY <1>4, <2>2, <2>3 DEF Registration!ResultIsOfThisCall, Unfinished
<1> QED BY <1>5, <1>6, <1>7 DEF FineInv

\* An iteration that the limit allows another one after.
LEMMA FineContinues ==
  ASSUME IterationsAreNumbers, FineInv, phase = "iterate", NEW r \in FineResults,
         record => r.history = RecordedOf(iter + 1), r.termination_reason \in Unfinished,
         iter + 1 < limit, result' = r, iter' = iter + 1, current' = current + 1,
         previous_error' = current,
         UNCHANGED <<algorithm, source, target, setting, source_updated, target_updated,
                     grid_updated, index, changed, limit, record, callback, calls, returned,
                     phase>>, refused' \in BOOLEAN
  PROVE  FineInv'
<1>0. iter \in Nat /\ current = iter
  BY DEF FineInv, FineTyped, Iterating
<1>1. FineTyped'
  BY <1>0 DEF FineInv, FineTyped
<1>2. BuiltOrFlagged'
  BY DEF FineInv, BuiltOrFlagged
<1>3. Iterating'
  <2>1. RecordedOf(iter)' = RecordedOf(iter + 1)
    BY DEF RecordedOf
  <2> QED BY <1>0, <2>1 DEF Iterating
<1>4. Registration!ResultIsOfThisCall'
  BY DEF Registration!ResultIsOfThisCall
<1> QED BY <1>1, <1>2, <1>3, <1>4 DEF FineInv

LEMMA FineIterates ==
  ASSUME IterationsAreNumbers, FineInv, phase = "iterate",
         NEW reasons \in SUBSET (Reasons \ Unfinished), Registration!Iterates(reasons)
  PROVE  FineInv'
<1>0. /\ iter \in Nat /\ current = iter /\ iter < limit /\ limit \in Nat /\ previous_error \in Int
  BY DEF FineInv, FineTyped, Iterating, IterationsAreNumbers
<1>1. PICK refuses \in BOOLEAN : \/ Registration!Converges(Registration!Recorded(refuses), reasons)
                                \/ Registration!Moves(Registration!Recorded(refuses))
  BY DEF Registration!Iterates
<1> DEFINE r == Registration!Recorded(refuses)
<1>2. /\ r \in FineResults /\ r.termination_reason \in Unfinished
      /\ record => r.history = RecordedOf(iter + 1)
  BY FineRecords
<1>3. UNCHANGED <<Registration!clouds, source_updated, target_updated, Registration!built,
                  Registration!options, calls>>
  BY DEF Registration!Iterates
<1>4. refused' \in BOOLEAN
  BY DEF Registration!Iterates, FineInv, FineTyped
<1> HIDE DEF r
<1>5. CASE Registration!Converges(r, reasons)
  <2>1. PICK reason \in reasons : Registration!Finish(r, TRUE, reason)
    BY <1>5 DEF Registration!Converges
  <2>2. iter' = iter /\ current' = current /\ previous_error' = previous_error
    BY <1>5 DEF Registration!Converges
  <2>3. reason \in Reasons /\ reason \notin Unfinished
    OBVIOUS
  <2> QED BY <1>0, <1>2, <1>3, <1>4, <2>1, <2>2, <2>3, FineFinishes
<1>6. CASE Registration!Moves(r)
  <2>1. iter' = iter + 1 /\ current' = current + 1 /\ previous_error' = current
    BY <1>6 DEF Registration!Moves
  <2>2. CASE iter + 1 < limit
    <3>1. result' = r /\ returned' = returned /\ phase' = phase
      BY <1>6, <2>2 DEF Registration!Moves
    <3> QED BY <1>2, <1>3, <1>4, <2>1, <2>2, <3>1, FineContinues
        DEF Registration!clouds, Registration!built, Registration!options
  <2>3. CASE ~(iter + 1 < limit)
    <3>1. r.termination_reason # "" /\ r.termination_reason \in Reasons
      BY <1>2 DEF Unfinished, FineResults
    <3>2. Registration!Finish(r, FALSE, r.termination_reason)
      BY <1>6, <2>3, <3>1 DEF Registration!Moves
    <3>3. iter + 1 = limit /\ previous_error' \in Int /\ current' = iter + 1
      BY <1>0, <2>1, <2>3
    <3> QED BY <1>2, <1>3, <1>4, <2>1, <3>1, <3>2, <3>3, FineFinishes
  <2> QED BY <2>2, <2>3
<1> QED BY <1>1, <1>5, <1>6 DEF r

LEMMA FineKeeps ==
  ASSUME IterationsAreNumbers, FineInv, [Registration!Next]_(Registration!registration_vars)
  PROVE  FineInv'
<1>1. ASSUME UNCHANGED Registration!registration_vars PROVE FineInv'
  <2>1. /\ UNCHANGED <<algorithm, source, target, source_updated, target_updated, setting,
                       grid_updated, index, changed>>
        /\ UNCHANGED <<limit, record, callback, phase, iter, current, previous_error, refused,
                       returned, result, calls>>
    BY <1>1 DEF Registration!registration_vars
  <2>2. FineTyped' /\ BuiltOrFlagged'
    BY <2>1 DEF FineInv, FineTyped, BuiltOrFlagged
  <2>3. UNCHANGED FineCall
    BY <2>1 DEF FineCall
  <2> QED BY <2>2, <2>3, FineCallStays DEF FineInv
<1>2. ASSUME Registration!PointToPoint \/ Registration!PointToPlane \/ Registration!Generalized
             \/ Registration!Ndt \/ Registration!Accelerated
      PROVE  FineInv'
  <2> DEFINE ndt == Registration!Criteria \cup {"gradient converged", "line search failed"}
  <2>1. phase = "iterate"
    BY <1>2 DEF Registration!PointToPoint, Registration!PointToPlane, Registration!Generalized,
       Registration!Ndt, Registration!Accelerated
  <2>2. Registration!Criteria \in SUBSET (Reasons \ Unfinished)
    BY DEF Registration!Criteria, Reasons, Unfinished
  <2>3. ndt \in SUBSET (Reasons \ Unfinished)
    BY <2>2 DEF Reasons, Unfinished
  <2>4. \/ \E reason \in Reasons : Registration!Fails(reason)
        \/ Registration!Iterates(Registration!Criteria)
        \/ Registration!Iterates(ndt)
    <3>1. {"no correspondences", "missing normals", "normal count mismatch"} \subseteq Reasons
      BY DEF Reasons
    <3> QED BY <1>2, <3>1 DEF Registration!PointToPoint, Registration!PointToPlane,
       Registration!Generalized, Registration!Ndt, Registration!Accelerated,
       Registration!NoCorrespondences
  <2> HIDE DEF ndt
  <2> QED BY <2>1, <2>2, <2>3, <2>4, FineFails, FineIterates
<1> QED BY <1>1, <1>2, FineSets, FineRejects, FineBegins
        DEF Registration!Next, Registration!AllDone

LEMMA FineIsCurrent ==
  ASSUME FineInv
  PROVE  IndexIsCurrent
<1>1. Registration!IndexIsCurrent
  BY DEF FineInv, BuiltOrFlagged, Registration!IndexIsCurrent
<1>2. Registration!TypeOK
  BY DEF FineInv, FineTyped, FineClouds, Registration!TypeOK
<1> QED BY <1>1, <1>2 DEF FineInv, IndexIsCurrent

-------------------------------------------------------------------------------
(* Four points                                                             *)

FourCandidates == Candidate \cup {Four!NoCandidate}

FourTyped ==
  /\ sample_size \in SampleSizes
  /\ source \in SampledCloud \cup {NoSampledCloud}
  /\ target \in SampledCloud \cup {NoSampledCloud}
  /\ phase \in {"idle", "search"} /\ bases \in 0 .. MaxBases /\ base_idx \in Nat
  /\ best \in FourCandidates /\ tried \subseteq Candidate
  /\ returned \in BOOLEAN /\ calls \in 0 .. MaxCalls

\* What a result consists of.
FourShaped ==
  result = [transformation |-> result.transformation, inliers |-> result.inliers,
            score |-> result.score, converged |-> result.converged,
            num_iterations |-> result.num_iterations]

\* c is no better than b.
NoBetter(c, b) ==
  \/ Four!NumInliers(c) < Four!NumInliers(b)
  \/ Four!NumInliers(c) = Four!NumInliers(b) /\ c.lcp_score >= b.lcp_score

BestIsTried == best = Four!NoCandidate \/ best \in tried
BestIsBest == \A c \in tried : NoBetter(c, best)
KeptOfBest ==
  /\ phase = "search" => result.inliers = best.inliers
  /\ phase = "idle" /\ returned /\ best # Four!NoCandidate =>
       /\ result.transformation = best.id /\ result.inliers = best.inliers
       /\ result.score = best.lcp_score /\ result.converged

FourInv == FourTyped /\ FourShaped /\ BestIsTried /\ BestIsBest /\ KeptOfBest

LEMMA FourCardinality == \A S : Four!Cardinality(S) = Cardinality(S)
BY Zenon DEF Four!Cardinality, Cardinality

LEMMA FourMeasures ==
  ASSUME CandidatesAreMeasured, NEW c \in FourCandidates
  PROVE  Four!NumInliers(c) \in Nat /\ c.lcp_score \in Int
<1>1. CASE c = Four!NoCandidate
  BY <1>1, FS_EmptySet, FourCardinality DEF Four!NumInliers, Four!Inliers, Four!NoCandidate, Four!Unlikely
<1>2. CASE c \in Candidate
  <2>1. IsFiniteSet(c.inliers) /\ c.lcp_score \in Int
    BY <1>2 DEF CandidatesAreMeasured
  <2> QED BY <2>1, FS_CardinalityType, FourCardinality DEF Four!NumInliers, Four!Inliers
<1> QED BY <1>1, <1>2 DEF FourCandidates

LEMMA FourStarts ==
  ASSUME CandidatesAreMeasured, Four!Init
  PROVE  FourInv
<1>1. FourTyped
  <2>1. calls = 0 /\ bases = 0
    BY DEF Four!Init
  <2>2. calls \in 0 .. MaxCalls /\ bases \in 0 .. MaxBases
    BY <2>1 DEF CandidatesAreMeasured
  <2> QED BY <2>2 DEF Four!Init, FourTyped, FourCandidates
<1>2. FourShaped
  BY DEF Four!Init, Four!NewResult, FourShaped
<1>3. BestIsTried /\ BestIsBest /\ KeptOfBest
  BY DEF Four!Init, BestIsTried, BestIsBest, KeptOfBest
<1> QED BY <1>1, <1>2, <1>3 DEF FourInv

\* What the setters leave alone.
FourCall == <<phase, bases, base_idx, best, tried, returned, result, calls>>

LEMMA FourCallStays ==
  ASSUME FourInv, UNCHANGED FourCall, sample_size' \in SampleSizes,
         source' \in SampledCloud \cup {NoSampledCloud},
         target' \in SampledCloud \cup {NoSampledCloud}
  PROVE  FourInv'
<1>1. /\ phase' = phase /\ bases' = bases /\ base_idx' = base_idx /\ best' = best /\ tried' = tried
      /\ returned' = returned /\ result' = result /\ calls' = calls
  BY DEF FourCall
<1>2. FourTyped'
  BY <1>1 DEF FourInv, FourTyped
<1>3. FourShaped' /\ BestIsTried' /\ BestIsBest' /\ KeptOfBest'
  BY <1>1 DEF FourInv, FourShaped, BestIsTried, BestIsBest, KeptOfBest
<1> QED BY <1>2, <1>3 DEF FourInv

LEMMA FourSets ==
  ASSUME FourInv,
         \/ \E c \in SampledCloud : Four!SetSource(c) \/ Four!SetTarget(c)
         \/ \E size \in SampleSizes : Four!SetSampleSize(size)
         \/ UNCHANGED Four!four_vars
  PROVE  FourInv'
<1>1. UNCHANGED FourCall
  BY DEF FourCall, Four!SetSource, Four!SetTarget, Four!SetSampleSize, Four!four_vars,
     Four!search
<1>2. /\ sample_size' \in SampleSizes
      /\ source' \in SampledCloud \cup {NoSampledCloud}
      /\ target' \in SampledCloud \cup {NoSampledCloud}
  BY DEF FourInv, FourTyped, Four!SetSource, Four!SetTarget, Four!SetSampleSize, Four!four_vars
<1> QED BY <1>1, <1>2, FourCallStays

LEMMA FourRejects ==
  ASSUME CandidatesAreMeasured, FourInv, Four!Rejected
  PROVE  FourInv'
<1>1. /\ phase = "idle" /\ calls' = calls + 1 /\ calls < MaxCalls /\ returned' = FALSE
      /\ UNCHANGED <<sample_size, source, target, phase, bases, base_idx, best, tried, result>>
  BY DEF Four!Rejected, Four!settings, Four!search
<1>2. calls' \in 0 .. MaxCalls
  BY <1>1 DEF FourInv, FourTyped, CandidatesAreMeasured
<1>3. FourTyped'
  BY <1>1, <1>2 DEF FourInv, FourTyped
<1>4. FourShaped' /\ BestIsTried' /\ BestIsBest' /\ KeptOfBest'
  BY <1>1 DEF FourInv, FourShaped, BestIsTried, BestIsBest, KeptOfBest
<1> QED BY <1>3, <1>4 DEF FourInv

LEMMA FourBegins ==
  ASSUME CandidatesAreMeasured, FourInv, Four!Start
  PROVE  FourInv'
<1>1. /\ phase = "idle" /\ calls' = calls + 1 /\ calls < MaxCalls /\ returned' = FALSE
      /\ UNCHANGED <<sample_size, source, target>>
      /\ base_idx' = 1 /\ best' = Four!NoCandidate /\ tried' = {} /\ result' = Four!NewResult
      /\ phase' \in {"idle", "search"}
  BY DEF Four!Start, Four!settings
<1>2. calls' \in 0 .. MaxCalls
  BY <1>1 DEF FourInv, FourTyped, CandidatesAreMeasured
<1>3. bases' \in 0 .. MaxBases
  BY DEF Four!Start, Four!CoplanarBases, CandidatesAreMeasured
<1>4. FourTyped'
  BY <1>1, <1>2, <1>3 DEF FourInv, FourTyped, FourCandidates
<1>5. FourShaped' /\ BestIsTried' /\ BestIsBest' /\ KeptOfBest'
  BY <1>1 DEF FourShaped, BestIsTried, BestIsBest, KeptOfBest, Four!NewResult, Four!NoCandidate
<1> QED BY <1>4, <1>5 DEF FourInv

LEMMA FourEvaluates ==
  ASSUME CandidatesAreMeasured, FourInv, NEW c \in Candidate, Four!Evaluate(c)
  PROVE  FourInv'
<1>0. FourTyped /\ FourShaped /\ BestIsTried /\ BestIsBest /\ KeptOfBest
  BY DEF FourInv
<1>1. /\ phase = "search" /\ phase' = "search"
      /\ UNCHANGED <<sample_size, source, target, bases, base_idx, returned, calls>>
      /\ tried' = IF c.valid THEN tried \cup {c} ELSE tried
  BY DEF Four!Evaluate, Four!settings, Four!IsValid
<1>2. c \in FourCandidates /\ best \in FourCandidates /\ tried \subseteq FourCandidates
  BY <1>0 DEF FourTyped, FourCandidates
<1>3. CASE c.valid /\ Four!Better(c)
  <2>1. /\ best' = c /\ tried' = tried \cup {c}
        /\ result' = [result EXCEPT !.inliers = c.inliers, !.num_iterations = base_idx]
    BY <1>1, <1>3 DEF Four!Evaluate, Four!IsValid, Four!Inliers
  <2>2. /\ result' = [transformation |-> result.transformation, inliers |-> c.inliers,
                      score |-> result.score, converged |-> result.converged,
                      num_iterations |-> base_idx]
    BY <1>0, <2>1 DEF FourShaped
  <2>3. FourTyped'
    BY <1>0, <1>1, <2>1 DEF FourTyped, FourCandidates
  <2>4. BestIsBest'
    <3> SUFFICES ASSUME NEW d \in tried' PROVE NoBetter(d, c)
      BY <2>1 DEF BestIsBest
    <3>1. /\ Four!NumInliers(c) \in Nat /\ c.lcp_score \in Int
          /\ Four!NumInliers(best) \in Nat /\ best.lcp_score \in Int
      BY <1>2, FourMeasures
    <3>2. CASE d = c
      BY <3>1, <3>2 DEF NoBetter
    <3>3. CASE d \in tried
      <4>1. Four!NumInliers(d) \in Nat /\ d.lcp_score \in Int
        BY <1>2, <3>3, FourMeasures
      <4>2. NoBetter(d, best)
        BY <1>0, <3>3 DEF BestIsBest
      <4> QED BY <1>3, <3>1, <4>1, <4>2 DEF NoBetter, Four!Better
    <3> QED BY <2>1, <3>2, <3>3
  <2> QED BY <1>1, <2>1, <2>2, <2>3, <2>4 DEF FourInv, FourShaped, BestIsTried, KeptOfBest
<1>4. CASE ~(c.valid /\ Four!Better(c))
  <2>1. best' = best /\ result' = [result EXCEPT !.num_iterations = base_idx]
    BY <1>4 DEF Four!Evaluate, Four!IsValid
  <2>2. /\ result' = [transformation |-> result.transformation, inliers |-> result.inliers,
                      score |-> result.score, converged |-> result.converged,
                      num_iterations |-> base_idx]
    BY <1>0, <2>1 DEF FourShaped
  <2>3. FourTyped'
    BY <1>0, <1>1, <2>1 DEF FourTyped
  <2>4. BestIsBest'
    <3> SUFFICES ASSUME NEW d \in tried' PROVE NoBetter(d, best)
      BY <2>1 DEF BestIsBest
    <3>1. CASE d \in tried
      BY <1>0, <3>1 DEF BestIsBest
    <3>2. CASE d = c /\ c.valid
      <4>1. /\ Four!NumInliers(c) \in Nat /\ c.lcp_score \in Int
            /\ Four!NumInliers(best) \in Nat /\ best.lcp_score \in Int
        BY <1>2, FourMeasures
      <4> QED BY <1>4, <3>2, <4>1 DEF NoBetter, Four!Better
    <3> QED BY <1>1, <3>1, <3>2
  <2> QED BY <1>0, <1>1, <2>1, <2>2, <2>3, <2>4 DEF FourInv, FourShaped, BestIsTried, KeptOfBest
<1> QED BY <1>3, <1>4

LEMMA FourGoesOn ==
  ASSUME FourInv, Four!NextBase
  PROVE  FourInv'
<1>1. /\ phase = "search" /\ base_idx' = base_idx + 1
      /\ UNCHANGED <<sample_size, source, target, phase, bases, best, tried, returned, calls>>
      /\ result' = [result EXCEPT !.num_iterations = base_idx]
  BY DEF Four!NextBase, Four!settings
<1>2. result' = [transformation |-> result.transformation, inliers |-> result.inliers,
                 score |-> result.score, converged |-> result.converged,
                 num_iterations |-> base_idx]
  BY <1>1 DEF FourInv, FourShaped
<1>3. FourTyped'
  BY <1>1 DEF FourInv, FourTyped
<1>4. FourShaped' /\ BestIsTried' /\ BestIsBest' /\ KeptOfBest'
  BY <1>1, <1>2 DEF FourInv, FourShaped, BestIsTried, BestIsBest, KeptOfBest
<1> QED BY <1>3, <1>4 DEF FourInv

LEMMA FourFinishes ==
  ASSUME FourInv, Four!Finish
  PROVE  FourInv'
<1>1. /\ phase = "search" /\ phase' = "idle" /\ returned' = Four!EnoughInliers
      /\ UNCHANGED <<sample_size, source, target, bases, base_idx, best, tried, calls>>
  BY DEF Four!Finish, Four!settings, Four!search
<1> DEFINE ended == [result EXCEPT !.num_iterations = base_idx, !.converged = Four!GoodEnough]
<1>2. ended = [transformation |-> result.transformation, inliers |-> result.inliers,
               score |-> result.score, converged |-> Four!GoodEnough,
               num_iterations |-> base_idx]
  <2>1. result = [transformation |-> result.transformation, inliers |-> result.inliers,
                  score |-> result.score, converged |-> result.converged,
                  num_iterations |-> result.num_iterations]
    BY DEF FourInv, FourShaped
  <2>2. ASSUME NEW good, NEW e, e = [result EXCEPT !.num_iterations = base_idx, !.converged = good]
        PROVE  e = [transformation |-> result.transformation, inliers |-> result.inliers,
                    score |-> result.score, converged |-> good, num_iterations |-> base_idx]
    BY <2>1, <2>2
  <2> QED BY <2>2
<1>3. result.inliers = best.inliers
  BY <1>1 DEF FourInv, KeptOfBest
<1>4. FourTyped'
  BY <1>1 DEF FourInv, FourTyped, Four!EnoughInliers
<1>5. BestIsTried' /\ BestIsBest'
  BY <1>1 DEF FourInv, BestIsTried, BestIsBest
<1>6. CASE ~Four!EnoughInliers
  <2>1. result' = ended
    BY <1>6 DEF Four!Finish
  <2>2. FourShaped' /\ KeptOfBest'
    BY <1>1, <1>2, <1>6, <2>1 DEF FourShaped, KeptOfBest
  <2> QED BY <1>4, <1>5, <2>2 DEF FourInv
<1>7. CASE Four!EnoughInliers
  <2>1. PICK m \in Four!Measured :
          result' = [ended EXCEPT
            !.transformation = Four!Transform(best), !.score = m.lcp_score,
            !.converged = Four!GoodEnough \/ Four!NumInliers(m) >= least]
    BY <1>7 DEF Four!Finish
  <2>2. result' = [transformation |-> best.id, inliers |-> result.inliers,
                   score |-> m.lcp_score,
                   converged |-> Four!GoodEnough \/ Four!NumInliers(m) >= least,
                   num_iterations |-> base_idx]
    BY <1>2, <2>1 DEF Four!Transform
  <2>3. best # Four!NoCandidate => m = best
    BY DEF Four!Measured
  <2>4. FourShaped' /\ KeptOfBest'
    BY <1>1, <1>3, <1>7, <2>2, <2>3 DEF FourShaped, KeptOfBest, Four!EnoughInliers
  <2> QED BY <1>4, <1>5, <2>4 DEF FourInv
<1> QED BY <1>6, <1>7

LEMMA FourKeeps ==
  ASSUME CandidatesAreMeasured, FourInv, [Four!Next]_(Four!four_vars)
  PROVE  FourInv'
BY FourSets, FourRejects, FourBegins, FourEvaluates, FourGoesOn, FourFinishes DEF Four!Next

LEMMA FourIsBest ==
  ASSUME FourInv
  PROVE  Four!TypeOK /\ Four!ResultIsBestTried
<1>1. Four!TypeOK
  BY DEF FourInv, FourTyped, FourCandidates, Four!TypeOK
<1>2. Four!ResultIsBestTried
  BY DEF FourInv, BestIsBest, BestIsTried, NoBetter, KeptOfBest, Four!ResultIsBestTried,
     Four!Transform, Four!Inliers
<1> QED BY <1>1, <1>2

-------------------------------------------------------------------------------
(* Keypoints                                                               *)

\* Among finitely many points one has the greatest value.
LEMMA Greatest ==
  ASSUME NEW S, IsFiniteSet(S), NEW f, \A i \in S : f[i] \in Int, S # {}
  PROVE  \E i \in S : \A j \in S : f[j] <= f[i]
<1>1. PICK s \in Seq(S) : \A i \in S : \E n \in 1 .. Len(s) : s[n] = i
  BY DEF IsFiniteSet
<1>2. Len(s) \in Nat /\ \A n \in 1 .. Len(s) : s[n] \in S
  OBVIOUS
<1> DEFINE T == {n \in 0 .. Len(s) : n = 0 \/ \E m \in 1 .. n : \A k \in 1 .. n : f[s[k]] <= f[s[m]]}
<1>3. 0 \in T
  BY <1>2
<1>4. ASSUME NEW n \in 0 .. Len(s) - 1, n \in T PROVE n + 1 \in T
  <2>1. n \in Nat /\ n + 1 \in 0 .. Len(s) /\ n + 1 \in 1 .. n + 1 /\ f[s[n + 1]] \in Int
    BY <1>2
  <2>2. CASE n = 0
    <3>1. \A k \in 1 .. n + 1 : f[s[k]] <= f[s[n + 1]]
      BY <2>1, <2>2
    <3> QED BY <2>1, <3>1
  <2>3. CASE n # 0
    <3>1. PICK m \in 1 .. n : \A k \in 1 .. n : f[s[k]] <= f[s[m]]
      BY <1>4, <2>3
    <3>2. f[s[m]] \in Int /\ m \in 1 .. n + 1
      BY <1>2, <2>1
    <3>3. CASE f[s[n + 1]] <= f[s[m]]
      <4>1. \A k \in 1 .. n + 1 : f[s[k]] <= f[s[m]]
        BY <2>1, <3>1, <3>3
      <4> QED BY <2>1, <3>2, <4>1
    <3>4. CASE ~(f[s[n + 1]] <= f[s[m]])
      <4>1. \A k \in 1 .. n : f[s[k]] \in Int
        BY <1>2, <2>1
      <4>2. \A k \in 1 .. n + 1 : f[s[k]] <= f[s[n + 1]]
        BY <2>1, <3>1, <3>2, <3>4, <4>1
      <4> QED BY <2>1, <4>2
    <3> QED BY <3>3, <3>4
  <2> QED BY <2>2, <2>3
<1> HIDE DEF T
<1>5. 0 .. Len(s) \subseteq T
  BY <1>2, <1>3, <1>4, InductionUpTo
<1>6. Len(s) # 0
  BY <1>1
<1>7. PICK m \in 1 .. Len(s) : \A k \in 1 .. Len(s) : f[s[k]] <= f[s[m]]
  <2>1. Len(s) \in 0 .. Len(s)
    BY <1>2
  <2>2. Len(s) \in T
    BY <1>5, <2>1
  <2> QED BY <1>6, <2>2 DEF T
<1> QED BY <1>1, <1>2, <1>7

\* A suppression by a greater value leaves the greatest of a region's candidates.
LEMMA GreatestIsKept ==
  ASSUME NEW C, C \subseteq KeyPoint, IsFiniteSet(KeyPoint), near \in [KeyPoint -> SUBSET KeyPoint],
         NEW f, \A i \in KeyPoint : f[i] \in Int, NEW beats,
         \A i \in C, n \in KeyPoint : <<n, i>> \in beats => n \in C /\ f[n] > f[i],
         NEW region, region \subseteq KeyPoint, \A i \in region : near[i] \subseteq region,
         region \cap C # {}
  PROVE  region \cap Extractor!Local(C, beats) # {}
<1>1. IsFiniteSet(region \cap C)
  BY FS_Subset
<1>2. PICK i \in region \cap C : \A j \in region \cap C : f[j] <= f[i]
  BY <1>1, Greatest
<1>3. ASSUME NEW n \in near[i] \ {i}, <<n, i>> \in beats PROVE FALSE
  <2>1. n \in region /\ n \in KeyPoint
    BY <1>2
  <2>2. n \in C /\ f[n] > f[i]
    BY <1>2, <1>3, <2>1
  <2>3. f[n] <= f[i] /\ f[n] \in Int /\ f[i] \in Int
    BY <1>2, <2>1, <2>2
  <2> QED BY <2>2, <2>3
<1>4. i \in Extractor!Local(C, beats)
  BY <1>2, <1>3 DEF Extractor!Local
<1> QED BY <1>2, <1>4

\* Candidates that are near each other and both kept are equal.
LEMMA EqualsAreKept ==
  ASSUME NEW C, C \subseteq KeyPoint, near \in [KeyPoint -> SUBSET KeyPoint],
         \A i, j \in KeyPoint : j \in near[i] => i \in near[j],
         NEW f, \A i \in KeyPoint : f[i] \in Int, NEW beats,
         \A i, n \in C : f[n] > f[i] => <<n, i>> \in beats,
         NEW i \in Extractor!Local(C, beats), NEW j \in Extractor!Local(C, beats), j \in near[i]
  PROVE  f[i] = f[j]
<1>1. i \in C /\ j \in C /\ f[i] \in Int /\ f[j] \in Int /\ i \in near[j]
  BY DEF Extractor!Local
<1>2. i # j => <<i, j>> \notin beats /\ <<j, i>> \notin beats
  BY <1>1 DEF Extractor!Local
<1> QED BY <1>1, <1>2

KeyTyped ==
  /\ kind \in Kinds /\ near \in Neighbours /\ responses \in [KeyPoint -> Extractor!Response]
  /\ extracted \in BOOLEAN
KeyInv ==
  /\ KeyTyped
  /\ keypoints = IF extracted THEN Extractor!Keypoint ELSE {}
  /\ extracted /\ kind = "loam" => labels = [p \in KeyPoint |-> Extractor!FeatureLabel(p)]

LEMMA KeyStarts ==
  ASSUME Extractor!Init
  PROVE  KeyInv
BY DEF Extractor!Init, KeyInv, KeyTyped

LEMMA KeyKeeps ==
  ASSUME KeyInv, [Extractor!Next]_(Extractor!vars)
  PROVE  KeyInv'
<1>1. ASSUME UNCHANGED <<kind, near, responses>>
      PROVE  Extractor!Keypoint' = Extractor!Keypoint
  BY <1>1 DEF Extractor!Keypoint, Extractor!HarrisKeypoints, Extractor!HarrisCandidates,
     Extractor!Higher, Extractor!Lower, Extractor!AgastKeypoints, Extractor!AgastCandidates,
     Extractor!SusanKeypoints, Extractor!SusanCandidates, Extractor!CurvatureKeypoints,
     Extractor!CurvatureCandidates, Extractor!CurvatureBeats, Extractor!IssKeypoints,
     Extractor!IssCandidates, Extractor!MlsKeypoints, Extractor!MlsCandidates,
     Extractor!MlsBeats, Extractor!Score, Extractor!SiftKeypoints, Extractor!SiftCandidates,
     Extractor!SiftBeats, Extractor!IsMax, Extractor!IsMin, Extractor!LoamFeatures,
     Extractor!Local
<1>2. ASSUME UNCHANGED <<kind, near, responses>>
      PROVE  \A p : Extractor!FeatureLabel(p)' = Extractor!FeatureLabel(p)
  BY <1>2 DEF Extractor!FeatureLabel
<1>3. CASE Extractor!Extract
  <2>1. /\ UNCHANGED <<kind, near, responses>> /\ extracted' = TRUE
        /\ keypoints' = Extractor!Keypoint
        /\ kind = "loam" => labels' = [p \in KeyPoint |-> Extractor!FeatureLabel(p)]
    BY <1>3 DEF Extractor!Extract
  <2> QED BY <1>1, <1>2, <2>1 DEF KeyInv, KeyTyped
<1>4. CASE UNCHANGED Extractor!vars
  <2>1. UNCHANGED <<kind, near, responses, keypoints, labels, extracted>>
    BY <1>4 DEF Extractor!vars
  <2> QED BY <1>1, <1>2, <2>1 DEF KeyInv, KeyTyped
<1> QED BY <1>3, <1>4 DEF Extractor!Next

LEMMA ResponsesAreNumbers ==
  ASSUME PointsAreNear, KeyTyped
  PROVE  /\ near \in [KeyPoint -> SUBSET KeyPoint]
         /\ \A i, j \in KeyPoint : j \in near[i] => i \in near[j]
         /\ \A i \in KeyPoint : responses[i].value \in Int /\ -responses[i].value \in Int
<1>1. \A r \in Extractor!Response : r.value \in Int
  <2>1. Extractor!NoResponse.value \in Int
    BY DEF Extractor!NoResponse
  <2>2. \A r \in [valid : {TRUE}, value : KeyValues, other : Others] : r.value \in Int
    BY DEF PointsAreNear
  <2> QED BY <2>1, <2>2 DEF Extractor!Response
<1> QED BY <1>1 DEF PointsAreNear, KeyTyped

\* What RegionsKept says of points that suppress each other.
KeepsRegions ==
  /\ \A region \in SUBSET KeyPoint :
       /\ \A i \in region : near[i] \subseteq region
       /\ region \cap Extractor!Candidates # {}
       => region \cap Extractor!Keypoint # {}
  /\ \A i, j \in Extractor!Candidates \cap Extractor!Keypoint :
       j \in near[i] => responses[i].value = responses[j].value

\* Candidates C are suppressed by candidates of which more is measured, f.
Suppresses(C, f, beats) ==
  /\ C \subseteq KeyPoint /\ f \in [KeyPoint -> Int]
  /\ \A i \in C, n \in KeyPoint : <<n, i>> \in beats => n \in C /\ f[n] > f[i]
  /\ \A i, n \in C : f[n] > f[i] => <<n, i>> \in beats
  /\ \A i, j \in KeyPoint : f[i] = f[j] => responses[i].value = responses[j].value

LEMMA OneKindKeeps ==
  ASSUME PointsAreNear, KeyTyped, NEW C, NEW f, NEW beats, Suppresses(C, f, beats),
         Extractor!Candidates = C, Extractor!Keypoint = Extractor!Local(C, beats)
  PROVE  KeepsRegions
<1>0. /\ C \subseteq KeyPoint /\ \A i \in KeyPoint : f[i] \in Int
      /\ \A i \in C, n \in KeyPoint : <<n, i>> \in beats => n \in C /\ f[n] > f[i]
      /\ \A i, n \in C : f[n] > f[i] => <<n, i>> \in beats
      /\ \A i, j \in KeyPoint : f[i] = f[j] => responses[i].value = responses[j].value
  BY DEF Suppresses
<1>1. IsFiniteSet(KeyPoint)
  BY DEF PointsAreNear
<1>2. ASSUME NEW region \in SUBSET KeyPoint, \A i \in region : near[i] \subseteq region,
             region \cap C # {}
      PROVE  region \cap Extractor!Local(C, beats) # {}
  BY <1>0, <1>1, <1>2, ResponsesAreNumbers, GreatestIsKept
<1>3. ASSUME NEW i \in Extractor!Local(C, beats), NEW j \in Extractor!Local(C, beats), j \in near[i]
      PROVE  f[i] = f[j]
  BY <1>0, <1>3, ResponsesAreNumbers, EqualsAreKept
<1>4. Extractor!Local(C, beats) \subseteq KeyPoint
  BY <1>0 DEF Extractor!Local
<1> QED BY <1>0, <1>2, <1>3, <1>4 DEF KeepsRegions

LEMMA KeyIsKept ==
  ASSUME PointsAreNear, KeyInv
  PROVE  Extractor!TypeOK /\ Extractor!RegionsKept
<1> DEFINE value == [i \in KeyPoint |-> responses[i].value]
           negated == [i \in KeyPoint |-> -responses[i].value]
<1>0. KeyTyped
  BY DEF KeyInv
<1>1. /\ \A i \in KeyPoint : responses[i].value \in Int /\ -responses[i].value \in Int
      /\ Strong \in Int /\ \A i \in KeyPoint : value[i] = responses[i].value
      /\ \A i \in KeyPoint : negated[i] = -responses[i].value
  BY <1>0, ResponsesAreNumbers DEF PointsAreNear
<1>2. /\ value \in [KeyPoint -> Int] /\ negated \in [KeyPoint -> Int]
      /\ \A i, j \in KeyPoint : value[i] = value[j] => responses[i].value = responses[j].value
      /\ \A i, j \in KeyPoint : negated[i] = negated[j] => responses[i].value = responses[j].value
  BY <1>1
<1>3. \A i, n \in KeyPoint :
        /\ <<n, i>> \in Extractor!Higher <=> responses[n].valid /\ value[n] > value[i]
        /\ <<n, i>> \in Extractor!Lower <=> responses[n].valid /\ negated[n] > negated[i]
        /\ <<n, i>> \in Extractor!CurvatureBeats <=> value[n] > value[i]
  BY <1>1 DEF Extractor!Higher, Extractor!Lower, Extractor!CurvatureBeats
<1> HIDE DEF value, negated
<1>4. ASSUME kind = "harris3d" PROVE KeepsRegions
  <2> DEFINE C == Extractor!HarrisCandidates
  <2>1. /\ C \subseteq KeyPoint /\ Extractor!Candidates = C
        /\ Extractor!Keypoint = Extractor!Local(C, Extractor!Higher)
    BY <1>4 DEF Extractor!HarrisCandidates, Extractor!Candidates, Extractor!Keypoint,
       Extractor!HarrisKeypoints
  <2>2. \A i \in C, n \in KeyPoint : <<n, i>> \in Extractor!Higher => n \in C /\ value[n] > value[i]
    BY <1>1, <1>3 DEF Extractor!HarrisCandidates
  <2>3. \A i, n \in C : value[n] > value[i] => <<n, i>> \in Extractor!Higher
    BY <1>3 DEF Extractor!HarrisCandidates
  <2> HIDE DEF C
  <2>4. Suppresses(C, value, Extractor!Higher)
    BY <1>2, <2>1, <2>2, <2>3 DEF Suppresses
  <2> QED BY <1>0, <2>1, <2>4, OneKindKeeps
<1>5. ASSUME kind = "agast" PROVE KeepsRegions
  <2> DEFINE C == Extractor!AgastCandidates
  <2>1. /\ C \subseteq KeyPoint /\ Extractor!Candidates = C
        /\ Extractor!Keypoint = Extractor!Local(C, Extractor!Higher)
    BY <1>5 DEF Extractor!AgastCandidates, Extractor!Candidates, Extractor!Keypoint,
       Extractor!AgastKeypoints
  <2>2. \A i \in C, n \in KeyPoint : <<n, i>> \in Extractor!Higher => n \in C /\ value[n] > value[i]
    BY <1>1, <1>3 DEF Extractor!AgastCandidates
  <2>3. \A i, n \in C : value[n] > value[i] => <<n, i>> \in Extractor!Higher
    BY <1>3 DEF Extractor!AgastCandidates
  <2> HIDE DEF C
  <2>4. Suppresses(C, value, Extractor!Higher)
    BY <1>2, <2>1, <2>2, <2>3 DEF Suppresses
  <2> QED BY <1>0, <2>1, <2>4, OneKindKeeps
<1>6. ASSUME kind = "susan" PROVE KeepsRegions
  <2> DEFINE C == Extractor!SusanCandidates
  <2>1. /\ C \subseteq KeyPoint /\ Extractor!Candidates = C
        /\ Extractor!Keypoint = Extractor!Local(C, Extractor!Lower)
    BY <1>6 DEF Extractor!SusanCandidates, Extractor!Candidates, Extractor!Keypoint,
       Extractor!SusanKeypoints
  <2>2. \A i \in C, n \in KeyPoint : <<n, i>> \in Extractor!Lower => n \in C /\ negated[n] > negated[i]
    BY <1>1, <1>3 DEF Extractor!SusanCandidates
  <2>3. \A i, n \in C : negated[n] > negated[i] => <<n, i>> \in Extractor!Lower
    BY <1>3 DEF Extractor!SusanCandidates
  <2> HIDE DEF C
  <2>4. Suppresses(C, negated, Extractor!Lower)
    BY <1>2, <2>1, <2>2, <2>3 DEF Suppresses
  <2> QED BY <1>0, <2>1, <2>4, OneKindKeeps
<1>7. ASSUME kind = "curvature" PROVE KeepsRegions
  <2> DEFINE C == Extractor!CurvatureCandidates
  <2>1. /\ C \subseteq KeyPoint /\ Extractor!Candidates = C
        /\ Extractor!Keypoint = Extractor!Local(C, Extractor!CurvatureBeats)
    BY <1>7 DEF Extractor!CurvatureCandidates, Extractor!Candidates, Extractor!Keypoint,
       Extractor!CurvatureKeypoints
  <2>2. \A i \in C, n \in KeyPoint :
          <<n, i>> \in Extractor!CurvatureBeats => n \in C /\ value[n] > value[i]
    BY <1>1, <1>3 DEF Extractor!CurvatureCandidates
  <2>3. \A i, n \in C : value[n] > value[i] => <<n, i>> \in Extractor!CurvatureBeats
    BY <1>3 DEF Extractor!CurvatureCandidates
  <2> HIDE DEF C
  <2>4. Suppresses(C, value, Extractor!CurvatureBeats)
    BY <1>2, <2>1, <2>2, <2>3 DEF Suppresses
  <2> QED BY <1>0, <2>1, <2>4, OneKindKeeps
<1>8. ASSUME kind = "iss" PROVE KeepsRegions
  <2> DEFINE C == Extractor!IssCandidates
  <2>1. /\ C \subseteq KeyPoint /\ Extractor!Candidates = C
        /\ Extractor!Keypoint = Extractor!Local(C, Extractor!Higher)
    BY <1>8 DEF Extractor!IssCandidates, Extractor!Candidates, Extractor!Keypoint,
       Extractor!IssKeypoints
  <2>2. \A i \in C, n \in KeyPoint : <<n, i>> \in Extractor!Higher => n \in C /\ value[n] > value[i]
    BY <1>1, <1>3 DEF Extractor!IssCandidates
  <2>3. \A i, n \in C : value[n] > value[i] => <<n, i>> \in Extractor!Higher
    BY <1>3 DEF Extractor!IssCandidates
  <2> HIDE DEF C
  <2>4. Suppresses(C, value, Extractor!Higher)
    BY <1>2, <2>1, <2>2, <2>3 DEF Suppresses
  <2> QED BY <1>0, <2>1, <2>4, OneKindKeeps
<1>9. ASSUME kind \in {"mls", "sift3d", "loam"} PROVE KeepsRegions
  <2>1. Extractor!Candidates = {}
    BY <1>9 DEF Extractor!Candidates
  <2> QED BY <2>1 DEF KeepsRegions
<1>10. KeepsRegions
  BY <1>0, <1>4, <1>5, <1>6, <1>7, <1>8, <1>9 DEF KeyTyped, PointsAreNear
<1>11. ASSUME kind = "loam", extracted
       PROVE  keypoints = {i \in KeyPoint : labels[i] # "none"}
  <2>1. /\ keypoints = Extractor!LoamFeatures
        /\ labels = [p \in KeyPoint |-> Extractor!FeatureLabel(p)]
    BY <1>11 DEF KeyInv, Extractor!Keypoint
  <2>2. \A i \in KeyPoint : i \in Extractor!LoamFeatures <=> Extractor!FeatureLabel(i) # "none"
    BY <1>1 DEF Extractor!LoamFeatures, Extractor!FeatureLabel, Extractor!m_curvature_threshold,
       Extractor!m_edge_threshold, Extractor!m_planar_threshold
  <2>3. Extractor!LoamFeatures \subseteq KeyPoint
    BY DEF Extractor!LoamFeatures
  <2> QED BY <2>1, <2>2, <2>3
<1>12. keypoints \subseteq KeyPoint
  <2>1. /\ Extractor!HarrisKeypoints \subseteq KeyPoint /\ Extractor!AgastKeypoints \subseteq KeyPoint
        /\ Extractor!SusanKeypoints \subseteq KeyPoint /\ Extractor!CurvatureKeypoints \subseteq KeyPoint
        /\ Extractor!IssKeypoints \subseteq KeyPoint /\ Extractor!MlsKeypoints \subseteq KeyPoint
        /\ Extractor!SiftKeypoints \subseteq KeyPoint /\ Extractor!LoamFeatures \subseteq KeyPoint
    BY DEF Extractor!Local, Extractor!HarrisKeypoints, Extractor!HarrisCandidates,
       Extractor!AgastKeypoints, Extractor!AgastCandidates, Extractor!SusanKeypoints,
       Extractor!SusanCandidates, Extractor!CurvatureKeypoints, Extractor!CurvatureCandidates,
       Extractor!IssKeypoints, Extractor!IssCandidates, Extractor!MlsKeypoints,
       Extractor!MlsCandidates, Extractor!SiftKeypoints, Extractor!SiftCandidates,
       Extractor!LoamFeatures
  <2> QED BY <1>0, <2>1 DEF KeyInv, KeyTyped, PointsAreNear, Extractor!Keypoint
<1> QED BY <1>0, <1>10, <1>11, <1>12
        DEF KeyInv, KeyTyped, KeepsRegions, Extractor!TypeOK, Extractor!RegionsKept

-------------------------------------------------------------------------------
(* Sums of clouds                                                          *)

APoint == [id : Nat, moves : Nat]
ACloud == [points : Seq(APoint), normals : Seq(APoint), colors : Seq(APoint)]

\* What is theirs stays with the points of one cloud.
Theirs(a) == Sums!Belong(a.normals, a.points) /\ Sums!Belong(a.colors, a.points)
Sound(a) == a \in ACloud /\ Theirs(a)

SumsInv == cloud \in [CloudName -> ACloud] /\ made \in Nat /\ \A c \in CloudName : Theirs(cloud[c])

LEMMA DefaultsAre ==
  ASSUME NEW n \in Nat
  PROVE  /\ Sums!Default \in APoint /\ Sums!Defaults(n) \in Seq(APoint)
         /\ Len(Sums!Defaults(n)) = n /\ \A i \in 1 .. n : Sums!Defaults(n)[i] = Sums!Default
<1>1. Sums!Default \in APoint
  BY DEF Sums!Default, APoint
<1> QED BY <1>1 DEF Sums!Defaults

LEMMA EmptyIsSound == Sound(Sums!Empty)
<1>1. <<>> \in Seq(APoint)
  OBVIOUS
<1> QED BY <1>1 DEF Sound, Theirs, ACloud, Sums!Empty, Sums!Belong

LEMMA JoinedBelong ==
  ASSUME NEW own \in Seq(APoint), NEW others \in Seq(APoint), NEW p \in Seq(APoint), NEW q \in Seq(APoint),
         Sums!Belong(own, p), Sums!Belong(others, q)
  PROVE  /\ Sums!Joined(own, Len(p), others, Len(q)) \in Seq(APoint)
         /\ Sums!Belong(Sums!Joined(own, Len(p), others, Len(q)), p \o q)
<1> DEFINE j == Sums!Joined(own, Len(p), others, Len(q))
           n == Len(p)
           m == Len(q)
<1>1. n \in Nat /\ m \in Nat
  OBVIOUS
<1>2. CASE own = <<>> /\ others = <<>>
  BY <1>2 DEF Sums!Joined, Sums!Belong
<1>3. ASSUME ~(own = <<>> /\ others = <<>>)
      PROVE  j \in Seq(APoint) /\ Sums!Belong(j, p \o q)
  <2> DEFINE first == IF own # <<>> THEN own ELSE Sums!Defaults(n)
             second == IF others # <<>> THEN others ELSE Sums!Defaults(m)
  <2>1. /\ first \in Seq(APoint) /\ Len(first) = n
        /\ \A i \in 1 .. n : first[i] = Sums!Default
             \/ (first[i].id = p[i].id /\ first[i].moves <= p[i].moves)
    <3>1. CASE own = <<>>
      <4>1. first = Sums!Defaults(n)
        BY <3>1
      <4> HIDE DEF first
      <4> QED BY <1>1, <4>1, DefaultsAre
    <3>2. CASE own # <<>>
      <4>1. first = own /\ DOMAIN p = 1 .. n
        BY <3>2
      <4> HIDE DEF first
      <4> QED BY <3>2, <4>1 DEF Sums!Belong
    <3> QED BY <3>1, <3>2
  <2>2. /\ second \in Seq(APoint) /\ Len(second) = m
        /\ \A i \in 1 .. m : second[i] = Sums!Default
             \/ (second[i].id = q[i].id /\ second[i].moves <= q[i].moves)
    <3>1. CASE others = <<>>
      <4>1. second = Sums!Defaults(m)
        BY <3>1
      <4> HIDE DEF second
      <4> QED BY <1>1, <4>1, DefaultsAre
    <3>2. CASE others # <<>>
      <4>1. second = others /\ DOMAIN q = 1 .. m
        BY <3>2
      <4> HIDE DEF second
      <4> QED BY <3>2, <4>1 DEF Sums!Belong
    <3> QED BY <3>1, <3>2
  <2>3. j = first \o second
    BY <1>3 DEF Sums!Joined
  <2> HIDE DEF first, second
  <2>4. /\ first \o second \in Seq(APoint) /\ Len(first \o second) = n + m
        /\ \A i \in 1 .. n : (first \o second)[i] = first[i]
        /\ \A i \in n + 1 .. n + m : (first \o second)[i] = second[i - n] /\ i - n \in 1 .. m
    <3>1. /\ first \o second \in Seq(APoint)
          /\ Len(first \o second) = Len(first) + Len(second)
          /\ \A i \in 1 .. Len(first) + Len(second) : (first \o second)[i] =
                IF i <= Len(first) THEN first[i] ELSE second[i - Len(first)]
      <4>1. first \in Seq(APoint) /\ second \in Seq(APoint)
        BY <2>1, <2>2
      <4> HIDE DEF n, m
      <4> QED BY <4>1, ConcatProperties
    <3>2. Len(first) = n /\ Len(second) = m
      BY <2>1, <2>2
    <3> HIDE DEF n, m
    <3>3. ASSUME NEW i \in 1 .. n PROVE (first \o second)[i] = first[i]
      <4>1. i \in 1 .. n + m /\ i <= n
        BY <1>1
      <4> QED BY <3>1, <3>2, <4>1
    <3>4. ASSUME NEW i \in n + 1 .. n + m
          PROVE  (first \o second)[i] = second[i - n] /\ i - n \in 1 .. m
      <4>1. i \in 1 .. n + m /\ ~(i <= n) /\ i - n \in 1 .. m
        BY <1>1
      <4> QED BY <3>1, <3>2, <4>1
    <3> QED BY <3>1, <3>2, <3>3, <3>4
  <2>5. /\ p \o q \in Seq(APoint) /\ Len(p \o q) = n + m /\ DOMAIN (p \o q) = 1 .. n + m
        /\ \A i \in 1 .. n : (p \o q)[i] = p[i]
        /\ \A i \in n + 1 .. n + m : (p \o q)[i] = q[i - n]
    BY <1>1
  <2>6. ASSUME NEW i \in 1 .. n + m
        PROVE  \/ j[i] = Sums!Default
               \/ (j[i].id = (p \o q)[i].id /\ j[i].moves <= (p \o q)[i].moves)
    <3>1. CASE i \in 1 .. n
      <4>1. j[i] = first[i] /\ (p \o q)[i] = p[i]
        BY <2>3, <2>4, <2>5, <3>1
      <4> HIDE DEF j
      <4> QED BY <2>1, <3>1, <4>1
    <3>2. CASE i \in n + 1 .. n + m
      <4>1. i - n \in 1 .. m /\ j[i] = second[i - n] /\ (p \o q)[i] = q[i - n]
        BY <2>3, <2>4, <2>5, <3>2
      <4> HIDE DEF j
      <4> QED BY <2>2, <4>1
    <3> QED BY <1>1, <3>1, <3>2
  <2> HIDE DEF j
  <2> QED BY <2>3, <2>4, <2>5, <2>6 DEF Sums!Belong
<1> QED BY <1>2, <1>3

LEMMA PlusIsSound ==
  ASSUME NEW a, NEW b, Sound(a), Sound(b)
  PROVE  Sound(Sums!Plus(a, b))
<1>1. /\ a.points \in Seq(APoint) /\ a.normals \in Seq(APoint) /\ a.colors \in Seq(APoint)
      /\ b.points \in Seq(APoint) /\ b.normals \in Seq(APoint) /\ b.colors \in Seq(APoint)
      /\ Sums!Belong(a.normals, a.points) /\ Sums!Belong(a.colors, a.points)
      /\ Sums!Belong(b.normals, b.points) /\ Sums!Belong(b.colors, b.points)
  BY DEF Sound, Theirs, ACloud
<1>2. a.points \o b.points \in Seq(APoint)
  BY <1>1
<1> DEFINE n == Sums!Joined(a.normals, Len(a.points), b.normals, Len(b.points))
           c == Sums!Joined(a.colors, Len(a.points), b.colors, Len(b.points))
<1>3. n \in Seq(APoint) /\ Sums!Belong(n, a.points \o b.points)
  BY <1>1, JoinedBelong
<1>4. c \in Seq(APoint) /\ Sums!Belong(c, a.points \o b.points)
  BY <1>1, JoinedBelong
<1>5. Sums!Plus(a, b) = [points |-> a.points \o b.points, normals |-> n, colors |-> c]
  BY DEF Sums!Plus
<1> HIDE DEF n, c
<1> QED BY <1>2, <1>3, <1>4, <1>5 DEF Sound, Theirs, ACloud

LEMMA AppendBelongs ==
  ASSUME NEW own \in Seq(APoint), NEW points \in Seq(APoint), NEW p \in APoint, Sums!Belong(own, points)
  PROVE  LET more == IF own = <<>> THEN own ELSE Append(own, Sums!Default)
         IN  more \in Seq(APoint) /\ Sums!Belong(more, Append(points, p))
<1>1. Sums!Default \in APoint
  BY DEF Sums!Default, APoint
<1>2. CASE own = <<>>
  BY <1>2 DEF Sums!Belong
<1>3. CASE own # <<>>
  <2>1. /\ Len(own) = Len(points) /\ DOMAIN points = 1 .. Len(points) /\ Len(points) \in Nat
        /\ \A i \in 1 .. Len(points) : own[i] = Sums!Default
             \/ (own[i].id = points[i].id /\ own[i].moves <= points[i].moves)
    BY <1>3 DEF Sums!Belong
  <2>2. /\ Append(own, Sums!Default) \in Seq(APoint)
        /\ Len(Append(own, Sums!Default)) = Len(points) + 1
        /\ Append(own, Sums!Default)[Len(points) + 1] = Sums!Default
        /\ \A i \in 1 .. Len(points) : Append(own, Sums!Default)[i] = own[i]
    BY <1>1, <2>1
  <2>3. /\ Len(Append(points, p)) = Len(points) + 1
        /\ DOMAIN Append(points, p) = 1 .. Len(points) + 1
        /\ \A i \in 1 .. Len(points) : Append(points, p)[i] = points[i]
    BY <2>1
  <2> QED BY <1>3, <2>1, <2>2, <2>3 DEF Sums!Belong
<1> QED BY <1>2, <1>3

LEMMA PlusPointIsSound ==
  ASSUME NEW a, Sound(a), NEW p \in APoint
  PROVE  Sound(Sums!PlusPoint(a, p))
<1>1. /\ a.points \in Seq(APoint) /\ a.normals \in Seq(APoint) /\ a.colors \in Seq(APoint)
      /\ Sums!Belong(a.normals, a.points) /\ Sums!Belong(a.colors, a.points)
  BY DEF Sound, Theirs, ACloud
<1> DEFINE points == Append(a.points, p)
           n == IF a.normals = <<>> THEN a.normals ELSE Append(a.normals, Sums!Default)
           c == IF a.colors = <<>> THEN a.colors ELSE Append(a.colors, Sums!Default)
<1>2. points \in Seq(APoint)
  BY <1>1
<1>3. n \in Seq(APoint) /\ Sums!Belong(n, points)
  BY <1>1, AppendBelongs
<1>4. c \in Seq(APoint) /\ Sums!Belong(c, points)
  BY <1>1, AppendBelongs
<1>5. Sums!PlusPoint(a, p) = [points |-> points, normals |-> n, colors |-> c]
  <2>1. a = [points |-> a.points, normals |-> a.normals, colors |-> a.colors]
    BY DEF Sound, ACloud
  <2>2. PICK e : e = Sums!PlusPoint(a, p)
    OBVIOUS
  <2>3. e = [a EXCEPT !.points = points, !.normals = n, !.colors = c]
    BY <2>2 DEF Sums!PlusPoint
  <2> HIDE DEF points, n, c
  <2>4. e = [points |-> points, normals |-> n, colors |-> c]
    BY <2>1, <2>3
  <2> QED BY <2>2, <2>4
<1> HIDE DEF points, n, c
<1> QED BY <1>2, <1>3, <1>4, <1>5 DEF Sound, Theirs, ACloud

LEMMA MovedAreSound ==
  ASSUME NEW a, Sound(a)
  PROVE  LET moved == Sums!MovedPoints(a.points)
         IN  /\ Sound([Sums!Empty EXCEPT !.points = moved])
             /\ Sound([a EXCEPT !.points = moved])
<1> DEFINE moved == Sums!MovedPoints(a.points)
<1>1. /\ a.points \in Seq(APoint) /\ a.normals \in Seq(APoint) /\ a.colors \in Seq(APoint)
      /\ Sums!Belong(a.normals, a.points) /\ Sums!Belong(a.colors, a.points)
      /\ <<>> \in Seq(APoint)
  BY DEF Sound, Theirs, ACloud
<1>2. /\ moved \in Seq(APoint) /\ DOMAIN moved = DOMAIN a.points /\ Len(moved) = Len(a.points)
      /\ \A i \in DOMAIN a.points : /\ a.points[i] \in APoint
                                    /\ moved[i].id = a.points[i].id
                                    /\ moved[i].moves = a.points[i].moves + 1
  <2>1. Len(a.points) \in Nat /\ DOMAIN a.points = 1 .. Len(a.points)
    BY <1>1
  <2>2. \A i \in DOMAIN a.points : a.points[i] \in APoint
    BY <1>1
  <2>3. \A x \in APoint : /\ [x EXCEPT !.moves = @ + 1] \in APoint
                          /\ [x EXCEPT !.moves = @ + 1].id = x.id
                          /\ [x EXCEPT !.moves = @ + 1].moves = x.moves + 1
    BY DEF APoint
  <2> QED BY <2>1, <2>2, <2>3 DEF Sums!MovedPoints
<1> HIDE DEF moved
<1>3. ASSUME NEW own \in Seq(APoint), Sums!Belong(own, a.points) PROVE Sums!Belong(own, moved)
  <2>1. \A i \in DOMAIN a.points : a.points[i].moves \in Nat
    BY <1>2 DEF APoint
  <2>2. \A i \in DOMAIN own : own[i].moves \in Nat
    <3>1. \A i \in DOMAIN own : own[i] \in APoint
      OBVIOUS
    <3> QED BY <3>1 DEF APoint
  <2>3. DOMAIN own = 1 .. Len(own) /\ DOMAIN a.points = 1 .. Len(a.points)
    BY <1>1
  <2> QED BY <1>2, <1>3, <2>1, <2>2, <2>3 DEF Sums!Belong
<1>4. ASSUME NEW e, e = [Sums!Empty EXCEPT !.points = moved] PROVE Sound(e)
  <2>1. e = [points |-> moved, normals |-> <<>>, colors |-> <<>>]
    BY <1>4 DEF Sums!Empty
  <2> QED BY <1>1, <1>2, <2>1 DEF Sound, Theirs, ACloud, Sums!Belong
<1>5. ASSUME NEW e, e = [a EXCEPT !.points = moved] PROVE Sound(e)
  <2>1. e = [points |-> moved, normals |-> a.normals, colors |-> a.colors]
    BY <1>5 DEF Sound, ACloud
  <2> QED BY <1>1, <1>2, <1>3, <2>1 DEF Sound, Theirs, ACloud
<1> QED BY <1>4, <1>5 DEF moved

LEMMA AttachedAreSound ==
  ASSUME NEW a, Sound(a)
  PROVE  Sound([a EXCEPT !.normals = a.points]) /\ Sound([a EXCEPT !.colors = a.points])
<1>1. /\ a.points \in Seq(APoint) /\ a.normals \in Seq(APoint) /\ a.colors \in Seq(APoint)
      /\ Sums!Belong(a.normals, a.points) /\ Sums!Belong(a.colors, a.points)
  BY DEF Sound, Theirs, ACloud
<1>2. Sums!Belong(a.points, a.points)
  <2>1. \A i \in DOMAIN a.points : a.points[i].moves \in Nat
    <3>1. \A i \in DOMAIN a.points : a.points[i] \in APoint
      BY <1>1
    <3> QED BY <3>1 DEF APoint
  <2> QED BY <2>1 DEF Sums!Belong
<1>3. ASSUME NEW e, e = [a EXCEPT !.normals = a.points] PROVE Sound(e)
  <2>1. e = [points |-> a.points, normals |-> a.points, colors |-> a.colors]
    BY <1>3 DEF Sound, ACloud
  <2> QED BY <1>1, <1>2, <2>1 DEF Sound, Theirs, ACloud
<1>4. ASSUME NEW e, e = [a EXCEPT !.colors = a.points] PROVE Sound(e)
  <2>1. e = [points |-> a.points, normals |-> a.normals, colors |-> a.points]
    BY <1>4 DEF Sound, ACloud
  <2> QED BY <1>1, <1>2, <2>1 DEF Sound, Theirs, ACloud
<1> QED BY <1>3, <1>4

LEMMA SumsStart ==
  ASSUME Sums!Init
  PROVE  SumsInv
BY EmptyIsSound DEF Sums!Init, SumsInv, Sound

\* A step that changes what clouds hold to sound clouds.
LEMMA SoundStays ==
  ASSUME SumsInv, made' \in Nat, NEW c \in CloudName, NEW a, Sound(a),
         \/ cloud' = [cloud EXCEPT ![c] = a]
         \/ \E d \in CloudName : cloud' = [cloud EXCEPT ![c] = a, ![d] = Sums!Empty]
         \/ cloud' = cloud
  PROVE  SumsInv'
BY EmptyIsSound DEF SumsInv, Sound

LEMMA SumsKeep ==
  ASSUME SumsInv, [Sums!Next]_(Sums!vars)
  PROVE  SumsInv'
<1>0. made \in Nat /\ \A c \in CloudName : Sound(cloud[c])
  BY DEF SumsInv, Sound
<1>1. CASE UNCHANGED Sums!vars
  BY <1>1 DEF SumsInv, Sums!vars
<1>2. ASSUME NEW c \in CloudName,
             \/ Sums!AddPoint(c) \/ Sums!Clear(c) \/ Sums!TransformPointCloudInplace(c)
             \/ Sums!AttachNormals(c) \/ Sums!AttachColors(c)
      PROVE  SumsInv'
  <2>1. CASE Sums!AddPoint(c)
    <3>1. [id |-> made + 1, moves |-> 0] \in APoint
      BY <1>0 DEF APoint
    <3>2. made' \in Nat
      BY <1>0, <2>1 DEF Sums!AddPoint
    <3>3. cloud' = [cloud EXCEPT ![c] = Sums!PlusPoint(cloud[c], [id |-> made + 1, moves |-> 0])]
      BY <2>1 DEF Sums!AddPoint
    <3> QED BY <1>0, <3>1, <3>2, <3>3, PlusPointIsSound, SoundStays
  <2>2. CASE Sums!Clear(c)
    BY <1>0, <2>2, EmptyIsSound, SoundStays DEF Sums!Clear
  <2>3. CASE Sums!TransformPointCloudInplace(c)
    <3>1. cloud' = [cloud EXCEPT ![c] = [cloud[c] EXCEPT !.points = Sums!MovedPoints(cloud[c].points)]]
      BY <2>3 DEF Sums!TransformPointCloudInplace
    <3>2. made' \in Nat
      BY <1>0, <2>3 DEF Sums!TransformPointCloudInplace
    <3> QED BY <1>0, <3>1, <3>2, MovedAreSound, SoundStays
  <2>4. CASE Sums!AttachNormals(c)
    <3>1. cloud' = [cloud EXCEPT ![c] = [cloud[c] EXCEPT !.normals = cloud[c].points]]
      BY <2>4 DEF Sums!AttachNormals
    <3>2. made' \in Nat
      BY <1>0, <2>4 DEF Sums!AttachNormals
    <3> QED BY <1>0, <3>1, <3>2, AttachedAreSound, SoundStays
  <2>5. CASE Sums!AttachColors(c)
    <3>1. cloud' = [cloud EXCEPT ![c] = [cloud[c] EXCEPT !.colors = cloud[c].points]]
      BY <2>5 DEF Sums!AttachColors
    <3>2. made' \in Nat
      BY <1>0, <2>5 DEF Sums!AttachColors
    <3> QED BY <1>0, <3>1, <3>2, AttachedAreSound, SoundStays
  <2> QED BY <1>2, <2>1, <2>2, <2>3, <2>4, <2>5
<1>3. ASSUME NEW c \in CloudName, NEW d \in CloudName,
             \/ Sums!AddCloud(c, d) \/ Sums!AddMovedCloud(c, d) \/ Sums!Assign(c, d)
             \/ Sums!MoveAssign(c, d) \/ Sums!TransformPointCloud(c, d)
      PROVE  SumsInv'
  <2>1. made' \in Nat
    BY <1>0, <1>3 DEF Sums!AddCloud, Sums!AddMovedCloud, Sums!Assign, Sums!MoveAssign,
       Sums!TransformPointCloud
  <2>2. Sound(Sums!Plus(cloud[c], cloud[d]))
    BY <1>0, PlusIsSound
  <2>3. CASE Sums!AddCloud(c, d)
    <3>1. cloud' = cloud \/ cloud' = [cloud EXCEPT ![c] = Sums!Plus(cloud[c], cloud[d])]
      BY <2>3 DEF Sums!AddCloud
    <3> QED BY <2>1, <2>2, <3>1, SoundStays
  <2>4. CASE Sums!AddMovedCloud(c, d)
    <3>1. \/ cloud' = cloud
          \/ cloud' = [cloud EXCEPT ![c] = Sums!Plus(cloud[c], cloud[d]), ![d] = Sums!Empty]
      BY <2>4 DEF Sums!AddMovedCloud
    <3> QED BY <2>1, <2>2, <3>1, SoundStays
  <2>5. CASE Sums!Assign(c, d)
    BY <1>0, <2>1, <2>5, SoundStays DEF Sums!Assign
  <2>6. CASE Sums!MoveAssign(c, d)
    <3>1. cloud' = cloud \/ cloud' = [cloud EXCEPT ![c] = cloud[d], ![d] = Sums!Empty]
      BY <2>6 DEF Sums!MoveAssign
    <3> QED BY <1>0, <2>1, <3>1, SoundStays
  <2>7. CASE Sums!TransformPointCloud(c, d)
    <3>1. cloud' = [cloud EXCEPT ![c] = [Sums!Empty EXCEPT !.points = Sums!MovedPoints(cloud[d].points)]]
      BY <2>7 DEF Sums!TransformPointCloud
    <3> QED BY <1>0, <2>1, <3>1, MovedAreSound, SoundStays
  <2> QED BY <1>3, <2>3, <2>4, <2>5, <2>6, <2>7
<1>4. ASSUME NEW b \in CloudName, NEW c \in CloudName, NEW d \in CloudName, Sums!Sum(b, c, d)
      PROVE  SumsInv'
  <2>1. cloud' = [cloud EXCEPT ![b] = Sums!Plus(cloud[c], cloud[d])] /\ made' \in Nat
    BY <1>0, <1>4 DEF Sums!Sum
  <2> QED BY <1>0, <2>1, PlusIsSound, SoundStays
<1> QED BY <1>1, <1>2, <1>3, <1>4 DEF Sums!Next

LEMMA SumsKeepTheirs ==
  ASSUME SumsInv
  PROVE  Sums!PointsKeepTheirs
BY DEF SumsInv, Theirs, Sums!PointsKeepTheirs

-------------------------------------------------------------------------------
(* The cache of signatures                                                 *)

SpfhPcs == {"idle", "test", "list", "clear", "fill", "mark", "store", "use", "over"}
Task == [pc : SpfhPcs, point : SpfhPoint \cup {0}, todo : SUBSET SpfhPoint, word : SUBSET SpfhPoint]

SpfhTyped ==
  /\ near \in [SpfhPoint -> SUBSET SpfhPoint] /\ keypoint_indices \subseteq SpfhPoint
  /\ \A p \in SpfhPoint : p \in near[p]
  /\ m_enable_parallel \in BOOLEAN /\ stage \in {"precompute", "describe", "done"}
  /\ computed \subseteq SpfhPoint /\ spfh_computed \subseteq SpfhPoint
  /\ signature \in [SpfhPoint -> {"none", "partial", "mixed", "complete"}]
  /\ task \in [SpfhPoint -> Task]

Active(t) == task[t].pc \notin {"idle", "over"}

\* A task is at its own point, or at one near its keypoint.
AtWork ==
  \A t \in SpfhPoint : Active(t) =>
    /\ stage # "done" /\ task[t].point \in SpfhPoint
    /\ stage = "precompute" => task[t].point = t /\ task[t].pc # "use"
    /\ stage = "describe" =>
         t \in keypoint_indices /\ task[t].point \in near[t] /\ task[t].todo \subseteq near[t]

Complete(p) == signature[p] = "complete" \/ Spfh!Contested(p)

\* Whose bit is set, or about to be, has a signature; and only one task counts into it.
Signed ==
  /\ \A p \in spfh_computed : Complete(p)
  /\ \A t, p \in SpfhPoint : task[t].point = p =>
       /\ task[t].pc \in {"mark", "store", "use"} => Complete(p)
       /\ task[t].pc = "fill" => signature[p] = "partial" \/ Spfh!Contested(p)

\* The words that were read, and a point that is being written.
BitsKept ==
  /\ m_enable_parallel \/ lost = {}
  /\ \A t \in SpfhPoint :
       /\ task[t].word \subseteq spfh_computed \cup lost
       /\ task[t].pc = "store" => m_enable_parallel \/ spfh_computed \subseteq task[t].word
  /\ \A t, p \in SpfhPoint :
       task[t].point = p /\ task[t].pc \in {"list", "clear", "fill"} =>
         p \notin spfh_computed \/ Spfh!Contested(p)

\* In the first stage only tasks that are over have set their bit.
SetAtTheEnd ==
  stage = "precompute" =>
    /\ \A p \in spfh_computed : task[p].pc = "over"
    /\ \A t \in SpfhPoint : \A p \in task[t].word : task[p].pc = "over"

\* What was computed first is marked, unless the bit was lost.
Precomputed ==
  /\ \A t \in SpfhPoint :
       stage = "precompute" /\ task[t].pc = "over" => t \in spfh_computed \cup lost
  /\ stage = "describe" => \A p \in Spfh!points_to_precompute : p \in spfh_computed \cup lost
  /\ \A t \in SpfhPoint :
       stage = "describe" /\ task[t].pc \in {"list", "clear", "fill"} =>
         task[t].point \notin Spfh!points_to_precompute \/ task[t].point \in lost

OneByOne == m_enable_parallel \/ \A t, u \in SpfhPoint : Active(t) /\ Active(u) => t = u

SpfhInv ==
  /\ SpfhTyped /\ AtWork /\ Precomputed /\ OneByOne
  /\ Signed /\ BitsKept /\ SetAtTheEnd

LEMMA SpfhCardinality == \A S : Spfh!Cardinality(S) = Cardinality(S)
BY Zenon DEF Spfh!Cardinality, Cardinality

\* A point that two tasks of the second stage are at is counted twice at least.
LEMMA CountedTwice ==
  ASSUME NeighboursAreInCloud, SpfhTyped, NEW p \in SpfhPoint, NEW t \in keypoint_indices,
         NEW u \in keypoint_indices, t # u, p \in near[t], p \in near[u]
  PROVE  Spfh!reference_count(p) \in Nat /\ Spfh!reference_count(p) >= 2
<1> DEFINE own == {k \in keypoint_indices : k = p}
           others == {k \in keypoint_indices : p \in near[k]}
<1>1. IsFiniteSet(SpfhPoint) /\ own \subseteq SpfhPoint /\ others \subseteq SpfhPoint
  BY DEF NeighboursAreInCloud, SpfhTyped
<1>2. IsFiniteSet(own) /\ IsFiniteSet(others)
  BY <1>1, FS_Subset
<1>3. {t, u} \subseteq others
  OBVIOUS
<1>4. Cardinality({t, u}) = 2
  <2>1. /\ IsFiniteSet({t}) /\ Cardinality({t}) = 1 /\ u \notin {t} /\ {t} \cup {u} = {t, u}
    BY FS_Singleton
  <2>2. Cardinality({t} \cup {u}) = Cardinality({t}) + 1
    BY <2>1, FS_AddElement
  <2> QED BY <2>1, <2>2
<1> HIDE DEF own, others
<1>5. Cardinality(own) \in Nat /\ Cardinality(others) \in Nat /\ 2 <= Cardinality(others)
  BY <1>2, <1>3, <1>4, FS_Subset, FS_CardinalityType
<1>6. Spfh!reference_count(p) = Cardinality(own) + Cardinality(others)
  BY SpfhCardinality DEF Spfh!reference_count, own, others
<1> QED BY <1>5, <1>6

\* Whom a task that writes meets is at a point that was counted twice.
LEMMA WritersMeet ==
  ASSUME NeighboursAreInCloud, SpfhTyped, AtWork, Precomputed, OneByOne,
         NEW t \in SpfhPoint, NEW u \in SpfhPoint, t # u, Active(t), Active(u),
         task[t].point = task[u].point, task[t].pc \in {"list", "clear", "fill"}
  PROVE  Spfh!Contested(task[t].point)
<1> DEFINE p == task[t].point
<1>1. m_enable_parallel
  BY DEF OneByOne, SpfhTyped
<1>2. stage = "describe" /\ p \in SpfhPoint
  BY DEF AtWork, SpfhTyped
<1>3. t \in keypoint_indices /\ u \in keypoint_indices /\ p \in near[t] /\ p \in near[u]
  BY <1>2 DEF AtWork
<1>4. Spfh!reference_count(p) \in Nat /\ Spfh!reference_count(p) >= 2
  BY <1>2, <1>3, CountedTwice
<1>5. p \notin Spfh!points_to_precompute \/ p \in lost
  BY <1>2 DEF Precomputed
<1>6. p \notin Spfh!points_to_precompute => ~(Spfh!reference_count(p) > 2)
  BY <1>2 DEF Spfh!points_to_precompute, Spfh!CountedOften
<1> QED BY <1>1, <1>4, <1>5, <1>6 DEF Spfh!Contested

LEMMA SpfhStarts ==
  ASSUME NeighboursAreInCloud, Spfh!Init
  PROVE  SpfhInv
<1>1. PICK c \in SpfhClouds : near = c.near /\ keypoint_indices = c.keypoints
  BY DEF Spfh!Init
<1>2. /\ m_enable_parallel \in BOOLEAN /\ stage = "precompute" /\ computed = {}
      /\ spfh_computed = {} /\ signature = [p \in SpfhPoint |-> "none"] /\ lost = {}
      /\ task = [p \in SpfhPoint |-> Spfh!Idle]
  BY DEF Spfh!Init, NeighboursAreInCloud
<1>3. Spfh!Idle \in Task /\ Spfh!Idle.pc = "idle" /\ Spfh!Idle.word = {}
  BY DEF Spfh!Idle, Task, SpfhPcs
<1>4. SpfhTyped
  BY <1>1, <1>2, <1>3 DEF SpfhTyped, NeighboursAreInCloud
<1>5. AtWork /\ Precomputed /\ OneByOne
  BY <1>2, <1>3 DEF AtWork, Active, Precomputed, OneByOne
<1>6. Signed /\ BitsKept /\ SetAtTheEnd
  BY <1>2, <1>3 DEF Signed, BitsKept, SetAtTheEnd
<1> QED BY <1>4, <1>5, <1>6 DEF SpfhInv

\* A step takes task t to record r,
Moved(t, r) ==
  /\ task' = [task EXCEPT ![t] = r] /\ task[t].pc # "over"
  /\ UNCHANGED <<near, keypoint_indices, m_enable_parallel, stage>>
  /\ m_enable_parallel \/ \A u \in SpfhPoint \ {t} : ~Active(u)
  /\ computed' \subseteq SpfhPoint /\ spfh_computed' \subseteq SpfhPoint

\* which is where a task may be,
Placed(t, r) ==
  /\ r.pc \notin {"idle", "over"} =>
       /\ stage # "done" /\ r.point \in SpfhPoint
       /\ stage = "precompute" => r.point = t /\ r.pc # "use"
       /\ stage = "describe" =>
            t \in keypoint_indices /\ r.point \in near[t] /\ r.todo \subseteq near[t]
  /\ stage = "precompute" /\ r.pc = "over" => t \in spfh_computed' \cup lost'
  /\ stage = "describe" /\ r.pc \in {"list", "clear", "fill"} =>
       r.point \notin Spfh!points_to_precompute \/ r.point \in lost'
  /\ stage = "precompute" =>
       \A p \in spfh_computed' \cup r.word : task[p].pc = "over" \/ (p = t /\ r.pc = "over")

\* writes a signature only from where it counts,
SignedBy(t, r) ==
  /\ signature' \in [SpfhPoint -> {"none", "partial", "mixed", "complete"}]
  /\ \A p \in SpfhPoint : signature'[p] = signature[p]
       \/ (p = task[t].point /\ task[t].pc \in {"clear", "fill"})
  /\ r.pc \in {"mark", "store", "use"} =>
       signature'[r.point] = "complete" \/ Spfh!Contested(r.point)
  /\ r.pc = "fill" => signature'[r.point] = "partial" \/ Spfh!Contested(r.point)

\* and sets only bits that it has read and that of its point.
SetBy(t, r) ==
  /\ lost \subseteq lost' /\ spfh_computed \cup lost \subseteq spfh_computed' \cup lost'
  /\ m_enable_parallel \/ lost' = {}
  /\ \A p \in spfh_computed' : p \in spfh_computed \/ p \in lost
       \/ (p = task[t].point /\ task[t].pc = "store")
  /\ r.word \subseteq spfh_computed' \cup lost'
  /\ r.pc = "store" => m_enable_parallel \/ spfh_computed' \subseteq r.word
  /\ r.pc \in {"list", "clear", "fill"} =>
       r.point \notin spfh_computed' \/ Spfh!Contested(r.point)

LEMMA SpfhSteps ==
  ASSUME NeighboursAreInCloud, SpfhInv, NEW t \in SpfhPoint, NEW r \in Task,
         Moved(t, r), Placed(t, r), SignedBy(t, r), SetBy(t, r)
  PROVE  SpfhInv'
<1>0. SpfhTyped /\ AtWork /\ Precomputed /\ OneByOne /\ Signed /\ BitsKept /\ SetAtTheEnd
  BY DEF SpfhInv
<1>1. task' \in [SpfhPoint -> Task] /\ task'[t] = r /\ \A u \in SpfhPoint : u # t => task'[u] = task[u]
  BY <1>0 DEF SpfhTyped, Moved
<1>2. /\ Spfh!points_to_precompute' = Spfh!points_to_precompute
      /\ \A p : Spfh!Contested(p) => Spfh!Contested(p)'
  BY DEF Moved, SetBy, Spfh!points_to_precompute, Spfh!CountedOften, Spfh!Contested,
         Spfh!reference_count
<1>3. SpfhTyped'
  BY <1>0, <1>1 DEF SpfhTyped, Moved, SignedBy
<1>4. AtWork'
  BY <1>0, <1>1 DEF AtWork, Active, Moved, Placed
<1>5. Precomputed'
  BY <1>0, <1>1, <1>2 DEF Precomputed, Moved, Placed, SetBy
<1>6. OneByOne'
  BY <1>0, <1>1 DEF OneByOne, Active, Moved
<1>7. \A p \in lost : Spfh!Contested(p)
  BY <1>0 DEF Spfh!Contested, BitsKept
<1>8. ASSUME NEW u \in SpfhPoint, u # t, Active(u), task[u].point = task[t].point,
             \/ task[t].pc \in {"list", "clear", "fill"}
             \/ task[t].pc = "store" /\ task[u].pc \in {"list", "clear", "fill"}
      PROVE  Spfh!Contested(task[u].point)
  <2>1. Active(t)
    BY <1>8 DEF Active
  <2> QED BY <1>0, <1>8, <2>1, WritersMeet
<1>9. Signed'
  <2>1. ASSUME NEW p \in spfh_computed'
        PROVE  Complete(p)'
    <3>1. Spfh!Contested(p) => Complete(p)'
      BY <1>2 DEF Complete
    <3>2. CASE signature'[p] # signature[p] /\ p \in spfh_computed
      <4>1. p = task[t].point /\ task[t].pc \in {"clear", "fill"} /\ p \in SpfhPoint
        BY <1>0, <3>2 DEF SpfhTyped, SignedBy
      <4> QED BY <1>0, <3>1, <3>2, <4>1 DEF BitsKept
    <3>3. CASE signature'[p] = signature[p] /\ p \in spfh_computed
      BY <1>0, <3>1, <3>3 DEF Signed, Complete
    <3>4. CASE p \in lost
      BY <1>7, <3>1, <3>4
    <3>5. CASE p = task[t].point /\ task[t].pc = "store"
      <4>1. p \in SpfhPoint /\ Complete(p)
        BY <1>0, <2>1, <3>5 DEF Signed, Moved
      <4>2. signature'[p] = signature[p]
        BY <3>5, <4>1 DEF SignedBy
      <4> QED BY <3>1, <4>1, <4>2 DEF Complete
    <3> QED BY <3>2, <3>3, <3>4, <3>5 DEF SetBy
  <2>2. ASSUME NEW u \in SpfhPoint, NEW p \in SpfhPoint, task'[u].point = p
        PROVE  /\ task'[u].pc \in {"mark", "store", "use"} => Complete(p)'
               /\ task'[u].pc = "fill" => signature'[p] = "partial" \/ Spfh!Contested(p)'
    <3>1. CASE u = t
      BY <1>1, <1>2, <2>2, <3>1 DEF Complete, SignedBy
    <3>2. CASE u # t /\ ~Active(u)
      BY <1>1, <3>2 DEF Active
    <3>3. CASE u # t /\ Active(u) /\ signature'[p] # signature[p]
      <4>1. task[u].point = p /\ p = task[t].point /\ task[t].pc \in {"clear", "fill"}
        BY <1>1, <2>2, <3>3 DEF SignedBy
      <4>2. Spfh!Contested(p)
        BY <1>8, <3>3, <4>1
      <4> QED BY <1>2, <4>2 DEF Complete
    <3>4. CASE u # t /\ signature'[p] = signature[p]
      BY <1>0, <1>1, <1>2, <2>2, <3>4 DEF Signed, Complete
    <3> QED BY <3>1, <3>2, <3>3, <3>4
  <2> QED BY <2>1, <2>2 DEF Signed
<1>10. BitsKept'
  <2>1. ASSUME NEW u \in SpfhPoint
        PROVE  /\ task'[u].word \subseteq spfh_computed' \cup lost'
               /\ task'[u].pc = "store" => m_enable_parallel \/ spfh_computed' \subseteq task'[u].word
    <3>1. CASE u = t
      BY <1>1, <3>1 DEF SetBy
    <3>2. CASE u # t
      BY <1>0, <1>1, <3>2 DEF BitsKept, Active, Moved, SetBy
    <3> QED BY <3>1, <3>2
  <2>2. ASSUME NEW u \in SpfhPoint, NEW p \in SpfhPoint, task'[u].point = p,
               task'[u].pc \in {"list", "clear", "fill"}, p \in spfh_computed'
        PROVE  Spfh!Contested(p)'
    <3>1. CASE u = t
      BY <1>1, <1>2, <2>2, <3>1 DEF SetBy
    <3>2. CASE u # t
      <4>1. Active(u) /\ task[u].point = p /\ task[u].pc \in {"list", "clear", "fill"}
        BY <1>1, <2>2, <3>2 DEF Active
      <4>2. p \in spfh_computed => Spfh!Contested(p)
        BY <1>0, <4>1 DEF BitsKept
      <4>3. p \in lost => Spfh!Contested(p)
        BY <1>7
      <4>4. p = task[t].point /\ task[t].pc = "store" => Spfh!Contested(p)
        BY <1>8, <3>2, <4>1
      <4> QED BY <1>2, <2>2, <4>2, <4>3, <4>4 DEF SetBy
    <3> QED BY <3>1, <3>2
  <2>3. m_enable_parallel' \/ lost' = {}
    BY DEF Moved, SetBy
  <2>4. m_enable_parallel' = m_enable_parallel
    BY DEF Moved
  <2> QED BY <2>1, <2>2, <2>3, <2>4 DEF BitsKept
<1>11. SetAtTheEnd'
  <2>1. ASSUME NEW p \in SpfhPoint, task[p].pc = "over" \/ (p = t /\ r.pc = "over")
        PROVE  task'[p].pc = "over"
    BY <1>1, <2>1 DEF Moved
  <2>2. r.word \subseteq SpfhPoint /\ \A u \in SpfhPoint : task[u].word \subseteq SpfhPoint
    BY <1>0 DEF SpfhTyped, Task
  <2>3. SUFFICES ASSUME stage = "precompute"
        PROVE  /\ \A p \in spfh_computed' : task'[p].pc = "over"
               /\ \A u \in SpfhPoint : \A p \in task'[u].word : task'[p].pc = "over"
    BY DEF SetAtTheEnd, Moved
  <2>4. \A p \in spfh_computed' : task'[p].pc = "over"
    BY <2>1, <2>3 DEF Moved, Placed
  <2>5. ASSUME NEW u \in SpfhPoint, NEW p \in task'[u].word
        PROVE  task'[p].pc = "over"
    <3>1. CASE u = t
      <4>1. p \in r.word
        BY <1>1, <2>5, <3>1
      <4> QED BY <2>1, <2>2, <2>3, <4>1 DEF Placed
    <3>2. CASE u # t
      <4>1. p \in task[u].word
        BY <1>1, <2>5, <3>2
      <4> QED BY <1>0, <2>1, <2>2, <2>3, <4>1 DEF SetAtTheEnd
    <3> QED BY <3>1, <3>2
  <2> QED BY <2>4, <2>5
<1> QED BY <1>3, <1>4, <1>5, <1>6, <1>9, <1>10, <1>11 DEF SpfhInv

\* What the steps of a task that only goes on to another place have in common.
LEMMA SpfhGoes ==
  ASSUME SpfhInv, NEW t \in SpfhPoint, NEW to \in SpfhPcs, Spfh!Goes(t, to)
  PROVE  \E r \in Task : /\ task' = [task EXCEPT ![t] = r] /\ r.pc = to
                        /\ r.point = task[t].point /\ r.todo = task[t].todo /\ r.word = task[t].word
<1>1. task[t] \in Task /\ task \in [SpfhPoint -> Task]
  BY DEF SpfhInv, SpfhTyped
<1> DEFINE r == [pc |-> to, point |-> task[t].point, todo |-> task[t].todo, word |-> task[t].word]
<1>2. r \in Task
  BY <1>1 DEF Task
<1>3. [task[t] EXCEPT !.pc = to] = r
  BY <1>1 DEF Task
<1>4. task' = [task EXCEPT ![t] = [task[t] EXCEPT !.pc = to]]
  BY DEF Spfh!Goes
<1> QED BY <1>2, <1>3, <1>4

\* What a task at work keeps when it stays where it is.
LEMMA SpfhAtWork ==
  ASSUME SpfhInv, NEW t \in SpfhPoint, Active(t)
  PROVE  /\ stage # "done" /\ task[t].point \in SpfhPoint
         /\ stage = "precompute" => task[t].point = t /\ task[t].pc # "use"
         /\ stage = "describe" =>
              t \in keypoint_indices /\ task[t].point \in near[t] /\ task[t].todo \subseteq near[t]
         /\ m_enable_parallel \/ \A u \in SpfhPoint \ {t} : ~Active(u)
         /\ task[t].pc # "over" /\ (m_enable_parallel \/ lost = {})
         /\ task[t].word \subseteq spfh_computed \cup lost
         /\ computed \subseteq SpfhPoint /\ spfh_computed \subseteq SpfhPoint
         /\ signature \in [SpfhPoint -> {"none", "partial", "mixed", "complete"}]
         /\ stage = "precompute" =>
              \A p \in spfh_computed \cup task[t].word : task[p].pc = "over"
<1>1. SpfhTyped /\ AtWork /\ OneByOne /\ BitsKept /\ SetAtTheEnd
  BY DEF SpfhInv
<1>2. task[t].pc # "over"
  BY DEF Active
<1> QED BY <1>1, <1>2 DEF SpfhTyped, AtWork, OneByOne, BitsKept, SetAtTheEnd

LEMMA SpfhTaskStarts ==
  ASSUME NeighboursAreInCloud, SpfhInv, NEW t \in SpfhPoint, Spfh!Start(t)
  PROVE  SpfhInv'
<1>0. SpfhTyped /\ AtWork /\ Precomputed /\ OneByOne /\ Signed /\ BitsKept /\ SetAtTheEnd
  BY DEF SpfhInv
<1> DEFINE r == [pc |-> "test", point |-> t, word |-> {},
                 todo |-> IF stage = "precompute" THEN {} ELSE near[t] \ {t}]
<1>1. /\ task' = [task EXCEPT ![t] = r] /\ stage # "done" /\ t \in Spfh!Work
      /\ m_enable_parallel \/ \A u \in SpfhPoint : task[u].pc \in {"idle", "over"}
      /\ task[t].pc = "idle"
      /\ UNCHANGED <<near, keypoint_indices, m_enable_parallel, stage, computed, spfh_computed,
                     signature, lost>>
  BY DEF Spfh!Start, Spfh!call_vars
<1>2. r \in Task
  BY <1>0 DEF SpfhTyped, Task, SpfhPcs
<1>3. r.pc = "test" /\ r.point = t /\ r.word = {} /\ r.todo \subseteq near[t]
  BY <1>0 DEF SpfhTyped
<1>4. t \in near[t] /\ (stage = "describe" => t \in keypoint_indices)
  BY <1>0, <1>1 DEF SpfhTyped, Spfh!Work
<1>5. m_enable_parallel \/ \A u \in SpfhPoint \ {t} : ~Active(u)
  BY <1>1 DEF Active
<1>6. /\ m_enable_parallel \/ lost = {}
      /\ stage = "precompute" => \A p \in spfh_computed : task[p].pc = "over"
  BY <1>0 DEF BitsKept, SetAtTheEnd
<1> HIDE DEF r
<1>7. Moved(t, r)
  BY <1>0, <1>1, <1>5 DEF Moved, SpfhTyped
<1>8. Placed(t, r)
  BY <1>1, <1>3, <1>4, <1>6 DEF Placed
<1>9. SignedBy(t, r) /\ SetBy(t, r)
  BY <1>0, <1>1, <1>3, <1>6 DEF SignedBy, SetBy, SpfhTyped
<1> QED BY <1>2, <1>7, <1>8, <1>9, SpfhSteps

LEMMA SpfhTests ==
  ASSUME NeighboursAreInCloud, SpfhInv, NEW t \in SpfhPoint, Spfh!Test(t)
  PROVE  SpfhInv'
<1>0. SpfhTyped /\ AtWork /\ Precomputed /\ OneByOne /\ Signed /\ BitsKept /\ SetAtTheEnd
  BY DEF SpfhInv
<1> DEFINE p == task[t].point
           to == IF stage = "describe" /\ Spfh!Known(p) THEN "use"
                 ELSE IF p \notin computed THEN "list" ELSE "clear"
<1>1. /\ task[t].pc = "test" /\ Spfh!Goes(t, to)
      /\ UNCHANGED <<near, keypoint_indices, m_enable_parallel, stage, computed, spfh_computed,
                     signature, lost>>
  BY DEF Spfh!Test, Spfh!call_vars
<1>2. to \in SpfhPcs
  BY DEF SpfhPcs
<1>3. PICK r \in Task : /\ task' = [task EXCEPT ![t] = r] /\ r.pc = to
                       /\ r.point = task[t].point /\ r.todo = task[t].todo /\ r.word = task[t].word
  BY <1>1, <1>2, SpfhGoes
<1>4. Active(t)
  BY <1>1 DEF Active
<1>5. to = "use" => Complete(p)
  BY <1>0 DEF Spfh!Known, Signed
<1>6. to \in {"use", "list", "clear"} /\ (stage = "precompute" => to # "use")
  OBVIOUS
<1>7. stage = "describe" /\ to \in {"list", "clear"} =>
        p \notin Spfh!points_to_precompute \/ p \in lost
  BY <1>0 DEF Spfh!Known, Precomputed
<1>8. to \in {"list", "clear"} => p \notin spfh_computed
  BY <1>0, <1>1, <1>4, SpfhAtWork DEF Spfh!Known, SpfhTyped
<1> HIDE DEF to, p
<1>9. /\ r.pc \in {"use", "list", "clear"} /\ (stage = "precompute" => r.pc # "use")
      /\ (r.pc = "use" => signature[r.point] = "complete" \/ Spfh!Contested(r.point))
      /\ (r.pc \in {"list", "clear"} => r.point \notin spfh_computed)
      /\ (stage = "describe" /\ r.pc \in {"list", "clear"} =>
             r.point \notin Spfh!points_to_precompute \/ r.point \in lost)
  BY <1>3, <1>5, <1>6, <1>7, <1>8 DEF p, Complete
<1>10. Moved(t, r)
  BY <1>1, <1>3, <1>4, SpfhAtWork DEF Moved
<1>11. Placed(t, r)
  BY <1>1, <1>3, <1>4, <1>9, SpfhAtWork DEF Placed
<1>12. SignedBy(t, r) /\ SetBy(t, r)
  BY <1>1, <1>3, <1>4, <1>9, SpfhAtWork DEF SignedBy, SetBy
<1> QED BY <1>3, <1>10, <1>11, <1>12, SpfhSteps

\* A step from list to clear, from there to fill, and from there to mark.
LEMMA SpfhWrites ==
  ASSUME NeighboursAreInCloud, SpfhInv, NEW t \in SpfhPoint,
         Spfh!Listed(t) \/ Spfh!Cleared(t) \/ Spfh!Filled(t)
  PROVE  SpfhInv'
<1>0. SpfhTyped /\ AtWork /\ Precomputed /\ OneByOne /\ Signed /\ BitsKept /\ SetAtTheEnd
  BY DEF SpfhInv
<1>1. Active(t) /\ task[t].pc \in {"list", "clear", "fill"}
  BY DEF Active, Spfh!Listed, Spfh!Cleared, Spfh!Filled
<1>2. task[t].point \in SpfhPoint
  BY <1>1, SpfhAtWork
<1>3. Spfh!AtOnce(t) => Spfh!Contested(task[t].point)
  <2>1. ASSUME NEW u \in SpfhPoint \ {t}, task[u].pc = "fill", task[u].point = task[t].point
        PROVE  Spfh!Contested(task[t].point)
    <3>1. Active(u) /\ u # t
      BY <2>1 DEF Active
    <3> QED BY <1>0, <1>1, <2>1, <3>1, WritersMeet
  <2> QED BY <2>1 DEF Spfh!AtOnce
<1>4. task[t].pc = "fill" => signature[task[t].point] = "partial" \/ Spfh!Contested(task[t].point)
  BY <1>0, <1>2 DEF Signed
<1>5. PICK to \in {"clear", "fill", "mark"} :
        /\ Spfh!Goes(t, to) /\ computed' \subseteq computed \cup {task[t].point}
        /\ to = "fill" => signature'[task[t].point] = "partial" \/ Spfh!Contested(task[t].point)
        /\ to = "mark" => signature'[task[t].point] = "complete" \/ Spfh!Contested(task[t].point)
        /\ signature' \in [SpfhPoint -> {"none", "partial", "mixed", "complete"}]
        /\ \A p \in SpfhPoint : signature'[p] = signature[p]
             \/ (p = task[t].point /\ task[t].pc \in {"clear", "fill"})
        /\ UNCHANGED <<near, keypoint_indices, m_enable_parallel, stage, spfh_computed, lost>>
  <2>1. CASE Spfh!Listed(t)
    <3>1. /\ Spfh!Goes(t, "clear") /\ computed' = computed \cup {task[t].point}
          /\ UNCHANGED <<near, keypoint_indices, m_enable_parallel, stage, spfh_computed,
                         signature, lost>>
      BY <2>1 DEF Spfh!Listed, Spfh!call_vars
    <3>2. "clear" \in {"clear", "fill", "mark"} /\ "clear" # "fill" /\ "clear" # "mark"
      OBVIOUS
    <3>3. /\ signature' \in [SpfhPoint -> {"none", "partial", "mixed", "complete"}]
          /\ \A p \in SpfhPoint : signature'[p] = signature[p]
      BY <1>0, <3>1 DEF SpfhTyped
    <3> QED BY <3>1, <3>2, <3>3
  <2>2. CASE Spfh!Cleared(t)
    <3>1. /\ Spfh!Goes(t, "fill") /\ task[t].pc = "clear"
          /\ signature' = [signature EXCEPT ![task[t].point] =
                             IF Spfh!AtOnce(t) THEN "mixed" ELSE "partial"]
          /\ UNCHANGED <<near, keypoint_indices, m_enable_parallel, stage, computed, spfh_computed,
                         lost>>
      BY <2>2 DEF Spfh!Cleared, Spfh!call_vars
    <3>2. signature'[task[t].point] = "partial" \/ Spfh!Contested(task[t].point)
      BY <1>0, <1>2, <1>3, <3>1 DEF SpfhTyped
    <3> QED BY <1>0, <1>2, <3>1, <3>2 DEF SpfhTyped
  <2>3. CASE Spfh!Filled(t)
    <3>1. /\ Spfh!Goes(t, "mark") /\ task[t].pc = "fill"
          /\ signature' = [signature EXCEPT ![task[t].point] =
                             IF @ = "mixed" THEN @ ELSE "complete"]
          /\ UNCHANGED <<near, keypoint_indices, m_enable_parallel, stage, computed, spfh_computed,
                         lost>>
      BY <2>3 DEF Spfh!Filled, Spfh!call_vars
    <3>2. signature'[task[t].point] = "complete" \/ Spfh!Contested(task[t].point)
      BY <1>0, <1>2, <1>4, <3>1 DEF SpfhTyped
    <3> QED BY <1>0, <1>2, <3>1, <3>2 DEF SpfhTyped
  <2> QED BY <2>1, <2>2, <2>3
<1>6. to \in SpfhPcs
  BY DEF SpfhPcs
<1>7. PICK r \in Task : /\ task' = [task EXCEPT ![t] = r] /\ r.pc = to
                       /\ r.point = task[t].point /\ r.todo = task[t].todo /\ r.word = task[t].word
  BY <1>5, <1>6, SpfhGoes
<1>8. /\ stage = "describe" /\ r.pc \in {"list", "clear", "fill"} =>
           r.point \notin Spfh!points_to_precompute \/ r.point \in lost
      /\ r.point \notin spfh_computed \/ Spfh!Contested(r.point)
  BY <1>0, <1>1, <1>2, <1>7 DEF Precomputed, BitsKept
<1>9. computed' \subseteq SpfhPoint
  BY <1>0, <1>2, <1>5 DEF SpfhTyped
<1>10. Moved(t, r)
  BY <1>1, <1>5, <1>7, <1>9, SpfhAtWork DEF Moved
<1>11. Placed(t, r)
  BY <1>1, <1>5, <1>7, <1>8, SpfhAtWork DEF Placed
<1>12. SignedBy(t, r)
  BY <1>5, <1>7 DEF SignedBy
<1>13. SetBy(t, r)
  BY <1>1, <1>5, <1>7, <1>8, SpfhAtWork DEF SetBy
<1> QED BY <1>10, <1>11, <1>12, <1>13, SpfhSteps

LEMMA SpfhMarks ==
  ASSUME NeighboursAreInCloud, SpfhInv, NEW t \in SpfhPoint, Spfh!Mark(t)
  PROVE  SpfhInv'
<1>0. SpfhTyped /\ AtWork /\ Precomputed /\ OneByOne /\ Signed /\ BitsKept /\ SetAtTheEnd
  BY DEF SpfhInv
<1>1. /\ task[t].pc = "mark" /\ task' = [task EXCEPT ![t].pc = "store", ![t].word = spfh_computed]
      /\ UNCHANGED <<near, keypoint_indices, m_enable_parallel, stage, computed, spfh_computed,
                     signature, lost>>
  BY DEF Spfh!Mark, Spfh!call_vars
<1> DEFINE r == [pc |-> "store", point |-> task[t].point, todo |-> task[t].todo, word |-> spfh_computed]
<1>2. task[t] \in Task /\ r \in Task
  BY <1>0 DEF SpfhTyped, Task, SpfhPcs
<1>3. task' = [task EXCEPT ![t] = r]
  <2>1. task[t] = [pc |-> task[t].pc, point |-> task[t].point, todo |-> task[t].todo, word |-> task[t].word]
    BY <1>2 DEF Task
  <2>2. PICK e : e = [task[t] EXCEPT !.pc = "store", !.word = spfh_computed]
    OBVIOUS
  <2>3. e = r
    BY <2>1, <2>2
  <2>4. task' = [task EXCEPT ![t] = [task[t] EXCEPT !.pc = "store", !.word = spfh_computed]]
    BY <1>1
  <2> QED BY <2>2, <2>3, <2>4
<1>4. /\ r.pc = "store" /\ r.point = task[t].point /\ r.todo = task[t].todo
      /\ r.word = spfh_computed
  OBVIOUS
<1> HIDE DEF r
<1>5. Active(t) /\ task[t].point \in SpfhPoint
  BY <1>1, SpfhAtWork DEF Active
<1>6. signature[r.point] = "complete" \/ Spfh!Contested(r.point)
  BY <1>0, <1>1, <1>4, <1>5 DEF Signed, Complete
<1>7. Moved(t, r)
  BY <1>1, <1>3, <1>5, SpfhAtWork DEF Moved
<1>8. Placed(t, r)
  BY <1>1, <1>4, <1>5, SpfhAtWork DEF Placed
<1>9. SignedBy(t, r) /\ SetBy(t, r)
  BY <1>1, <1>4, <1>5, <1>6, SpfhAtWork DEF SignedBy, SetBy
<1> QED BY <1>2, <1>7, <1>8, <1>9, SpfhSteps

LEMMA SpfhStores ==
  ASSUME NeighboursAreInCloud, SpfhInv, NEW t \in SpfhPoint, Spfh!Store(t)
  PROVE  SpfhInv'
<1>0. SpfhTyped /\ AtWork /\ Precomputed /\ OneByOne /\ Signed /\ BitsKept /\ SetAtTheEnd
  BY DEF SpfhInv
<1> DEFINE word == task[t].word \cup {task[t].point}
           to == IF stage = "precompute" THEN "over" ELSE "use"
<1>1. /\ task[t].pc = "store" /\ spfh_computed' = word /\ lost' = lost \cup (spfh_computed \ word)
      /\ Spfh!Goes(t, to)
      /\ UNCHANGED <<near, keypoint_indices, m_enable_parallel, stage, computed, signature>>
  BY DEF Spfh!Store, Spfh!call_vars
<1>2. to \in SpfhPcs /\ (to = "over" <=> stage = "precompute") /\ to \in {"over", "use"}
  BY DEF SpfhPcs
<1> HIDE DEF to
<1>3. PICK r \in Task : /\ task' = [task EXCEPT ![t] = r] /\ r.pc = to
                       /\ r.point = task[t].point /\ r.todo = task[t].todo /\ r.word = task[t].word
  BY <1>1, <1>2, SpfhGoes
<1>4. Active(t) /\ task[t].point \in SpfhPoint
  BY <1>1, SpfhAtWork DEF Active
<1>5. signature[r.point] = "complete" \/ Spfh!Contested(r.point)
  BY <1>0, <1>1, <1>3, <1>4 DEF Signed, Complete
<1>6. m_enable_parallel \/ lost' = {}
  BY <1>0, <1>1 DEF BitsKept
<1>7. /\ \A p \in spfh_computed' : p \in spfh_computed \/ p \in lost
           \/ (p = task[t].point /\ task[t].pc = "store")
      /\ spfh_computed' \subseteq SpfhPoint /\ lost \subseteq lost'
      /\ spfh_computed \cup lost \subseteq spfh_computed' \cup lost'
      /\ r.point \in spfh_computed' /\ r.word \subseteq spfh_computed' \cup lost'
  <2>1. task[t].word \subseteq spfh_computed \cup lost /\ task[t].word \subseteq SpfhPoint
    BY <1>0 DEF BitsKept, SpfhTyped, Task
  <2> QED BY <1>1, <1>3, <1>4, <2>1
<1>8. stage = "precompute" =>
        \A p \in spfh_computed' \cup r.word : task[p].pc = "over" \/ (p = t /\ r.pc = "over")
  BY <1>1, <1>2, <1>3, <1>4, SpfhAtWork
<1>9. stage = "precompute" => t \in spfh_computed'
  BY <1>3, <1>4, <1>7, SpfhAtWork
<1> HIDE DEF word
<1>10. Moved(t, r)
  BY <1>1, <1>3, <1>4, <1>7, SpfhAtWork DEF Moved
<1>11. Placed(t, r)
  BY <1>1, <1>2, <1>3, <1>4, <1>8, <1>9, SpfhAtWork DEF Placed
<1>12. SignedBy(t, r) /\ SetBy(t, r)
  BY <1>1, <1>2, <1>3, <1>4, <1>5, <1>6, <1>7, SpfhAtWork DEF SignedBy, SetBy
<1> QED BY <1>3, <1>10, <1>11, <1>12, SpfhSteps

LEMMA SpfhUses ==
  ASSUME NeighboursAreInCloud, SpfhInv, NEW t \in SpfhPoint, Spfh!Use(t)
  PROVE  SpfhInv'
<1>1. /\ task[t].pc = "use"
      /\ UNCHANGED <<near, keypoint_indices, m_enable_parallel, stage, computed, spfh_computed,
                     signature, lost>>
  BY DEF Spfh!Use, Spfh!call_vars
<1>2. Active(t) /\ task[t] \in Task
  BY <1>1 DEF Active, SpfhInv, SpfhTyped
<1>3. stage = "describe"
  BY <1>1, <1>2, SpfhAtWork DEF SpfhInv, SpfhTyped
<1>4. CASE task[t].todo = {}
  <2>1. Spfh!Goes(t, "over") /\ "over" \in SpfhPcs
    BY <1>4 DEF Spfh!Use, SpfhPcs
  <2>2. PICK r \in Task : /\ task' = [task EXCEPT ![t] = r] /\ r.pc = "over"
                         /\ r.point = task[t].point /\ r.todo = task[t].todo /\ r.word = task[t].word
    BY <2>1, SpfhGoes
  <2>3. Moved(t, r)
    BY <1>1, <1>2, <2>2, SpfhAtWork DEF Moved
  <2>4. Placed(t, r)
    BY <1>3, <2>2 DEF Placed
  <2>5. SignedBy(t, r) /\ SetBy(t, r)
    BY <1>1, <1>2, <2>2, SpfhAtWork DEF SignedBy, SetBy
  <2> QED BY <2>3, <2>4, <2>5, SpfhSteps
<1>5. CASE task[t].todo # {}
  <2>1. PICK p \in task[t].todo :
          task' = [task EXCEPT ![t] = [pc |-> "test", point |-> p, word |-> {}, todo |-> @.todo \ {p}]]
    BY <1>5 DEF Spfh!Use
  <2> DEFINE r == [pc |-> "test", point |-> p, word |-> {}, todo |-> task[t].todo \ {p}]
  <2>2. task' = [task EXCEPT ![t] = r]
    BY <2>1
  <2>3. p \in SpfhPoint /\ r \in Task
    BY <1>2 DEF Task, SpfhPcs
  <2>4. r.pc = "test" /\ r.point = p /\ r.word = {} /\ r.todo \subseteq task[t].todo
    OBVIOUS
  <2> HIDE DEF r
  <2>5. t \in keypoint_indices /\ r.point \in near[t] /\ r.todo \subseteq near[t]
    BY <1>2, <1>3, <2>4, SpfhAtWork
  <2>6. Moved(t, r)
    BY <1>1, <1>2, <2>2, SpfhAtWork DEF Moved
  <2>7. Placed(t, r)
    BY <1>3, <2>3, <2>4, <2>5 DEF Placed
  <2>8. SignedBy(t, r) /\ SetBy(t, r)
    BY <1>1, <1>2, <2>4, SpfhAtWork DEF SignedBy, SetBy
  <2> QED BY <2>3, <2>6, <2>7, <2>8, SpfhSteps
<1> QED BY <1>4, <1>5

LEMMA SpfhNextStage ==
  ASSUME SpfhInv, Spfh!NextStage
  PROVE  SpfhInv'
<1>0. SpfhTyped /\ AtWork /\ Precomputed /\ OneByOne /\ Signed /\ BitsKept /\ SetAtTheEnd
  BY DEF SpfhInv
<1>1. /\ stage # "done" /\ \A t \in Spfh!Work : task[t].pc = "over"
      /\ stage' = IF stage = "precompute" THEN "describe" ELSE "done"
      /\ task' = [p \in SpfhPoint |-> Spfh!Idle]
      /\ UNCHANGED <<near, keypoint_indices, m_enable_parallel, computed, spfh_computed,
                     signature, lost>>
  BY DEF Spfh!NextStage, Spfh!call_vars
<1>2. Spfh!Idle \in Task /\ Spfh!Idle.pc = "idle" /\ Spfh!Idle.word = {}
  BY DEF Spfh!Idle, Task, SpfhPcs
<1>3. /\ Spfh!points_to_precompute' = Spfh!points_to_precompute
      /\ \A p : Spfh!Contested(p) => Spfh!Contested(p)'
  BY <1>1 DEF Spfh!points_to_precompute, Spfh!CountedOften, Spfh!Contested, Spfh!reference_count
<1>4. SpfhTyped'
  BY <1>0, <1>1, <1>2 DEF SpfhTyped
<1>5. AtWork' /\ OneByOne'
  BY <1>1, <1>2 DEF AtWork, OneByOne, Active
<1>6. Signed' /\ BitsKept'
  <2>1. \A p \in spfh_computed : Complete(p) => Complete(p)'
    BY <1>1, <1>3 DEF Complete
  <2> QED BY <1>0, <1>1, <1>2, <2>1 DEF Signed, BitsKept
<1>7. stage = "precompute" => \A p \in Spfh!points_to_precompute : p \in spfh_computed \cup lost
  <2>1. Spfh!points_to_precompute \subseteq SpfhPoint
    BY DEF Spfh!points_to_precompute
  <2> QED BY <1>0, <1>1, <2>1 DEF Precomputed, Spfh!Work
<1>8. Precomputed' /\ SetAtTheEnd'
  BY <1>1, <1>2, <1>3, <1>7 DEF Precomputed, SetAtTheEnd
<1> QED BY <1>4, <1>5, <1>6, <1>8 DEF SpfhInv

LEMMA SpfhKeeps ==
  ASSUME NeighboursAreInCloud, SpfhInv, [Spfh!Next]_(Spfh!vars)
  PROVE  SpfhInv'
<1>1. CASE UNCHANGED Spfh!vars
  <2>1. UNCHANGED <<near, keypoint_indices, m_enable_parallel, stage, computed, spfh_computed,
                    signature, task, lost>>
    BY <1>1 DEF Spfh!vars, Spfh!call_vars
  <2>2. /\ Spfh!points_to_precompute' = Spfh!points_to_precompute
        /\ \A p : Spfh!Contested(p)' <=> Spfh!Contested(p)
    BY <2>1 DEF Spfh!points_to_precompute, Spfh!CountedOften, Spfh!Contested, Spfh!reference_count
  <2>3. SpfhTyped' /\ AtWork' /\ Precomputed' /\ OneByOne'
    BY <2>1, <2>2 DEF SpfhInv, SpfhTyped, AtWork, Active, Precomputed, OneByOne
  <2>4. Signed' /\ BitsKept' /\ SetAtTheEnd'
    BY <2>1, <2>2 DEF SpfhInv, Signed, Complete, BitsKept, SetAtTheEnd
  <2> QED BY <2>3, <2>4 DEF SpfhInv
<1> QED BY <1>1, SpfhTaskStarts, SpfhTests, SpfhWrites, SpfhMarks, SpfhStores, SpfhUses,
           SpfhNextStage DEF Spfh!Next

LEMMA SpfhMeets ==
  ASSUME NeighboursAreInCloud, SpfhInv
  PROVE  Spfh!TypeOK /\ Spfh!MeetOnlyWhereCountedTwice
<1>0. SpfhTyped /\ AtWork /\ Precomputed /\ OneByOne /\ Signed
  BY DEF SpfhInv
<1>1. Spfh!TypeOK
  <2>1. \A t \in SpfhPoint : task[t].todo \subseteq SpfhPoint /\ task[t].word \subseteq SpfhPoint
    BY <1>0 DEF SpfhTyped, Task
  <2> QED BY <1>0, <2>1 DEF SpfhTyped, Spfh!TypeOK
<1>2. ASSUME NEW p \in Spfh!Raced
      PROVE  Spfh!Contested(p)
  <2>1. PICK t \in SpfhPoint, u \in SpfhPoint :
          /\ t # u /\ task[t].point = p /\ task[u].point = p
          /\ \/ task[t].pc = "list" /\ task[u].pc \in {"list", "clear", "fill"}
             \/ task[t].pc \in {"clear", "fill"} /\ task[u].pc \in {"clear", "fill", "use"}
    BY <1>2 DEF Spfh!Raced
  <2>2. Active(t) /\ Active(u) /\ task[t].pc \in {"list", "clear", "fill"}
    BY <2>1 DEF Active
  <2> QED BY <1>0, <2>1, <2>2, WritersMeet
<1>3. ASSUME NEW t \in SpfhPoint, task[t].pc = "use"
      PROVE  signature[task[t].point] = "complete" \/ Spfh!Contested(task[t].point)
  <2>1. task[t].point \in SpfhPoint
    BY <1>3, SpfhAtWork DEF Active
  <2> QED BY <1>0, <1>3, <2>1 DEF Signed, Complete
<1> QED BY <1>1, <1>2, <1>3 DEF Spfh!MeetOnlyWhereCountedTwice

-------------------------------------------------------------------------------
(* Chunks                                                                  *)

\* X cuts 0 .. n - 1 into pieces.
Partition(X, n) ==
  /\ UNION X = 0 .. n - 1 /\ {} \notin X
  /\ \A c, d \in X : c # d => c \cap d = {}

LEMMA InPiece ==
  ASSUME NEW a \in Nat, NEW b \in Nat, NEW x \in a .. b - 1
  PROVE  x \in Int /\ a <= x /\ x < b
OBVIOUS

LEMMA Slices ==
  ASSUME NEW n \in Nat, NEW m \in Nat, NEW lo, NEW hi, NEW X,
         \A c : c \in X <=> c # {} /\ \E i \in 0 .. m - 1 : c = lo[i] .. hi[i] - 1,
         \A i \in 0 .. m - 1 : lo[i] \in Nat /\ hi[i] \in Nat /\ hi[i] <= n,
         \A i, j \in 0 .. m - 1 : i < j => hi[i] <= lo[j],
         \A x \in 0 .. n - 1 : \E i \in 0 .. m - 1 : lo[i] <= x /\ x < hi[i]
  PROVE  Partition(X, n)
<1>1. ASSUME NEW c \in X, NEW x \in c PROVE x \in 0 .. n - 1
  <2>1. PICK i \in 0 .. m - 1 : c = lo[i] .. hi[i] - 1
    OBVIOUS
  <2>2. lo[i] \in Nat /\ hi[i] \in Nat /\ hi[i] <= n
    OBVIOUS
  <2>3. x \in Int /\ lo[i] <= x /\ x < hi[i]
    BY <2>1, <2>2, InPiece
  <2> QED BY <2>2, <2>3
<1>2. ASSUME NEW x \in 0 .. n - 1 PROVE x \in UNION X
  <2>1. PICK i \in 0 .. m - 1 : lo[i] <= x /\ x < hi[i]
    OBVIOUS
  <2>2. x \in lo[i] .. hi[i] - 1
    BY <2>1
  <2> QED BY <2>2
<1>3. ASSUME NEW c \in X, NEW d \in X, c # d, NEW x \in c \cap d PROVE FALSE
  <2>1. PICK i \in 0 .. m - 1 : c = lo[i] .. hi[i] - 1
    OBVIOUS
  <2>2. PICK j \in 0 .. m - 1 : d = lo[j] .. hi[j] - 1
    OBVIOUS
  <2>3. i # j
    BY <1>3, <2>1, <2>2
  <2>4. x \in Int /\ lo[i] <= x /\ x < hi[i] /\ lo[j] <= x /\ x < hi[j]
    <3>1. x \in lo[i] .. hi[i] - 1 /\ x \in lo[j] .. hi[j] - 1
      BY <1>3, <2>1, <2>2
    <3>2. lo[i] \in Nat /\ hi[i] \in Nat /\ lo[j] \in Nat /\ hi[j] \in Nat
      OBVIOUS
    <3> QED BY <3>1, <3>2, InPiece
  <2>5. CASE i < j
    <3>1. hi[i] <= lo[j]
      BY <2>5
    <3> QED BY <2>4, <3>1
  <2>6. CASE j < i
    <3>1. hi[j] <= lo[i]
      BY <2>6
    <3> QED BY <2>4, <3>1
  <2> QED BY <2>3, <2>5, <2>6
<1> QED BY <1>1, <1>2, <1>3 DEF Partition

LEMMA CeilFacts ==
  ASSUME NEW a \in Nat, NEW b \in Nat \ {0}
  PROVE  Chunked!Ceil(a, b) \in Nat /\ Chunked!Ceil(a, b) * b >= a
<1> DEFINE q == (a + b - 1) \div b
<1>1. q \in Int /\ b * q <= a + b - 1 /\ a + b - 1 < b * q + b
  OBVIOUS
<1>2. q \in Nat
  OBVIOUS
<1> HIDE DEF q
<1>3. q * b >= a
  BY <1>1, <1>2
<1> QED BY <1>2, <1>3 DEF Chunked!Ceil, q

LEMMA OfTwo ==
  ASSUME NEW a \in Int, NEW b \in Int
  PROVE  /\ Chunked!Max({a, b}) = IF a >= b THEN a ELSE b
         /\ Chunked!Min({a, b}) = IF a <= b THEN a ELSE b
<1> DEFINE most == IF a >= b THEN a ELSE b
           least_ == IF a <= b THEN a ELSE b
<1>1. most \in {a, b} /\ \A y \in {a, b} : most >= y
  OBVIOUS
<1>2. \A x \in {a, b} : (\A y \in {a, b} : x >= y) => x = most
  OBVIOUS
<1>3. least_ \in {a, b} /\ \A y \in {a, b} : least_ <= y
  OBVIOUS
<1>4. \A x \in {a, b} : (\A y \in {a, b} : x <= y) => x = least_
  OBVIOUS
<1> HIDE DEF most, least_
<1>5. Chunked!Max({a, b}) = most
  BY <1>1, <1>2 DEF Chunked!Max
<1>6. Chunked!Min({a, b}) = least_
  BY <1>3, <1>4 DEF Chunked!Min
<1> QED BY <1>5, <1>6 DEF most, least_

\* Pieces of one size, as many as are needed.
LEMMA CutPartition ==
  ASSUME NEW n \in Nat, NEW size \in Nat, NEW count \in Nat, size > 0 \/ n = 0, count * size >= n
  PROVE  Partition(Chunked!Cut(n, size, count), n)
<1> DEFINE lo == [i \in 0 .. count - 1 |-> i * size]
           hi == [i \in 0 .. count - 1 |-> IF (i + 1) * size <= n THEN (i + 1) * size ELSE n]
<1>1. \A i \in 0 .. count - 1 : /\ i \in Nat /\ i + 1 \in Nat
                                /\ i * size \in Nat /\ (i + 1) * size \in Nat
                                /\ (i + 1) * size = i * size + size
  BY Products
<1> DEFINE X == Chunked!Cut(n, size, count)
<1>2. \A c : c \in X <=> c # {} /\ \E i \in 0 .. count - 1 : c = lo[i] .. hi[i] - 1
  <2>1. \A i \in 0 .. count - 1 :
          Chunked!Upto(i * size, Chunked!Min({(i + 1) * size, n})) = lo[i] .. hi[i] - 1
    <3> TAKE i \in 0 .. count - 1
    <3>1. Chunked!Min({(i + 1) * size, n}) = hi[i] /\ lo[i] = i * size
      <4> DEFINE b == (i + 1) * size
      <4>1. b \in Int /\ hi[i] = IF b <= n THEN b ELSE n
        BY <1>1
      <4> HIDE DEF b, hi
      <4>2. Chunked!Min({b, n}) = hi[i]
        BY <4>1, OfTwo
      <4> QED BY <4>2 DEF b
    <3> HIDE DEF lo, hi
    <3> QED BY <3>1 DEF Chunked!Upto
  <2>2. Chunked!Upto(0, count) = 0 .. count - 1
    BY DEF Chunked!Upto
  <2> HIDE DEF lo, hi
  <2> QED BY <2>1, <2>2 DEF Chunked!Cut
<1>3. \A i \in 0 .. count - 1 : lo[i] \in Nat /\ hi[i] \in Nat /\ hi[i] <= n
  BY <1>1
<1>4. ASSUME NEW i \in 0 .. count - 1, NEW j \in 0 .. count - 1, i < j PROVE hi[i] <= lo[j]
  <2>1. i + 1 \in Nat /\ j \in Nat /\ i + 1 <= j
    BY <1>4
  <2>2. (i + 1) * size <= j * size
    BY <2>1, Products
  <2> QED BY <1>1, <2>2
<1>5. ASSUME NEW x \in 0 .. n - 1 PROVE \E i \in 0 .. count - 1 : lo[i] <= x /\ x < hi[i]
  <2>1. size \in Nat \ {0}
    OBVIOUS
  <2> DEFINE i == x \div size
  <2>2. i \in Nat /\ size * i <= x /\ x < size * i + size
    BY <2>1
  <2> HIDE DEF i
  <2>3. i * size <= x /\ x < i * size + size
    BY <2>2
  <2>4. i < count
    <3> SUFFICES ASSUME count <= i PROVE FALSE
      BY <2>2
    <3>1. count * size <= i * size
      BY <2>2, Products
    <3> QED BY <2>2, <2>3, <3>1
  <2>5. i \in 0 .. count - 1
    BY <2>2, <2>4
  <2>6. lo[i] <= x /\ x < hi[i]
    BY <1>1, <2>3, <2>5
  <2> QED BY <2>5, <2>6
<1> HIDE DEF lo, hi, X
<1>6. Partition(X, n)
  BY <1>2, <1>3, <1>4, <1>5, Slices
<1> QED BY <1>6 DEF X

LEMMA EvenPartition ==
  ASSUME NEW n \in Nat, NEW w \in Nat \ {0}
  PROVE  Partition(Chunked!Even(n, w), n)
<1> DEFINE size == Chunked!Ceil(n, w)
<1>1. size \in Nat /\ size * w >= n
  BY CeilFacts
<1> HIDE DEF size
<1>2. w * size >= n /\ (size > 0 \/ n = 0)
  BY <1>1
<1>3. Partition(Chunked!Cut(n, size, w), n)
  BY <1>1, <1>2, CutPartition
<1> QED BY <1>3 DEF Chunked!Even, size

LEMMA GranularPartition ==
  ASSUME ChunksAreOfWorkers, NEW n \in Nat, NEW w \in Nat \ {0}
  PROVE  Partition(Chunked!Granular(n, w), n)
<1> DEFINE piece == Chunked!Ceil(n, 4 * w)
           size == Chunked!Max({Grain, piece})
           count == Chunked!Ceil(n, size)
<1>1. piece \in Nat
  <2>1. 4 * w \in Nat \ {0}
    OBVIOUS
  <2> QED BY <2>1, CeilFacts
<1> HIDE DEF piece
<1>2. size \in Nat \ {0}
  <2>1. Grain \in Nat \ {0}
    BY DEF ChunksAreOfWorkers
  <2> QED BY <1>1, <2>1, OfTwo
<1> HIDE DEF size
<1>3. count \in Nat /\ count * size >= n
  BY <1>2, CeilFacts
<1> HIDE DEF count
<1>4. Partition(Chunked!Cut(n, size, count), n)
  BY <1>2, <1>3, CutPartition
<1> QED BY <1>4 DEF Chunked!Granular, count, size, piece

LEMMA SinglePartition ==
  ASSUME NEW n \in Nat, NEW w
  PROVE  Partition(Chunked!Single(n, w), n)
BY DEF Chunked!Single, Chunked!Upto, Partition

\* The last worker has the rest, which is no less than nothing.
LEMMA FloorPartition ==
  ASSUME NEW n \in Nat, NEW w \in Nat \ {0}, n >= w - 1
  PROVE  Partition(Chunked!Floor(n, w), n)
<1> DEFINE q == n \div w
           size == Chunked!Max({1, q})
           lo == [i \in 0 .. w - 1 |-> i * size]
           hi == [i \in 0 .. w - 1 |-> IF i = w - 1 THEN n ELSE (i + 1) * size]
           X == Chunked!Floor(n, w)
<1>1. q \in Nat /\ w * q <= n
  OBVIOUS
<1> HIDE DEF q
<1>2. size \in Nat \ {0} /\ size = IF 1 >= q THEN 1 ELSE q
  BY <1>1, OfTwo
<1> HIDE DEF size
<1>3. (w - 1) * size \in Nat /\ (w - 1) * size <= n /\ w - 1 \in Nat
  <2>1. CASE size = 1
    BY <2>1
  <2>2. CASE size = q
    <3>1. w - 1 \in Nat /\ w - 1 <= w /\ w * q <= n
      BY <1>1
    <3>2. (w - 1) * q <= w * q /\ (w - 1) * q \in Nat /\ w * q \in Nat
      BY <1>1, <3>1, Products
    <3> QED BY <2>2, <3>1, <3>2
  <2> QED BY <1>2, <2>1, <2>2
<1>4. \A i \in 0 .. w - 1 : /\ i \in Nat /\ i + 1 \in Nat
                            /\ i * size \in Nat /\ (i + 1) * size \in Nat
                            /\ (i + 1) * size = i * size + size
  <2> TAKE i \in 0 .. w - 1
  <2>1. i \in Nat /\ i + 1 \in Nat /\ size \in Nat
    BY <1>2
  <2> HIDE DEF lo, hi, X
  <2> QED BY <2>1, Products
<1>5. \A i \in 0 .. w - 1 : lo[i] \in Nat /\ hi[i] \in Nat /\ hi[i] <= n
  <2> TAKE i \in 0 .. w - 1
  <2>1. i # w - 1 => (i + 1) * size <= (w - 1) * size
    <3>1. i # w - 1 => i + 1 <= w - 1
      OBVIOUS
    <3> QED BY <1>2, <1>3, <1>4, <3>1, Products
  <2>2. (i + 1) * size \in Nat /\ i * size \in Nat
    BY <1>4
  <2> QED BY <1>3, <2>1, <2>2
<1>6. ASSUME NEW i \in 0 .. w - 1, NEW j \in 0 .. w - 1, i < j PROVE hi[i] <= lo[j]
  <2>1. i + 1 \in Nat /\ j \in Nat /\ i + 1 <= j /\ i # w - 1
    BY <1>6
  <2>2. (i + 1) * size <= j * size
    BY <1>2, <2>1, Products
  <2> QED BY <2>1, <2>2
<1>7. ASSUME NEW x \in 0 .. n - 1 PROVE \E i \in 0 .. w - 1 : lo[i] <= x /\ x < hi[i]
  <2>0. size \in Nat \ {0} /\ x \in Nat
    BY <1>2
  <2> DEFINE i == x \div size
  <2>1. i \in Nat /\ size * i <= x /\ x < size * i + size
    <3> HIDE DEF lo, hi, X
    <3> QED BY <2>0
  <2> HIDE DEF i
  <2>2. i * size <= x /\ x < i * size + size
    BY <1>2, <2>1
  <2>3. CASE i < w - 1
    <3>1. i \in 0 .. w - 1
      BY <2>1, <2>3
    <3>2. (i + 1) * size = i * size + size
      BY <1>4, <3>1
    <3>3. lo[i] <= x /\ x < hi[i]
      BY <2>2, <2>3, <3>1, <3>2
    <3> QED BY <3>1, <3>3
  <2>4. CASE ~(i < w - 1)
    <3>1. (w - 1) * size <= i * size /\ i * size \in Nat
      BY <1>2, <1>3, <2>1, <2>4, Products
    <3>2. w - 1 \in 0 .. w - 1 /\ lo[w - 1] = (w - 1) * size /\ hi[w - 1] = n
      BY <1>3
    <3>3. lo[w - 1] <= x /\ x < hi[w - 1]
      BY <1>3, <2>2, <3>1, <3>2
    <3> QED BY <3>2, <3>3
  <2> QED BY <2>3, <2>4
<1>8. \A c : c \in X <=> c # {} /\ \E i \in 0 .. w - 1 : c = lo[i] .. hi[i] - 1
  <2>1. \A i \in 0 .. w - 1 :
          Chunked!Upto(i * size, IF i = w - 1 THEN n ELSE (i + 1) * size) = lo[i] .. hi[i] - 1
    BY DEF Chunked!Upto
  <2>2. Chunked!Upto(0, w) = 0 .. w - 1
    BY DEF Chunked!Upto
  <2> HIDE DEF lo, hi
  <2> QED BY <2>1, <2>2 DEF Chunked!Floor, size, q
<1> HIDE DEF lo, hi, X
<1>9. Partition(X, n)
  BY <1>5, <1>6, <1>7, <1>8, Slices
<1> QED BY <1>9 DEF X

LEMMA CallsAre ==
  \A c \in Chunked!AllCalls :
    /\ c.division \in {"granular", "even", "single", "floor"}
    /\ c.rounds \in {1, 2} /\ (c.rounds = 2 => c.division = "even")
BY DEF Chunked!AllCalls, Chunked!KeypointCalls, Chunked!Call, Chunked!CalculateMinmaxParallel,
   Chunked!GenerateRandomPointsParallel, Chunked!TransformPointCloudParallel,
   Chunked!ExtractNormals, Chunked!KNeighbors, Chunked!RadiusNeighbors, Chunked!FilterVoxelGrid,
   Chunked!CountInliers, Chunked!BuildScaleSpace, Chunked!ComputeAllHarrisResponses,
   Chunked!ComputeAllMlsSurfaces, Chunked!ComputeAllAgastResponses,
   Chunked!ComputeAllSusanResponses, Chunked!ComputeAllCurvatures,
   Chunked!ComputeAllIssResponses, Chunked!ComputeCurvatures, Chunked!ComputeQualityScores,
   Chunked!ComputeAllCandidates, Chunked!FindCorrespondences

LEMMA RoundPartition ==
  ASSUME ChunksAreOfWorkers, call \in Chunked!AllCalls, workers \in Workers, enabled \in BOOLEAN,
         NEW n \in Nat, call.division = "floor" => n >= workers - 1 \/ ~enabled
  PROVE  Partition(Chunked!Round(call, n), n)
<1>1. workers \in Nat \ {0}
  BY DEF ChunksAreOfWorkers
<1>2. CASE ~Chunked!Parallel(call, n)
  <2>1. Chunked!Round(call, n) = {0 .. n - 1} \ {{}}
    BY <1>2 DEF Chunked!Round, Chunked!Upto
  <2> QED BY <2>1 DEF Partition
<1>3. CASE Chunked!Parallel(call, n)
  <2>1. Chunked!Round(call, n) = Chunked!Chunks(call.division, n, workers) /\ enabled
    BY <1>3 DEF Chunked!Round, Chunked!Parallel
  <2>2. CASE call.division = "granular"
    BY <1>1, <2>1, <2>2, GranularPartition DEF Chunked!Chunks
  <2>3. CASE call.division = "even"
    BY <1>1, <2>1, <2>3, EvenPartition DEF Chunked!Chunks
  <2>4. CASE call.division = "single"
    BY <1>1, <2>1, <2>4, SinglePartition DEF Chunked!Chunks
  <2>5. CASE call.division = "floor"
    BY <1>1, <2>1, <2>5, FloorPartition DEF Chunked!Chunks
  <2> QED BY <2>2, <2>3, <2>4, <2>5, CallsAre
<1> QED BY <1>2, <1>3

\* A chunk whose task has not ended is unwritten, and no other chunk has its elements.
ChunkedInv ==
  /\ call \in Chunked!AllCalls /\ length \in Nat /\ workers \in Workers /\ enabled \in BOOLEAN
  /\ phase \in {"waiting", "returned", "thrown"}
  /\ rounds \in Nat /\ (rounds > 0 => call.division = "even")
  /\ pending \subseteq futures /\ failed \cap pending = {}
  /\ phase = "returned" => futures = {}
  /\ call.collect = "get" => failed \subseteq futures
  /\ lost \subseteq UNION failed
  /\ written = [i \in DOMAIN written |-> written[i]]
  /\ \A i \in DOMAIN written : written[i] \in Nat
  /\ Chunked!CutsWell =>
       /\ DOMAIN written = 0 .. length - 1 /\ UNION pending \subseteq 0 .. length - 1
       /\ \A c, d \in pending : c # d => c \cap d = {}
       /\ \A i \in DOMAIN written :
            IF \E c \in pending : i \in c THEN written[i] = 0 /\ i \notin lost
            ELSE written[i] = IF i \in lost THEN 0 ELSE 1

\* What a round starts with.
LEMMA RoundStarts ==
  ASSUME NEW S, NEW X, NEW D, D = (UNION X) \cup S, UNION X = S
  PROVE  D = S /\ \A i \in D : \E c \in X : i \in c
<1>1. D = S
  OBVIOUS
<1>2. \A i \in D : i \in UNION X
  BY <1>1
<1> QED BY <1>1, <1>2

LEMMA ChunkedStarts ==
  ASSUME ChunksAreOfWorkers, Chunked!Init
  PROVE  ChunkedInv
<1>1. /\ call \in Chunked!AllCalls /\ length \in 0 .. MaxLength /\ workers \in Workers
      /\ enabled \in BOOLEAN /\ phase = "waiting" /\ rounds = call.rounds - 1
      /\ failed = {} /\ lost = {} /\ pending = Chunked!Round(call, length) /\ futures = pending
      /\ written = [i \in (UNION pending) \cup Chunked!Upto(0, length) |-> 0]
  BY DEF Chunked!Init
<1>2. length \in Nat
  BY <1>1 DEF ChunksAreOfWorkers
<1>3. rounds \in Nat /\ (rounds > 0 => call.division = "even")
  BY <1>1, CallsAre
<1>4. Chunked!CutsWell => Partition(pending, length)
  BY <1>1, <1>2, RoundPartition DEF Chunked!CutsWell
<1>6. /\ DOMAIN written = (UNION pending) \cup (0 .. length - 1)
      /\ written = [i \in DOMAIN written |-> written[i]]
      /\ \A i \in DOMAIN written : written[i] = 0
  BY DEF Chunked!Init, Chunked!Upto
<1>5. Partition(pending, length) =>
        /\ DOMAIN written = 0 .. length - 1 /\ UNION pending = 0 .. length - 1
        /\ \A c, d \in pending : c # d => c \cap d = {}
        /\ \A i \in DOMAIN written : \E c \in pending : i \in c
  <2> SUFFICES ASSUME Partition(pending, length)
               PROVE  /\ DOMAIN written = 0 .. length - 1 /\ UNION pending = 0 .. length - 1
                      /\ \A c, d \in pending : c # d => c \cap d = {}
                      /\ \A i \in DOMAIN written : \E c \in pending : i \in c
    OBVIOUS
  <2> DEFINE S == 0 .. length - 1
  <2>1. UNION pending = S /\ \A c, d \in pending : c # d => c \cap d = {}
    BY DEF Partition
  <2>2. DOMAIN written = (UNION pending) \cup S
    BY <1>6
  <2> HIDE DEF S
  <2>3. DOMAIN written = S /\ \A i \in DOMAIN written : \E c \in pending : i \in c
    BY <2>1, <2>2, RoundStarts
  <2> QED BY <2>1, <2>3 DEF S
<1> QED BY <1>1, <1>2, <1>3, <1>4, <1>5, <1>6 DEF ChunkedInv

LEMMA ChunkedKeeps ==
  ASSUME ChunksAreOfWorkers, ChunkedInv, [Chunked!Next]_(Chunked!vars)
  PROVE  ChunkedInv'
<1>1. ASSUME UNCHANGED Chunked!vars PROVE ChunkedInv'
  BY <1>1 DEF Chunked!vars, Chunked!call_vars, Chunked!task_vars, ChunkedInv, Chunked!CutsWell
<1>2. ASSUME Chunked!Collect PROVE ChunkedInv'
  <2> DEFINE old == Chunked!Oldest
  <2>1. /\ UNCHANGED <<call, length, workers, enabled, rounds, pending, failed, written, lost>>
        /\ phase = "waiting" /\ old \notin pending
        /\ IF Chunked!Rethrows(old) THEN phase' = "thrown" /\ futures' = futures
           ELSE futures' = futures \ {old} /\ phase' = phase
    BY <1>2 DEF Chunked!Collect, Chunked!Collected, Chunked!call_vars
  <2>2. call.collect = "get" /\ old \in failed => Chunked!Rethrows(old)
    BY DEF Chunked!Rethrows
  <2> HIDE DEF old
  <2>3. /\ pending \subseteq futures' /\ phase' \in {"waiting", "returned", "thrown"}
        /\ phase' # "returned" /\ (call.collect = "get" => failed \subseteq futures')
    BY <2>1, <2>2 DEF ChunkedInv
  <2> QED BY <2>1, <2>3 DEF ChunkedInv, Chunked!CutsWell
<1>3. ASSUME Chunked!NextRound PROVE ChunkedInv'
  <2>1. PICK n \in 1 .. length : Chunked!Start(n, rounds - 1)
    BY <1>3 DEF Chunked!NextRound
  <2>2. rounds > 0 /\ UNCHANGED <<call, workers, enabled>>
    BY <1>3 DEF Chunked!NextRound
  <2>3. /\ length' = n /\ rounds' = rounds - 1 /\ phase' = "waiting"
        /\ pending' = Chunked!Round(call, n) /\ futures' = pending' /\ failed' = {} /\ lost' = {}
        /\ written' = [i \in (UNION pending') \cup Chunked!Upto(0, n) |-> 0]
    BY <2>1 DEF Chunked!Start
  <2>4. n \in Nat /\ call.division = "even" /\ rounds' \in Nat
    BY <2>1, <2>2, <2>3 DEF ChunkedInv
  <2>5. Partition(pending', n)
    BY <2>3, <2>4, RoundPartition DEF ChunkedInv
  <2> DEFINE S == 0 .. n - 1
  <2>6. UNION pending' = S /\ \A c, d \in pending' : c # d => c \cap d = {}
    BY <2>5 DEF Partition
  <2>8. DOMAIN written' = (UNION pending') \cup S
    BY <2>1 DEF Chunked!Start, Chunked!Upto
  <2>9. DOMAIN written' = S /\ \A i \in DOMAIN written' : \E c \in pending' : i \in c
    <3> HIDE DEF S
    <3> QED BY <2>6, <2>8, RoundStarts
  <2>7. /\ written' = [i \in DOMAIN written' |-> written'[i]]
        /\ \A i \in DOMAIN written' : written'[i] = 0
    BY <2>3
  <2> QED BY <2>2, <2>3, <2>4, <2>6, <2>7, <2>9 DEF ChunkedInv
<1>4. ASSUME Chunked!Return PROVE ChunkedInv'
  BY <1>4 DEF Chunked!Return, Chunked!call_vars, ChunkedInv, Chunked!CutsWell
<1>5. ASSUME NEW chunk \in pending, Chunked!Run(chunk) PROVE ChunkedInv'
  <2>1. /\ UNCHANGED <<call, length, workers, enabled, phase, rounds, futures>>
        /\ pending' = pending \ {chunk} /\ (Chunked!CutsWell' <=> Chunked!CutsWell)
    BY <1>5 DEF Chunked!Run, Chunked!call_vars, Chunked!CutsWell
  <2>2. PICK part_ : /\ written' = [i \in DOMAIN written |-> written[i] + IF i \in part_ THEN 1 ELSE 0]
                     /\ \/ part_ = chunk /\ failed' = failed /\ lost' = lost
                        \/ \E stop \in chunk :
                             /\ part_ = {i \in chunk : i < stop}
                             /\ lost' = lost \cup {i \in chunk : i >= stop}
                             /\ failed' = failed \cup {chunk}
    BY <1>5 DEF Chunked!Run, Chunked!Wrote
  <2>3. /\ DOMAIN written' = DOMAIN written /\ written' = [i \in DOMAIN written' |-> written'[i]]
        /\ \A i \in DOMAIN written' : written'[i] = written[i] + IF i \in part_ THEN 1 ELSE 0
        /\ \A i \in DOMAIN written' : written'[i] \in Nat
    BY <2>2 DEF ChunkedInv
  <2>4. /\ pending' \subseteq futures' /\ failed' \cap pending' = {}
        /\ phase' = "returned" => futures' = {}
        /\ call'.collect = "get" => failed' \subseteq futures'
        /\ lost' \subseteq UNION failed'
    BY <1>5, <2>1, <2>2 DEF ChunkedInv
  <2>5. ASSUME Chunked!CutsWell, NEW i \in DOMAIN written
        PROVE  IF \E c \in pending' : i \in c THEN written'[i] = 0 /\ i \notin lost'
               ELSE written'[i] = IF i \in lost' THEN 0 ELSE 1
    <3>1. /\ UNION pending \subseteq 0 .. length - 1 /\ DOMAIN written = 0 .. length - 1
          /\ \A c, d \in pending : c # d => c \cap d = {}
          /\ IF \E c \in pending : i \in c THEN written[i] = 0 /\ i \notin lost
             ELSE written[i] = IF i \in lost THEN 0 ELSE 1
      BY <2>5 DEF ChunkedInv
    <3>2. CASE i \notin chunk
      <4>1. i \notin part_ /\ (i \in lost' <=> i \in lost)
        BY <2>2, <3>2
      <4>2. (\E c \in pending' : i \in c) <=> (\E c \in pending : i \in c)
        BY <2>1, <3>2
      <4>3. written'[i] = written[i]
        BY <2>3, <4>1 DEF ChunkedInv
      <4> QED BY <3>1, <4>1, <4>2, <4>3
    <3>3. CASE i \in chunk
      <4>1. written[i] = 0 /\ i \notin lost /\ ~\E c \in pending' : i \in c
        BY <1>5, <2>1, <3>1, <3>3
      <4>2. i \in part_ <=> i \notin lost'
        <5>1. CASE part_ = chunk /\ lost' = lost
          BY <3>3, <4>1, <5>1
        <5>2. CASE \E stop \in chunk : /\ part_ = {j \in chunk : j < stop}
                                       /\ lost' = lost \cup {j \in chunk : j >= stop}
          <6>1. PICK stop \in chunk : /\ part_ = {j \in chunk : j < stop}
                                      /\ lost' = lost \cup {j \in chunk : j >= stop}
            BY <5>2
          <6>2. i \in Int /\ stop \in Int
            BY <1>5, <3>1, <3>3
          <6>3. i < stop <=> ~(i >= stop)
            BY <6>2
          <6> QED BY <3>3, <4>1, <6>1, <6>3
        <5> QED BY <2>2, <5>1, <5>2
      <4>3. written'[i] = IF i \in part_ THEN 1 ELSE 0
        BY <2>3, <4>1
      <4> QED BY <4>1, <4>2, <4>3
    <3> QED BY <3>2, <3>3
  <2>6. Chunked!CutsWell =>
          /\ DOMAIN written' = 0 .. length' - 1 /\ UNION pending' \subseteq 0 .. length' - 1
          /\ \A c, d \in pending' : c # d => c \cap d = {}
    BY <2>1, <2>3 DEF ChunkedInv
  <2> QED BY <2>1, <2>3, <2>4, <2>5, <2>6 DEF ChunkedInv
<1> QED BY <1>1, <1>2, <1>3, <1>4, <1>5 DEF Chunked!Next

\* ChunkedCalls: what a call is found to have done, from the invariant.
LEMMA ChunkedOnce ==
  ASSUME ChunkedInv
  PROVE  Chunked!TypeOK /\ Chunked!EveryElementOnce
<1>1. Chunked!TypeOK
  BY DEF ChunkedInv, Chunked!TypeOK
<1>2. ASSUME phase = "returned", Chunked!CutsWell
      PROVE  /\ pending = {} /\ DOMAIN written = Chunked!Upto(0, length)
             /\ \A i \in DOMAIN written : written[i] = IF i \in lost THEN 0 ELSE 1
             /\ call.collect = "get" => lost = {}
  <2>1. futures = {} /\ pending = {} /\ DOMAIN written = 0 .. length - 1
    BY <1>2 DEF ChunkedInv
  <2>2. \A i \in DOMAIN written : written[i] = IF i \in lost THEN 0 ELSE 1
    BY <1>2, <2>1 DEF ChunkedInv
  <2>3. call.collect = "get" => lost = {}
    BY <2>1 DEF ChunkedInv
  <2> QED BY <2>1, <2>2, <2>3 DEF Chunked!Upto
<1> QED BY <1>1, <1>2 DEF Chunked!EveryElementOnce

-------------------------------------------------------------------------------
(* RANSAC and PROSAC                                                       *)

LEMMA CoarseCardinality == \A S : Coarse!Cardinality(S) = Cardinality(S)
BY Zenon DEF Coarse!Cardinality, Cardinality

\* The schedule is defined for every n: it is built up from its values on 0 .. m.
LEMMA ScheduleIs ==
  ASSUME m_sample_size \in Nat
  PROVE  \A n \in Nat : Coarse!T[n] = IF n <= m_sample_size THEN 1 ELSE Coarse!T[n - 1] + Added[n]
<1> DEFINE Val(f, n) == IF n <= m_sample_size THEN 1 ELSE f[n - 1] + Added[n]
           Up(f, m) == f = [n \in 0 .. m |-> Val(f, n)]
<1>1. ASSUME NEW a \in Nat, NEW b \in Nat, a <= b, NEW f, NEW g, Up(f, a), Up(g, b)
      PROVE  \A n \in 0 .. a : f[n] = g[n]
  <2> DEFINE Same == {n \in 0 .. a : f[n] = g[n]}
  <2>1. /\ \A n \in 0 .. a : f[n] = Val(f, n)
        /\ \A n \in 0 .. b : g[n] = Val(g, n)
    BY <1>1
  <2>2. 0 \in 0 .. a /\ 0 \in 0 .. b /\ 0 <= m_sample_size
    OBVIOUS
  <2>3. 0 \in Same
    BY <2>1, <2>2
  <2>4. ASSUME NEW n \in 0 .. a - 1, n \in Same PROVE n + 1 \in Same
    <3>1. n + 1 \in 0 .. a /\ n + 1 \in 0 .. b /\ (n + 1) - 1 = n
      BY <1>1
    <3>2. f[n] = g[n]
      BY <2>4
    <3> QED BY <2>1, <3>1, <3>2
  <2> HIDE DEF Same
  <2>5. 0 .. a \subseteq Same
    BY <2>3, <2>4, InductionUpTo
  <2> USE DEF Same
  <2> QED BY <2>5
<1>2. ASSUME NEW b \in Nat PROVE \E f : Up(f, b)
  <2> DEFINE T == {m \in 0 .. b : \E f : Up(f, m)}
  <2>1. 0 \in T
    <3>1. Up([n \in 0 .. 0 |-> 1], 0)
      OBVIOUS
    <3> HIDE DEF Up
    <3> QED BY <3>1
  <2>2. ASSUME NEW m \in 0 .. b - 1, m \in T PROVE m + 1 \in T
    <3>1. PICK f : Up(f, m)
      BY <2>2
    <3> DEFINE g == [n \in 0 .. m + 1 |-> IF n <= m THEN f[n] ELSE Val(f, n)]
    <3>2. ASSUME NEW n \in 0 .. m + 1 PROVE g[n] = Val(g, n)
      <4>1. n <= m_sample_size \/ (n - 1 \in 0 .. m /\ n - 1 \in 0 .. m + 1 /\ n - 1 <= m)
        OBVIOUS
      <4>2. n - 1 \in 0 .. m => g[n - 1] = f[n - 1]
        OBVIOUS
      <4>3. g[n] = Val(f, n)
        <5>1. n <= m => n \in 0 .. m /\ f[n] = Val(f, n)
          BY <3>1
        <5> QED BY <5>1
      <4> HIDE DEF g
      <4> QED BY <4>1, <4>2, <4>3
    <3>3. g = [n \in 0 .. m + 1 |-> g[n]]
      OBVIOUS
    <3> HIDE DEF g
    <3>4. Up(g, m + 1)
      BY <3>2, <3>3
    <3> HIDE DEF Up
    <3> QED BY <3>4
  <2> HIDE DEF T
  <2>3. 0 .. b \subseteq T
    BY <2>1, <2>2, InductionUpTo
  <2> USE DEF T
  <2> HIDE DEF Up
  <2> QED BY <2>3
<1> DEFINE F(m) == CHOOSE f : Up(f, m)
           G == [n \in Nat |-> F(n)[n]]
<1>3. \A m \in Nat : Up(F(m), m)
  <2> HIDE DEF Up
  <2> QED BY <1>2
<1> HIDE DEF F
<1>4. ASSUME NEW n \in Nat PROVE G[n] = Val(G, n)
  <2>1. G[n] = F(n)[n] /\ Up(F(n), n)
    BY <1>3
  <2>2. F(n)[n] = Val(F(n), n)
    <3>1. n \in 0 .. n
      OBVIOUS
    <3> QED BY <2>1, <3>1
  <2>3. CASE n <= m_sample_size
    BY <2>1, <2>2, <2>3
  <2>4. CASE n > m_sample_size
    <3>1. n - 1 \in Nat /\ n - 1 <= n /\ n - 1 \in 0 .. n - 1
      BY <2>4
    <3>2. Up(F(n - 1), n - 1)
      BY <1>3, <3>1
    <3>3. F(n - 1)[n - 1] = F(n)[n - 1]
      <4> HIDE DEF Up, G
      <4> QED BY <1>1, <2>1, <3>1, <3>2
    <3>4. G[n - 1] = F(n - 1)[n - 1]
      BY <3>1
    <3> HIDE DEF G
    <3> QED BY <2>1, <2>2, <3>3, <3>4
  <2> QED BY <2>3, <2>4
<1>5. G = [n \in Nat |-> G[n]]
  OBVIOUS
<1> HIDE DEF G
<1>6. G = [n \in Nat |-> Val(G, n)]
  BY <1>4, <1>5
<1> DEFINE S == CHOOSE f : f = [n \in Nat |-> Val(f, n)]
<1>7. S = [n \in Nat |-> Val(S, n)]
  BY <1>6
<1>8. Coarse!T = S
  BY DEF Coarse!T
<1> HIDE DEF S
<1> QED BY <1>7, <1>8

LEMMA ScheduleGrows ==
  ASSUME PutativesAreMeasured, NEW c \in PutativeSets
  PROVE  /\ \A n \in 0 .. c.size : Coarse!T[n] \in Nat
         /\ Coarse!T[m_sample_size] = 1
         /\ \A n \in m_sample_size .. c.size - 1 : Coarse!T[n] < Coarse!T[n + 1]
<1>1. m_sample_size \in Nat /\ c.size \in Nat
  BY DEF PutativesAreMeasured
<1>2. \A n \in 1 .. c.size : n > m_sample_size => Added[n] \in Nat \ {0}
  BY DEF PutativesAreMeasured
<1>3. \A n \in Nat : n <= m_sample_size => Coarse!T[n] = 1
  BY <1>1, ScheduleIs
<1>4. ASSUME NEW n \in 0 .. c.size - 1, n >= m_sample_size
      PROVE  Coarse!T[n + 1] = Coarse!T[n] + Added[n + 1] /\ Added[n + 1] \in Nat \ {0}
  <2>1. n + 1 \in Nat /\ n + 1 \in 1 .. c.size /\ n + 1 > m_sample_size /\ (n + 1) - 1 = n
    BY <1>1, <1>4
  <2>2. Coarse!T[n + 1] = IF n + 1 <= m_sample_size THEN 1 ELSE Coarse!T[(n + 1) - 1] + Added[n + 1]
    BY <1>1, <2>1, ScheduleIs
  <2>3. ~(n + 1 <= m_sample_size)
    BY <1>1, <2>1
  <2> QED BY <1>2, <2>1, <2>2, <2>3
<1> DEFINE Whole == {n \in 0 .. c.size : Coarse!T[n] \in Nat}
<1>5. 0 \in Whole
  BY <1>1, <1>3
<1>6. ASSUME NEW n \in 0 .. c.size - 1, n \in Whole PROVE n + 1 \in Whole
  <2>1. n + 1 \in 0 .. c.size /\ n + 1 \in Nat /\ Coarse!T[n] \in Nat
    BY <1>1, <1>6
  <2>2. CASE n >= m_sample_size
    BY <1>4, <2>1, <2>2
  <2>3. CASE ~(n >= m_sample_size)
    <3>1. n + 1 <= m_sample_size
      BY <1>1, <2>3
    <3> QED BY <1>3, <2>1, <3>1
  <2> QED BY <2>2, <2>3
<1>7. \A n \in 0 .. c.size : Coarse!T[n] \in Nat
  <2> HIDE DEF Whole
  <2>1. 0 .. c.size \subseteq Whole
    BY <1>1, <1>5, <1>6, InductionUpTo
  <2> USE DEF Whole
  <2> QED BY <2>1
<1>8. ASSUME NEW n \in m_sample_size .. c.size - 1 PROVE Coarse!T[n] < Coarse!T[n + 1]
  <2>1. n \in 0 .. c.size - 1 /\ n >= m_sample_size /\ n \in 0 .. c.size
    BY <1>1
  <2>2. Coarse!T[n] \in Nat
    BY <1>7, <2>1
  <2> QED BY <1>4, <2>1, <2>2
<1> QED BY <1>1, <1>3, <1>7, <1>8

CoarseTyped ==
  /\ method \in Methods /\ correspondences \in PutativeSets /\ ranking \in Seq(Nat)
  /\ limit \in CoarseLimits /\ least \in Minima
  /\ phase \in {"idle", "search", "found"} /\ iter \in Nat /\ iterations \in Nat /\ pool \in Nat
  /\ best \in SUBSET (1 .. Coarse!Size) /\ tried \subseteq SUBSET (1 .. Coarse!Size)
  /\ history \in Seq(Nat) /\ returned \in BOOLEAN /\ calls \in 0 .. MaxCalls

BestCounted ==
  /\ \A s \in tried : Coarse!Count(s) <= Coarse!Count(best)
  /\ best # {} => best \in tried

ResultBelongsTogether ==
  phase = "idle" /\ returned =>
    /\ result.inliers = Coarse!Agree(result.transformation)
    /\ result.score = Coarse!Fitness(result.transformation, result.inliers)
    /\ result.transformation \in {best, Coarse!Agree(best)}

PoolInSchedule ==
  phase = "search" /\ method = "prosac" =>
    /\ m_sample_size <= pool /\ pool <= Coarse!Size
    /\ pool < Coarse!Size => iter <= Coarse!T[pool]
    /\ pool > m_sample_size => iter > Coarse!T[pool - 1]

CoarseInv ==
  /\ CoarseTyped /\ FourShaped /\ BestCounted /\ ResultBelongsTogether /\ PoolInSchedule

\* How many agree with a motion is a number, no greater than there are correspondences.
LEMMA CoarseCounts ==
  ASSUME PutativesAreMeasured, correspondences \in PutativeSets, NEW s \in SUBSET (1 .. Coarse!Size)
  PROVE  Coarse!Count(s) \in 0 .. Coarse!Size /\ Coarse!Size \in Nat
<1>1. Coarse!Size \in Nat
  BY DEF PutativesAreMeasured, Coarse!Size
<1>2. Coarse!Agree(s) \in SUBSET (1 .. Coarse!Size)
  BY DEF PutativesAreMeasured, Coarse!Size, Coarse!Agree, Coarse!NoMotion
<1>3. IsFiniteSet(1 .. Coarse!Size) /\ Cardinality(1 .. Coarse!Size) <= Coarse!Size
  BY <1>1, FS_Interval
<1>4. IsFiniteSet(Coarse!Agree(s)) /\ Cardinality(Coarse!Agree(s)) <= Cardinality(1 .. Coarse!Size)
  BY <1>2, <1>3, FS_Subset
<1>5. Cardinality(Coarse!Agree(s)) \in Nat /\ Cardinality(1 .. Coarse!Size) \in Nat
  BY <1>3, <1>4, FS_CardinalityType
<1>6. Coarse!Count(s) = Cardinality(Coarse!Agree(s))
  BY CoarseCardinality DEF Coarse!Count
<1> QED BY <1>1, <1>3, <1>4, <1>5, <1>6

LEMMA CoarseStarts ==
  ASSUME PutativesAreMeasured, Coarse!Init
  PROVE  CoarseInv
<1>1. CoarseTyped
  <2>1. calls \in 0 .. MaxCalls
    BY DEF Coarse!Init, PutativesAreMeasured
  <2>2. best = {} /\ tried = {} /\ ranking = <<>> /\ history = <<>> /\ correspondences = NoPutative
    BY DEF Coarse!Init, Coarse!NoMotion
  <2>3. /\ method \in Methods /\ limit \in CoarseLimits /\ least \in Minima
        /\ phase = "idle" /\ iter = 0 /\ iterations = 0 /\ pool = 0 /\ returned = FALSE
    BY DEF Coarse!Init
  <2>4. best \in SUBSET (1 .. Coarse!Size) /\ tried \subseteq SUBSET (1 .. Coarse!Size)
    BY <2>2
  <2>5. ranking \in Seq(Nat) /\ history \in Seq(Nat)
    BY <2>2
  <2> QED BY <2>1, <2>2, <2>3, <2>4, <2>5 DEF CoarseTyped, PutativeSets
<1>2. FourShaped
  BY DEF Coarse!Init, Coarse!NewResult, FourShaped
<1>3. BestCounted /\ ResultBelongsTogether /\ PoolInSchedule
  BY DEF Coarse!Init, Coarse!NoMotion, BestCounted, ResultBelongsTogether, PoolInSchedule
<1> QED BY <1>1, <1>2, <1>3 DEF CoarseInv

\* What is set while no call runs.
LEMMA CoarseSet ==
  ASSUME PutativesAreMeasured, CoarseInv, correspondences' \in PutativeSets, ranking' \in Seq(Nat),
         phase = "idle", Coarse!Forget,
         UNCHANGED <<method, limit, least, phase, iter, iterations, pool, history, result, calls>>
  PROVE  CoarseInv'
<1>1. best' = {} /\ tried' = {} /\ returned' = FALSE
  BY DEF Coarse!Forget, Coarse!NoMotion
<1>2. CoarseTyped'
  BY <1>1 DEF CoarseInv, CoarseTyped
<1>3. FourShaped'
  BY DEF CoarseInv, FourShaped
<1>4. (BestCounted /\ ResultBelongsTogether /\ PoolInSchedule)'
  BY <1>1 DEF BestCounted, ResultBelongsTogether, PoolInSchedule
<1> QED BY <1>2, <1>3, <1>4 DEF CoarseInv

\* The search has counted s.
LEMMA CoarseCounted ==
  ASSUME PutativesAreMeasured, CoarseInv, NEW s \in SUBSET (1 .. Coarse!Size),
         correspondences' = correspondences, tried' = tried \cup {s},
         best' = IF Coarse!Better(s) THEN s ELSE best
  PROVE  /\ best' \in SUBSET (1 .. Coarse!Size) /\ tried' \subseteq SUBSET (1 .. Coarse!Size)
         /\ BestCounted'
<1>1. /\ best \in SUBSET (1 .. Coarse!Size) /\ tried \subseteq SUBSET (1 .. Coarse!Size)
      /\ correspondences \in PutativeSets
  BY DEF CoarseInv, CoarseTyped
<1>2. \A t \in SUBSET (1 .. Coarse!Size) : Coarse!Count(t) \in Nat
  BY <1>1, CoarseCounts
<1>3. \A t \in tried : Coarse!Count(t) <= Coarse!Count(best)
  BY DEF CoarseInv, BestCounted
<1>4. \A t : Coarse!Count(t)' = Coarse!Count(t)
  BY DEF Coarse!Count, Coarse!Agree
<1>5. Coarse!Better(s) <=> Coarse!Count(s) > Coarse!Count(best)
  BY DEF Coarse!Better
<1>6. \A t \in tried' : Coarse!Count(t) <= Coarse!Count(best')
  BY <1>1, <1>2, <1>3, <1>5
<1>7. best' # {} => best' \in tried'
  BY DEF CoarseInv, BestCounted
<1>8. BestCounted'
  BY <1>4, <1>6, <1>7 DEF BestCounted
<1> QED BY <1>1, <1>8

\* What align() leaves in the result.
LEMMA CoarseStops ==
  ASSUME FourShaped, NEW good, NEW n, result' = [result EXCEPT !.num_iterations = n, !.converged = good]
  PROVE  FourShaped'
<1>1. result = [transformation |-> result.transformation, inliers |-> result.inliers,
                score |-> result.score, converged |-> result.converged,
                num_iterations |-> result.num_iterations]
  BY DEF FourShaped
<1>2. result' = [transformation |-> result.transformation, inliers |-> result.inliers,
                 score |-> result.score, converged |-> good, num_iterations |-> n]
  BY <1>1
<1> QED BY <1>2 DEF FourShaped

LEMMA CoarseFills ==
  ASSUME FourShaped, NEW motion, NEW inliers, NEW score, NEW good, NEW n,
         result' = [result EXCEPT !.transformation = motion, !.inliers = inliers, !.score = score,
                                  !.converged = good, !.num_iterations = n]
  PROVE  /\ FourShaped' /\ result'.transformation = motion /\ result'.inliers = inliers
         /\ result'.score = score
<1>1. result = [transformation |-> result.transformation, inliers |-> result.inliers,
                score |-> result.score, converged |-> result.converged,
                num_iterations |-> result.num_iterations]
  BY DEF FourShaped
<1>2. result' = [transformation |-> motion, inliers |-> inliers, score |-> score,
                 converged |-> good, num_iterations |-> n]
  BY <1>1
<1> QED BY <1>2 DEF FourShaped

LEMMA CoarseKeeps ==
  ASSUME PutativesAreMeasured, CoarseInv, [Coarse!Next]_(Coarse!coarse_vars)
  PROVE  CoarseInv'
<1> USE DEF Coarse!input, Coarse!options, Coarse!search
<1>1. ASSUME UNCHANGED Coarse!coarse_vars PROVE CoarseInv'
  <2>1. CoarseTyped'
    BY <1>1 DEF Coarse!coarse_vars, CoarseInv, CoarseTyped, Coarse!Size
  <2>2. (FourShaped /\ ResultBelongsTogether)'
    BY <1>1 DEF Coarse!coarse_vars, CoarseInv, FourShaped, ResultBelongsTogether, Coarse!Agree,
       Coarse!Fitness
  <2>3. (BestCounted /\ PoolInSchedule)'
    BY <1>1 DEF Coarse!coarse_vars, CoarseInv, BestCounted, PoolInSchedule, Coarse!Count,
       Coarse!Agree, Coarse!Size
  <2> QED BY <2>1, <2>2, <2>3 DEF CoarseInv
<1>2. ASSUME NEW c \in Putative, Coarse!SetCorrespondences(c) PROVE CoarseInv'
  <2>1. correspondences' \in PutativeSets /\ ranking' \in Seq(Nat)
    BY <1>2 DEF Coarse!SetCorrespondences, PutativeSets
  <2> QED BY <1>2, <2>1, CoarseSet DEF Coarse!SetCorrespondences
<1>3. ASSUME NEW c \in Putative, NEW order \in Rankings, Coarse!SetSortedCorrespondences(c, order)
      PROVE  CoarseInv'
  <2>1. correspondences' \in PutativeSets
    BY <1>3 DEF Coarse!SetSortedCorrespondences, PutativeSets
  <2>2. order \in Seq(Nat) /\ c.size \in Nat
    BY DEF PutativesAreMeasured, PutativeSets
  <2>3. Coarse!InOrder(c) \in Seq(Nat)
    BY <2>2 DEF Coarse!InOrder
  <2>4. ranking' \in Seq(Nat)
    BY <1>3, <2>2, <2>3 DEF Coarse!SetSortedCorrespondences
  <2> QED BY <1>3, <2>1, <2>4, CoarseSet DEF Coarse!SetSortedCorrespondences
<1>4. ASSUME Coarse!Rejected PROVE CoarseInv'
  <2>1. /\ UNCHANGED <<method, correspondences, ranking, phase, iter, iterations, pool, best, history,
                       tried, result>>
        /\ limit' \in CoarseLimits /\ least' \in Minima /\ phase = "idle" /\ returned' = FALSE
        /\ calls' = calls + 1 /\ calls < MaxCalls
    BY <1>4 DEF Coarse!Rejected, Coarse!ChooseOptions
  <2>2. calls' \in 0 .. MaxCalls
    BY <2>1 DEF CoarseInv, CoarseTyped, PutativesAreMeasured
  <2>3. CoarseTyped'
    BY <2>1, <2>2 DEF CoarseInv, CoarseTyped, Coarse!Size
  <2>4. (FourShaped /\ ResultBelongsTogether /\ PoolInSchedule)'
    BY <2>1 DEF CoarseInv, FourShaped, ResultBelongsTogether, PoolInSchedule
  <2>5. BestCounted'
    BY <2>1 DEF CoarseInv, BestCounted, Coarse!Count, Coarse!Agree
  <2> QED BY <2>3, <2>4, <2>5 DEF CoarseInv
<1>5. ASSUME Coarse!Start PROVE CoarseInv'
  <2>1. /\ UNCHANGED <<method, correspondences, ranking>>
        /\ limit' \in CoarseLimits /\ least' \in Minima /\ returned' = FALSE
        /\ calls' = calls + 1 /\ calls < MaxCalls
        /\ phase' = IF Coarse!Size < m_sample_size THEN "idle" ELSE "search"
        /\ iter' = 0 /\ iterations' = Coarse!Least(limit', Initial) /\ pool' = m_sample_size
        /\ best' = {} /\ history' = <<>> /\ tried' = {} /\ result' = Coarse!NewResult
    BY <1>5 DEF Coarse!Start, Coarse!ChooseOptions, Coarse!NoMotion
  <2>2. calls' \in 0 .. MaxCalls
    BY <2>1 DEF CoarseInv, CoarseTyped, PutativesAreMeasured
  <2>3. iterations' \in Nat /\ pool' \in Nat
    BY <2>1 DEF Coarse!Least, PutativesAreMeasured
  <2>4. CoarseTyped'
    <3>1. /\ best' \in SUBSET (1 .. Coarse!Size') /\ tried' \subseteq SUBSET (1 .. Coarse!Size')
          /\ history' \in Seq(Nat) /\ phase' \in {"idle", "search", "found"}
      BY <2>1
    <3>2. iter' = 0 /\ limit' \in CoarseLimits /\ least' \in Minima /\ returned' = FALSE
      BY <2>1
    <3>3. UNCHANGED <<method, correspondences, ranking>>
      BY <2>1
    <3> QED BY <2>2, <2>3, <3>1, <3>2, <3>3 DEF CoarseInv, CoarseTyped
  <2>5. FourShaped'
    BY <2>1 DEF FourShaped, Coarse!NewResult
  <2>6. (BestCounted /\ ResultBelongsTogether)'
    BY <2>1 DEF BestCounted, ResultBelongsTogether
  <2>7. PoolInSchedule'
    <3>1. correspondences \in PutativeSets /\ Coarse!Size' = Coarse!Size
      BY <2>1 DEF CoarseInv, CoarseTyped, Coarse!Size
    <3>2. Coarse!T[m_sample_size] = 1
      BY <3>1, ScheduleGrows
    <3>3. Coarse!Size \in Nat /\ m_sample_size \in Nat
      BY <3>1 DEF Coarse!Size, PutativesAreMeasured
    <3> QED BY <2>1, <3>1, <3>2, <3>3 DEF PoolInSchedule
  <2> QED BY <2>4, <2>5, <2>6, <2>7 DEF CoarseInv
<1>6. ASSUME NEW s \in SUBSET (1 .. Coarse!Size), Coarse!RansacIteration(s) PROVE CoarseInv'
  <2>1. /\ UNCHANGED <<method, correspondences, ranking, limit, least, m_refine_result, pool, returned,
                       calls>>
        /\ phase = "search" /\ method = "ransac" /\ phase' \in {"found", "search"}
        /\ iter' \in {iter, iter + 1} /\ tried' = tried \cup {s}
        /\ best' = IF Coarse!Better(s) THEN s ELSE best
        /\ iterations' = IF Coarse!Better(s)
                         THEN Coarse!Least(limit, Coarse!Adapted(Coarse!Count(s), limit)) ELSE iterations
        /\ history' \in {history, Coarse!Recorded}
    BY <1>6 DEF Coarse!RansacIteration
  <2>2. /\ best' \in SUBSET (1 .. Coarse!Size) /\ tried' \subseteq SUBSET (1 .. Coarse!Size)
        /\ BestCounted'
    BY <2>1, CoarseCounted
  <2>3. /\ correspondences \in PutativeSets /\ best \in SUBSET (1 .. Coarse!Size) /\ iter \in Nat
        /\ limit \in Nat /\ iterations \in Nat /\ history \in Seq(Nat) /\ Coarse!Size' = Coarse!Size
    BY <2>1 DEF CoarseInv, CoarseTyped, PutativesAreMeasured, Coarse!Size
  <2>4. Coarse!Count(s) \in 0 .. Coarse!Size /\ Coarse!Size \in Nat
    BY <2>3, CoarseCounts
  <2>5. iterations' \in Nat
    <3>1. Coarse!Count(s) # 0 => Needed[Coarse!Size][Coarse!Count(s)] \in Nat
      BY <2>3, <2>4 DEF PutativesAreMeasured, Coarse!Size
    <3>2. Coarse!Adapted(Coarse!Count(s), limit) \in Nat
      BY <2>3, <3>1 DEF Coarse!Adapted
    <3> QED BY <2>1, <2>3, <3>2 DEF Coarse!Least
  <2>6. history' \in Seq(Nat)
    <3>1. Coarse!Count(best') \in Nat
      <4>1. Coarse!Count(best') \in 0 .. Coarse!Size
        BY <2>2, <2>3, CoarseCounts
      <4> QED BY <2>4, <4>1
    <3> DEFINE all == Append(history, Coarse!Count(best'))
    <3>2. all \in Seq(Nat) /\ Len(all) > 0 /\ Tail(all) \in Seq(Nat)
      BY <2>3, <3>1
    <3>3. Coarse!Recorded \in {all, Tail(all)}
      BY <2>1 DEF Coarse!Recorded, Coarse!Count, Coarse!Agree
    <3> QED BY <2>1, <2>3, <3>2, <3>3
  <2>7. CoarseTyped'
    BY <2>1, <2>2, <2>3, <2>5, <2>6 DEF CoarseInv, CoarseTyped
  <2>8. FourShaped'
    <3>1. FourShaped
      BY DEF CoarseInv
    <3> DEFINE settled == ~(Coarse!Better(s) /\ Coarse!ReachesEarlyStop(s)) /\ Coarse!Settled(Coarse!Recorded)
    <3>2. result' = [result EXCEPT !.num_iterations = iter + 1, !.converged = settled]
      BY <1>6 DEF Coarse!RansacIteration
    <3> HIDE DEF settled
    <3> QED BY <3>1, <3>2, CoarseStops
  <2>9. (ResultBelongsTogether /\ PoolInSchedule)'
    BY <2>1 DEF ResultBelongsTogether, PoolInSchedule
  <2> QED BY <2>2, <2>7, <2>8, <2>9 DEF CoarseInv
<1>7. ASSUME NEW s \in SUBSET (1 .. Coarse!Size), Coarse!ProsacIteration(s) PROVE CoarseInv'
  <2> DEFINE counted == s \notin correspondences.degenerate
  <2>1. /\ UNCHANGED <<method, correspondences, ranking, limit, least, m_refine_result, iterations,
                       history, returned, result, calls>>
        /\ phase = "search" /\ method = "prosac" /\ pool' = Coarse!Grown
        /\ tried' = IF counted THEN tried \cup {s} ELSE tried
        /\ best' = IF counted /\ Coarse!Better(s) THEN s ELSE best
        /\ \/ phase' = "found" /\ iter' = iter
           \/ phase' = "search" /\ iter' = iter + 1
    BY <1>7 DEF Coarse!ProsacIteration
  <2>2. /\ best' \in SUBSET (1 .. Coarse!Size) /\ tried' \subseteq SUBSET (1 .. Coarse!Size)
        /\ BestCounted'
    <3>1. CASE counted
      BY <2>1, <3>1, CoarseCounted
    <3>2. CASE ~counted
      BY <2>1, <3>2 DEF CoarseInv, CoarseTyped, BestCounted, Coarse!Count, Coarse!Agree
    <3> QED BY <3>1, <3>2
  <2>3. /\ correspondences \in PutativeSets /\ iter \in Nat /\ pool \in Nat
        /\ Coarse!Size' = Coarse!Size
        /\ m_sample_size <= pool /\ pool <= Coarse!Size
        /\ pool < Coarse!Size => iter <= Coarse!T[pool]
        /\ pool > m_sample_size => iter > Coarse!T[pool - 1]
    BY <2>1 DEF CoarseInv, CoarseTyped, PoolInSchedule, Coarse!Size
  <2>4. /\ Coarse!Size \in Nat /\ m_sample_size \in Nat
        /\ \A n \in 0 .. Coarse!Size : Coarse!T[n] \in Nat
        /\ \A n \in m_sample_size .. Coarse!Size - 1 : Coarse!T[n] < Coarse!T[n + 1]
    BY <2>3, ScheduleGrows DEF Coarse!Size, PutativesAreMeasured
  <2>5. Coarse!T[pool] \in Nat
    BY <2>3, <2>4
  <2>6. PoolInSchedule' /\ pool' \in Nat
    <3>1. CASE iter = Coarse!T[pool] /\ pool < Coarse!Size
      <4>1. pool' = pool + 1
        BY <2>1, <3>1 DEF Coarse!Grown
      <4>2. /\ pool \in m_sample_size .. Coarse!Size - 1 /\ pool + 1 \in 0 .. Coarse!Size
            /\ (pool + 1) - 1 = pool
        BY <2>3, <2>4, <3>1
      <4>3. Coarse!T[pool] < Coarse!T[pool + 1] /\ Coarse!T[pool + 1] \in Nat
        BY <2>4, <4>2
      <4> QED BY <2>1, <2>3, <2>4, <2>5, <3>1, <4>1, <4>2, <4>3 DEF PoolInSchedule
    <3>2. CASE ~(iter = Coarse!T[pool] /\ pool < Coarse!Size)
      <4>1. pool' = pool
        BY <2>1, <3>2 DEF Coarse!Grown
      <4>2. pool < Coarse!Size => iter + 1 <= Coarse!T[pool]
        BY <2>3, <2>5, <3>2
      <4>3. pool > m_sample_size => iter + 1 > Coarse!T[pool - 1]
        <5>1. pool > m_sample_size => pool - 1 \in 0 .. Coarse!Size
          BY <2>3, <2>4
        <5>2. pool > m_sample_size => Coarse!T[pool - 1] \in Nat
          BY <2>4, <5>1
        <5> QED BY <2>3, <5>2
      <4> QED BY <2>1, <2>3, <4>1, <4>2, <4>3 DEF PoolInSchedule
    <3> QED BY <3>1, <3>2
  <2>7. CoarseTyped'
    BY <2>1, <2>2, <2>3, <2>6 DEF CoarseInv, CoarseTyped
  <2>8. (FourShaped /\ ResultBelongsTogether)'
    BY <2>1 DEF CoarseInv, FourShaped, ResultBelongsTogether
  <2> QED BY <2>2, <2>6, <2>7, <2>8 DEF CoarseInv
<1>8. ASSUME Coarse!TimeLimit PROVE CoarseInv'
  <2>1. /\ UNCHANGED <<method, correspondences, ranking, limit, least, m_refine_result, iter,
                       iterations, pool, best, history, tried, returned, result, calls>>
        /\ phase' = "found"
    BY <1>8 DEF Coarse!TimeLimit
  <2>2. CoarseTyped'
    BY <2>1 DEF CoarseInv, CoarseTyped, Coarse!Size
  <2>3. (FourShaped /\ ResultBelongsTogether /\ PoolInSchedule)'
    BY <2>1 DEF CoarseInv, FourShaped, ResultBelongsTogether, PoolInSchedule
  <2>4. BestCounted'
    BY <2>1 DEF CoarseInv, BestCounted, Coarse!Count, Coarse!Agree
  <2> QED BY <2>2, <2>3, <2>4 DEF CoarseInv
<1>9. ASSUME Coarse!Finish PROVE CoarseInv'
  <2>1. /\ UNCHANGED <<method, correspondences, ranking, limit, least, m_refine_result, iter,
                       iterations, pool, best, history, tried, calls>>
        /\ phase' = "idle" /\ returned' = ~Coarse!TooFewInliers
    BY <1>9 DEF Coarse!Finish
  <2>2. CoarseTyped'
    BY <2>1 DEF CoarseInv, CoarseTyped, Coarse!Size
  <2>3. BestCounted' /\ PoolInSchedule'
    BY <2>1 DEF CoarseInv, BestCounted, PoolInSchedule, Coarse!Count, Coarse!Agree
  <2>4. (FourShaped /\ ResultBelongsTogether)'
    <3>1. FourShaped
      BY DEF CoarseInv
    <3>2. CASE Coarse!TooFewInliers
      <4>1. PICK n : result' = [result EXCEPT !.num_iterations = n]
        BY <1>9, <3>2 DEF Coarse!Finish
      <4>2. FourShaped'
        BY <3>1, <4>1 DEF FourShaped
      <4> QED BY <2>1, <3>2, <4>2 DEF ResultBelongsTogether
    <3>3. CASE ~Coarse!TooFewInliers
      <4> DEFINE motion == Coarse!Refined
                 inliers == Coarse!Recounted(motion)
      <4>1. result' = Coarse!Filled
        BY <1>9, <3>3 DEF Coarse!Finish
      <4>2. /\ result'.transformation = motion /\ result'.inliers = inliers
            /\ result'.score = Coarse!Fitness(motion, inliers) /\ FourShaped'
        <5> DEFINE score == Coarse!Fitness(motion, inliers)
                   good == method = "prosac" \/ Coarse!RansacConverged(inliers)
                   n == IF method = "prosac" THEN iter ELSE result.num_iterations
        <5>1. result' = [result EXCEPT !.transformation = motion, !.inliers = inliers, !.score = score,
                                       !.converged = good, !.num_iterations = n]
          BY <4>1 DEF Coarse!Filled
        <5> HIDE DEF score, good, n, motion, inliers
        <5>2. /\ FourShaped' /\ result'.transformation = motion /\ result'.inliers = inliers
              /\ result'.score = score
          BY <3>1, <5>1, CoarseFills
        <5> QED BY <5>2 DEF score
      <4>3. motion \in {best, Coarse!Agree(best)} /\ inliers = Coarse!Agree(motion)
        BY DEF Coarse!Refined, Coarse!Recounted
      <4> QED BY <2>1, <4>2, <4>3 DEF ResultBelongsTogether, Coarse!Agree, Coarse!Fitness
    <3> QED BY <3>2, <3>3
  <2> QED BY <2>2, <2>3, <2>4 DEF CoarseInv
<1> QED BY <1>1, <1>2, <1>3, <1>4, <1>5, <1>6, <1>7, <1>8, <1>9 DEF Coarse!Next

\* CoarseRegistration: what is returned, and when the pool grows, from the invariant.
LEMMA CoarseIsBest ==
  ASSUME CoarseInv
  PROVE  Coarse!TypeOK /\ Coarse!ResultIsBestTried /\ Coarse!PoolKeepsUp
<1>1. Coarse!TypeOK
  BY DEF CoarseInv, CoarseTyped, PutativeSets, Coarse!TypeOK
<1>2. Coarse!ResultIsBestTried
  BY DEF CoarseInv, BestCounted, ResultBelongsTogether, Coarse!ResultIsBestTried, Coarse!NoMotion
<1>3. Coarse!PoolKeepsUp
  BY DEF CoarseInv, PoolInSchedule, Coarse!PoolKeepsUp
<1> QED BY <1>1, <1>2, <1>3

-------------------------------------------------------------------------------
(* Labelled frames                                                         *)

LEMMA KittiCardinality == \A S : Kitti!Cardinality(S) = Cardinality(S)
BY Zenon DEF Kitti!Cardinality, Cardinality

GoodFiles == {i \in 0 .. Len(LabelFiles) - 1 : Kitti!Good(i)}

\* What a cache holds can be read, and is no more than it may hold.
Fits(cached, n) == cached \subseteq GoodFiles /\ Cardinality(cached) <= n

LEMMA GoodFilesAre ==
  ASSUME LabelsAreKnown, NEW cached \in SUBSET GoodFiles
  PROVE  IsFiniteSet(cached) /\ Cardinality(cached) \in Nat /\ cached \subseteq Nat
<1>1. Len(LabelFiles) \in Nat
  BY DEF LabelsAreKnown
<1>2. IsFiniteSet(0 .. Len(LabelFiles) - 1)
  BY <1>1, FS_Interval
<1>3. cached \in SUBSET (0 .. Len(LabelFiles) - 1)
  BY DEF GoodFiles
<1>4. IsFiniteSet(cached)
  BY <1>2, <1>3, FS_Subset
<1> QED BY <1>3, <1>4, FS_CardinalityType

LEMMA TrimmedFits ==
  ASSUME LabelsAreKnown, NEW cached \in SUBSET GoodFiles, NEW n \in Nat
  PROVE  Fits(Kitti!Trimmed(cached, n), n)
<1> DEFINE T == Kitti!Trimmed(cached, n)
           From(i) == {j \in cached : j >= i}
<1>1. T = {i \in cached : Cardinality(From(i)) <= n}
  BY KittiCardinality DEF Kitti!Trimmed
<1>2. T \subseteq GoodFiles
  BY <1>1
<1>3. CASE T = {}
  <2>1. Cardinality(T) = 0
    BY <1>3, FS_EmptySet
  <2> QED BY <1>2, <2>1 DEF Fits
<1>4. CASE T # {}
  <2>1. PICK m \in T : \A i \in T : m <= i
    <3>1. T \subseteq Nat
      BY <1>2, GoodFilesAre
    <3> HIDE DEF T
    <3> QED BY <1>4, <3>1, Least
  <2>2. cached \subseteq Nat /\ m \in Nat
    BY <1>1, GoodFilesAre
  <2>3. Cardinality(From(m)) <= n /\ T \in SUBSET From(m) /\ From(m) \in SUBSET GoodFiles
    BY <1>1, <2>1, <2>2
  <2> HIDE DEF T, From
  <2>4. IsFiniteSet(From(m)) /\ Cardinality(From(m)) \in Nat /\ Cardinality(T) \in Nat
    BY <1>2, <2>3, GoodFilesAre
  <2>5. Cardinality(T) <= Cardinality(From(m))
    BY <2>3, <2>4, FS_Subset
  <2>6. Cardinality(T) <= n
    BY <2>3, <2>4, <2>5
  <2> QED BY <1>2, <2>6 DEF Fits, T
<1> QED BY <1>3, <1>4

LEMMA LoadFits ==
  ASSUME LabelsAreKnown, NEW cached, Fits(cached, label_cache_size), NEW i \in Nat,
         label_cache_size \in Nat
  PROVE  Fits(Kitti!Load(cached, i), label_cache_size)
<1>1. CASE i \in cached \/ ~Kitti!Good(i)
  BY <1>1 DEF Kitti!Load
<1>2. CASE ~(i \in cached \/ ~Kitti!Good(i))
  <2>1. Len(LabelFiles) \in Nat /\ i < Len(LabelFiles)
    BY <1>2 DEF LabelsAreKnown, Kitti!Good, Kitti!HasFile
  <2>2. i \in GoodFiles
    BY <1>2, <2>1 DEF GoodFiles
  <2>3. cached \cup {i} \in SUBSET GoodFiles
    BY <2>2 DEF Fits
  <2>4. Fits(Kitti!Trimmed(cached \cup {i}, label_cache_size), label_cache_size)
    BY <2>3, TrimmedFits
  <2> QED BY <1>2, <2>4 DEF Kitti!Load
<1> QED BY <1>1, <1>2

\* What load_labels() answers does not depend on the cache.
LEMMA LabelsAreTrue ==
  ASSUME NEW cached \in SUBSET GoodFiles, NEW i
  PROVE  Kitti!Labels(cached, i) = Kitti!OnDisk(i)
BY DEF Kitti!Labels, Kitti!OnDisk, GoodFiles

Answered(i) ==
  IF Kitti!HasFrame(i) THEN [frame |-> i, labels |-> Kitti!TrueLabels(i)] ELSE Kitti!Nullopt

LEMMA FramesAreTrue ==
  ASSUME LabelsAreKnown, NEW cached, Fits(cached, label_cache_size), NEW i \in Nat,
         label_cache_size \in Nat
  PROVE  /\ Fits(Kitti!FrameAt(cached, i).cache, label_cache_size)
         /\ Kitti!FrameAt(cached, i).value = Answered(i)
<1>1. Kitti!Labels(cached, i) = Kitti!OnDisk(i)
  BY LabelsAreTrue DEF Fits
<1>2. Fits(Kitti!Load(cached, i), label_cache_size)
  BY LoadFits
<1> QED BY <1>1, <1>2 DEF Kitti!FrameAt, Kitti!TrueLabels, Answered

\* The function that Loaded is defined by exists.
LEMMA LoadedIs ==
  ASSUME NEW frames, NEW b \in Nat
  PROVE  \E f : /\ f[0] = label_cache
                /\ \A k \in 0 .. b - 1 :
                     f[k + 1] = IF k \in frames THEN Kitti!Load(f[k], k) ELSE f[k]
                /\ Kitti!Loaded(frames, b) = f[b]
<1> DEFINE Val(f, k) == IF k = 0 THEN label_cache
                        ELSE IF k - 1 \in frames THEN Kitti!Load(f[k - 1], k - 1) ELSE f[k - 1]
           Up(f, m) == f = [k \in 0 .. m |-> Val(f, k)]
           T == {m \in 0 .. b : \E f : Up(f, m)}
<1>1. 0 \in T
  <2>1. Up([k \in 0 .. 0 |-> label_cache], 0)
    OBVIOUS
  <2> HIDE DEF Up
  <2> QED BY <2>1
<1>2. ASSUME NEW m \in 0 .. b - 1, m \in T PROVE m + 1 \in T
  <2>1. PICK f : Up(f, m)
    BY <1>2
  <2> DEFINE g == [k \in 0 .. m + 1 |-> IF k <= m THEN f[k] ELSE Val(f, k)]
  <2>2. ASSUME NEW k \in 0 .. m + 1 PROVE g[k] = Val(g, k)
    <3>1. k = 0 \/ (k - 1 \in 0 .. m /\ k - 1 \in 0 .. m + 1 /\ k - 1 <= m)
      OBVIOUS
    <3>2. k - 1 \in 0 .. m => g[k - 1] = f[k - 1]
      OBVIOUS
    <3>3. g[k] = Val(f, k)
      <4>1. k <= m => k \in 0 .. m /\ f[k] = Val(f, k)
        BY <2>1
      <4> QED BY <4>1
    <3> HIDE DEF g
    <3> QED BY <3>1, <3>2, <3>3
  <2>3. g = [k \in 0 .. m + 1 |-> g[k]]
    OBVIOUS
  <2> HIDE DEF g
  <2>4. Up(g, m + 1)
    BY <2>2, <2>3
  <2> HIDE DEF Up
  <2> QED BY <2>4
<1>3. \E f : Up(f, b)
  <2> HIDE DEF T
  <2>1. 0 .. b \subseteq T
    BY <1>1, <1>2, InductionUpTo
  <2> USE DEF T
  <2> HIDE DEF Up
  <2> QED BY <2>1
<1> DEFINE f == CHOOSE f : Up(f, b)
<1>4. Up(f, b)
  BY <1>3
<1>5. Kitti!Loaded(frames, b) = f[b]
  BY DEF Kitti!Loaded
<1> HIDE DEF f
<1>6. f[0] = label_cache
  BY <1>4
<1>7. ASSUME NEW k \in 0 .. b - 1
      PROVE  f[k + 1] = IF k \in frames THEN Kitti!Load(f[k], k) ELSE f[k]
  <2>1. k + 1 \in 0 .. b /\ k + 1 # 0 /\ (k + 1) - 1 = k
    OBVIOUS
  <2>2. f[k + 1] = Val(f, k + 1)
    BY <1>4, <2>1
  <2> QED BY <2>1, <2>2
<1> QED BY <1>5, <1>6, <1>7

LEMMA LoadedFits ==
  ASSUME LabelsAreKnown, Fits(label_cache, label_cache_size), label_cache_size \in Nat,
         NEW frames, NEW b \in Nat
  PROVE  Fits(Kitti!Loaded(frames, b), label_cache_size)
<1>1. PICK f : /\ f[0] = label_cache
               /\ \A k \in 0 .. b - 1 :
                    f[k + 1] = IF k \in frames THEN Kitti!Load(f[k], k) ELSE f[k]
               /\ Kitti!Loaded(frames, b) = f[b]
  BY LoadedIs
<1> DEFINE T == {k \in 0 .. b : Fits(f[k], label_cache_size)}
<1>2. 0 \in T
  BY <1>1
<1>3. ASSUME NEW k \in 0 .. b - 1, k \in T PROVE k + 1 \in T
  <2>1. k \in Nat /\ k + 1 \in 0 .. b /\ Fits(f[k], label_cache_size)
    BY <1>3
  <2>2. Fits(Kitti!Load(f[k], k), label_cache_size)
    BY <2>1, LoadFits
  <2>3. Fits(f[k + 1], label_cache_size)
    BY <1>1, <2>1, <2>2
  <2> QED BY <2>1, <2>3
<1> HIDE DEF T
<1>4. b \in T
  BY <1>2, <1>3, InductionUpTo
<1> QED BY <1>1, <1>4 DEF T

LEMMA ScannedIs ==
  ASSUME LabelsAreKnown, Fits(label_cache, label_cache_size), label_cache_size \in Nat,
         NEW n \in Nat
  PROVE  /\ Kitti!Scanned(n) = [i \in 0 .. n - 1 |-> Kitti!OnDisk(i)]
         /\ Kitti!Visited(n) = [i \in 0 .. n - 1 |-> Answered(i)]
<1>1. ASSUME NEW i \in 0 .. n - 1
      PROVE  /\ Kitti!Labels(Kitti!Loaded(Kitti!Frame, i), i) = Kitti!OnDisk(i)
             /\ Kitti!FrameAt(Kitti!Loaded(Kitti!Labelled, i), i).value = Answered(i)
  <2>1. i \in Nat
    OBVIOUS
  <2>2. /\ Fits(Kitti!Loaded(Kitti!Frame, i), label_cache_size)
        /\ Fits(Kitti!Loaded(Kitti!Labelled, i), label_cache_size)
    BY <2>1, LoadedFits
  <2>3. Kitti!Labels(Kitti!Loaded(Kitti!Frame, i), i) = Kitti!OnDisk(i)
    BY <2>2, LabelsAreTrue DEF Fits
  <2>4. Kitti!FrameAt(Kitti!Loaded(Kitti!Labelled, i), i).value = Answered(i)
    BY <2>1, <2>2, FramesAreTrue
  <2> QED BY <2>3, <2>4
<1> QED BY <1>1 DEF Kitti!Scanned, Kitti!Visited

KittiSound ==
  /\ Fits(label_cache, label_cache_size) /\ label_cache_size \in CacheSizes \cup {DefaultSize}
  /\ unique_labels_cached_ \in BOOLEAN /\ unique_labels_cache_ \subseteq LabelIds
  /\ skip_ \in Skips

KittiAnswer(a, v) ==
  CASE answer.call = "at" -> v # Kitti!Nullopt => v.labels = Kitti!TrueLabels(a)
    [] answer.call = "pair" -> v # Kitti!Nullopt =>
         /\ v.target = v.source + skip_ /\ {v.source, v.target} \subseteq Kitti!Frame
         /\ v.labels = Kitti!TrueLabels(v.source) \o Kitti!TrueLabels(v.target)
    [] answer.call = "frames" ->
         v = {i \in Kitti!Frame : Kitti!Has(Kitti!OnDisk(i), a[1], a[2])}
    [] answer.call = "statistics" -> \A id \in LabelIds :
         v[id] = Kitti!Cardinality({e \in (0 .. a - 1) \X (1 .. 3) :
                   /\ Kitti!HasFrame(e[1]) /\ e[2] <= Len(Kitti!TrueLabels(e[1]))
                   /\ Kitti!TrueLabels(e[1])[e[2]] = id})
    [] answer.call = "unique" -> a => v = Kitti!AllIds
    [] OTHER -> TRUE

LEMMA KittiTransparent ==
  Kitti!CacheIsTransparent <=> KittiSound /\ KittiAnswer(answer.argument, answer.value)
BY KittiCardinality DEF Kitti!CacheIsTransparent, Kitti!TypeOK, KittiSound, KittiAnswer, Fits, GoodFiles

LEMMA KittiStarts ==
  ASSUME LabelsAreKnown, Kitti!Init
  PROVE  Kitti!CacheIsTransparent
<1>1. KittiSound
  <2>1. Cardinality({}) = 0
    BY FS_EmptySet
  <2>2. Fits({}, DefaultSize)
    BY <2>1 DEF Fits, LabelsAreKnown
  <2> QED BY <2>2 DEF Kitti!Init, KittiSound
<1>2. answer.call = "none"
  BY DEF Kitti!Init, Kitti!Asked
<1>3. KittiAnswer(answer.argument, answer.value)
  BY <1>2 DEF KittiAnswer
<1> QED BY <1>1, <1>3, KittiTransparent

\* A call that leaves the configuration alone.
LEMMA KittiSoundly ==
  ASSUME KittiSound, UNCHANGED <<label_cache_size, unique_labels_cached_, unique_labels_cache_, skip_>>,
         Fits(label_cache', label_cache_size)
  PROVE  KittiSound'
BY DEF KittiSound, Fits

LEMMA KittiNumbers ==
  ASSUME LabelsAreKnown, KittiSound
  PROVE  label_cache_size \in Nat /\ Kitti!NFrames \in Nat /\ skip_ \in Nat
         /\ Fits(label_cache, label_cache_size)
BY DEF LabelsAreKnown, KittiSound, Kitti!NFrames

LEMMA KittiAsks ==
  ASSUME NEW c, NEW a, NEW v, answer' = Kitti!Asked(c, a, v)
  PROVE  answer'.call = c /\ answer'.argument = a /\ answer'.value = v
BY DEF Kitti!Asked

LEMMA KittiAt ==
  ASSUME LabelsAreKnown, KittiSound, NEW i \in Nat, Kitti!At(i)
  PROVE  Kitti!CacheIsTransparent'
<1>1. /\ UNCHANGED <<label_cache_size, validate_labels_, unique_labels_cached_, unique_labels_cache_,
                     skip_>>
      /\ label_cache' = Kitti!FrameAt(label_cache, i).cache
      /\ answer' = Kitti!Asked("at", i, Kitti!FrameAt(label_cache, i).value)
  BY DEF Kitti!At, Kitti!config_vars
<1>2. /\ Fits(Kitti!FrameAt(label_cache, i).cache, label_cache_size)
      /\ Kitti!FrameAt(label_cache, i).value = Answered(i)
  BY KittiNumbers, FramesAreTrue
<1>3. KittiSound'
  BY <1>1, <1>2, KittiSoundly
<1>4. answer'.call = "at" /\ answer'.argument = i /\ answer'.value = Answered(i)
  BY <1>1, <1>2, KittiAsks
<1>5. Answered(i) # Kitti!Nullopt => Answered(i).labels = Kitti!TrueLabels(i)
  BY DEF Answered
<1>6. Kitti!TrueLabels(i)' = Kitti!TrueLabels(i)
  BY <1>1 DEF Kitti!TrueLabels, Kitti!FrameLabels
<1>7. KittiAnswer(answer.argument, answer.value)'
  BY <1>4, <1>5, <1>6 DEF KittiAnswer
<1> QED BY <1>3, <1>7, KittiTransparent, PTL

LEMMA KittiPair ==
  ASSUME LabelsAreKnown, KittiSound, NEW k \in Nat, Kitti!Pair(k)
  PROVE  Kitti!CacheIsTransparent'
<1> DEFINE first == Kitti!FrameAt(label_cache, k)
           second == Kitti!FrameAt(first.cache, k + skip_)
           both == Kitti!PairAt(label_cache, k)
<1>1. /\ UNCHANGED <<label_cache_size, validate_labels_, unique_labels_cached_, unique_labels_cache_,
                     skip_>>
      /\ label_cache' = both.cache /\ answer' = Kitti!Asked("pair", k, both.value)
  BY DEF Kitti!Pair, Kitti!config_vars
<1>2. Fits(first.cache, label_cache_size) /\ first.value = Answered(k)
  BY KittiNumbers, FramesAreTrue
<1>3. Fits(second.cache, label_cache_size) /\ second.value = Answered(k + skip_)
  <2>1. k + skip_ \in Nat /\ label_cache_size \in Nat
    BY KittiNumbers
  <2> HIDE DEF first
  <2> QED BY <1>2, <2>1, FramesAreTrue
<1>4. /\ Fits(both.cache, label_cache_size)
      /\ both.value # Kitti!Nullopt =>
           /\ k < Kitti!PairCount(Kitti!NFrames) /\ first.value # Kitti!Nullopt
           /\ second.value # Kitti!Nullopt
           /\ both.value = [labels |-> first.value.labels \o second.value.labels,
                            source |-> k, target |-> k + skip_]
  <2> DEFINE count == Kitti!PairCount(Kitti!NFrames)
             found == [cache |-> second.cache, value |->
                       IF second.value = Kitti!Nullopt
                            \/ (filter_by_motion_ /\ ~Kitti!MovesEnough(k, k + skip_))
                       THEN Kitti!Nullopt
                       ELSE [labels |-> first.value.labels \o second.value.labels,
                             source |-> k, target |-> k + skip_]]
  <2>1. both = CASE k >= count -> [cache |-> label_cache, value |-> Kitti!Nullopt]
                 [] k < count /\ first.value = Kitti!Nullopt -> first
                 [] OTHER -> found
    BY DEF Kitti!PairAt
  <2>2. count \in Nat /\ Fits(label_cache, label_cache_size)
    BY KittiNumbers DEF Kitti!PairCount
  <2>3. found.cache = second.cache /\ (found.value # Kitti!Nullopt =>
          /\ second.value # Kitti!Nullopt
          /\ found.value = [labels |-> first.value.labels \o second.value.labels,
                            source |-> k, target |-> k + skip_])
    <3> HIDE DEF second, first
    <3> QED OBVIOUS
  <2> HIDE DEF both, first, second, count, found
  <2>4. CASE k >= count
    <3>1. both = [cache |-> label_cache, value |-> Kitti!Nullopt]
      BY <2>1, <2>2, <2>4
    <3> QED BY <2>2, <3>1
  <2>5. CASE k < count /\ first.value = Kitti!Nullopt
    <3>1. both = first
      BY <2>1, <2>2, <2>5
    <3> QED BY <1>2, <2>5, <3>1
  <2>6. CASE k < count /\ first.value # Kitti!Nullopt
    <3>1. both = found
      BY <2>1, <2>2, <2>6
    <3> QED BY <1>3, <2>3, <2>6, <3>1 DEF count
  <2> QED BY <2>2, <2>4, <2>5, <2>6
<1>5. KittiSound'
  <2> HIDE DEF both
  <2> QED BY <1>1, <1>4, KittiSoundly
<1>6. answer'.call = "pair" /\ answer'.argument = k /\ answer'.value = both.value
  BY <1>1, KittiAsks
<1>7. both.value # Kitti!Nullopt =>
        /\ both.value.target = both.value.source + skip_
        /\ {both.value.source, both.value.target} \subseteq Kitti!Frame
        /\ both.value.labels = Kitti!TrueLabels(both.value.source) \o Kitti!TrueLabels(both.value.target)
  <2> SUFFICES ASSUME both.value # Kitti!Nullopt
               PROVE  /\ both.value.target = both.value.source + skip_
                      /\ {both.value.source, both.value.target} \subseteq Kitti!Frame
                      /\ both.value.labels = Kitti!TrueLabels(both.value.source)
                                               \o Kitti!TrueLabels(both.value.target)
    OBVIOUS
  <2> HIDE DEF both, first, second
  <2>1. /\ k < Kitti!PairCount(Kitti!NFrames)
        /\ both.value = [labels |-> first.value.labels \o second.value.labels,
                         source |-> k, target |-> k + skip_]
    BY <1>4
  <2>2. k \in Kitti!Frame /\ k + skip_ \in Kitti!Frame
    BY <2>1, KittiNumbers DEF Kitti!PairCount, Kitti!Frame
  <2>3. first.value.labels = Kitti!TrueLabels(k) /\ second.value.labels = Kitti!TrueLabels(k + skip_)
    BY <1>2, <1>3, <1>4 DEF Answered
  <2> QED BY <2>1, <2>2, <2>3
<1>8. \A i : Kitti!TrueLabels(i)' = Kitti!TrueLabels(i)
  BY <1>1 DEF Kitti!TrueLabels, Kitti!FrameLabels
<1>9. KittiAnswer(answer.argument, answer.value)'
  <2> HIDE DEF both
  <2> QED BY <1>1, <1>6, <1>7, <1>8 DEF KittiAnswer, Kitti!Frame
<1> QED BY <1>5, <1>9, KittiTransparent, PTL

\* A call that says nothing of the labels.
LEMMA KittiOther ==
  ASSUME NEW c, NEW a, NEW v, answer' = Kitti!Asked(c, a, v), KittiSound',
         c # "at", c # "pair", c # "frames", c # "statistics", c # "unique"
  PROVE  Kitti!CacheIsTransparent'
<1>1. answer'.call = c
  BY KittiAsks
<1>2. KittiAnswer(answer.argument, answer.value)'
  BY <1>1 DEF KittiAnswer
<1> QED BY <1>2, KittiTransparent, PTL

LEMMA KittiUnique ==
  ASSUME LabelsAreKnown, KittiSound, NEW scan_all \in BOOLEAN, Kitti!GetUniqueLabels(scan_all)
  PROVE  Kitti!CacheIsTransparent'
<1> DEFINE n == IF scan_all THEN Kitti!NFrames ELSE Kitti!Smaller(Kitti!NFrames, MaxScan)
           unique == IF LabelFiles = <<>> THEN {Kitti!Unlabeled} ELSE Kitti!Ids(Kitti!Scanned(n))
<1>1. UNCHANGED <<label_cache_size, validate_labels_, skip_>>
  BY DEF Kitti!GetUniqueLabels, Kitti!config_vars
<1>2. /\ ~scan_all /\ unique_labels_cached_ =>
           /\ answer' = Kitti!Asked("unique", scan_all, unique_labels_cache_)
           /\ UNCHANGED <<label_cache, unique_labels_cached_, unique_labels_cache_>>
      /\ ~(~scan_all /\ unique_labels_cached_) =>
           /\ answer' = Kitti!Asked("unique", scan_all, unique)
           /\ LabelFiles = <<>> =>
                UNCHANGED <<label_cache, unique_labels_cached_, unique_labels_cache_>>
           /\ LabelFiles # <<>> =>
                /\ label_cache' = Kitti!Loaded(Kitti!Frame, n)
                /\ unique_labels_cached_' = (unique_labels_cached_ \/ scan_all)
                /\ unique_labels_cache_' = IF scan_all THEN unique ELSE unique_labels_cache_
  BY DEF Kitti!GetUniqueLabels, Kitti!cache_vars
<1>3. n \in Nat /\ Fits(label_cache, label_cache_size) /\ label_cache_size \in Nat
  BY KittiNumbers DEF LabelsAreKnown, Kitti!Smaller
<1> HIDE DEF n
<1>4. Kitti!Scanned(n) = [i \in 0 .. n - 1 |-> Kitti!OnDisk(i)]
  BY <1>3, ScannedIs
<1>5. Kitti!Ids(Kitti!Scanned(n)) \subseteq LabelIds
  <2>1. ASSUME NEW i \in Nat PROVE Kitti!OnDisk(i) \in Seq(LabelIds)
    <3>1. CASE Kitti!Good(i)
      <4>1. i + 1 \in 1 .. Len(LabelFiles) /\ LabelFiles[i + 1] # Corrupt
        BY <3>1 DEF Kitti!Good, Kitti!HasFile, LabelsAreKnown
      <4>2. LabelFiles[i + 1] \in Seq(LabelIds) \cup {Corrupt}
        BY <4>1 DEF LabelsAreKnown
      <4> QED BY <3>1, <4>1, <4>2 DEF Kitti!OnDisk
    <3>2. CASE ~Kitti!Good(i)
      BY <3>2 DEF Kitti!OnDisk
    <3> QED BY <3>1, <3>2
  <2>2. ASSUME NEW i \in 0 .. n - 1 PROVE Kitti!Within(Kitti!OnDisk(i)) \subseteq LabelIds
    <3>1. Kitti!OnDisk(i) \in Seq(LabelIds)
      BY <1>3, <2>1
    <3> QED BY <3>1 DEF Kitti!Within
  <2> QED BY <1>3, <1>4, <2>2 DEF Kitti!Ids
<1>6. scan_all => unique = Kitti!AllIds
  <2> SUFFICES ASSUME scan_all PROVE unique = Kitti!AllIds
    OBVIOUS
  <2>1. Kitti!Scanned(n) = [i \in Kitti!Frame |-> Kitti!OnDisk(i)]
    BY <1>4 DEF n, Kitti!Frame
  <2> QED BY <2>1 DEF Kitti!AllIds
<1>7. KittiSound'
  <2>1. Fits(Kitti!Loaded(Kitti!Frame, n), label_cache_size)
    BY <1>3, LoadedFits
  <2>2. Fits(label_cache', label_cache_size')
    BY <1>1, <1>2, <1>3, <2>1
  <2>3. unique_labels_cached_' \in BOOLEAN /\ unique_labels_cache_' \subseteq LabelIds
    BY <1>2, <1>5 DEF KittiSound
  <2> QED BY <1>1, <2>2, <2>3 DEF KittiSound, Fits
<1>8. PICK v : answer' = Kitti!Asked("unique", scan_all, v) /\ (scan_all => v = unique)
  BY <1>2
<1>9. answer'.call = "unique" /\ answer'.argument = scan_all /\ answer'.value = v
  BY <1>8, KittiAsks
<1>10. Kitti!AllIds' = Kitti!AllIds
  BY DEF Kitti!AllIds, Kitti!Ids, Kitti!OnDisk, Kitti!Frame
<1>11. KittiAnswer(answer.argument, answer.value)'
  <2> HIDE DEF unique
  <2> QED BY <1>6, <1>8, <1>9, <1>10 DEF KittiAnswer
<1> QED BY <1>7, <1>11, KittiTransparent, PTL

LEMMA KittiStatistics ==
  ASSUME LabelsAreKnown, KittiSound, NEW max_frames \in Nat, Kitti!ComputeLabelStatistics(max_frames)
  PROVE  Kitti!CacheIsTransparent'
<1> DEFINE n == IF max_frames = 0 THEN Kitti!NFrames ELSE Kitti!Smaller(max_frames, Kitti!NFrames)
           values == Kitti!Visited(n)
           Counted(id) == {e \in (0 .. n - 1) \X (1 .. 3) :
                             /\ values[e[1]] # Kitti!Nullopt
                             /\ e[2] <= Len(values[e[1]].labels) /\ values[e[1]].labels[e[2]] = id}
           Meant(id) == {e \in (0 .. n - 1) \X (1 .. 3) :
                           /\ Kitti!HasFrame(e[1]) /\ e[2] <= Len(Kitti!TrueLabels(e[1]))
                           /\ Kitti!TrueLabels(e[1])[e[2]] = id}
           v == [id \in LabelIds |-> Kitti!Cardinality(Counted(id))]
<1>1. /\ UNCHANGED <<label_cache_size, validate_labels_, unique_labels_cached_, unique_labels_cache_,
                     skip_>>
      /\ label_cache' = Kitti!Loaded(Kitti!Labelled, n) /\ answer' = Kitti!Asked("statistics", n, v)
  BY DEF Kitti!ComputeLabelStatistics, Kitti!config_vars
<1>2. n \in Nat /\ Fits(label_cache, label_cache_size) /\ label_cache_size \in Nat
  BY KittiNumbers DEF Kitti!Smaller
<1> HIDE DEF n
<1>3. values = [i \in 0 .. n - 1 |-> Answered(i)]
  BY <1>2, ScannedIs
<1>4. ASSUME NEW id PROVE Counted(id) = Meant(id)
  <2>1. \A i \in 0 .. n - 1 : values[i] = Answered(i)
    BY <1>3
  <2> HIDE DEF values
  <2>2. \A i : Answered(i) # Kitti!Nullopt <=> Kitti!HasFrame(i)
    BY DEF Answered, Kitti!Nullopt
  <2>3. \A i : Kitti!HasFrame(i) => Answered(i).labels = Kitti!TrueLabels(i)
    BY DEF Answered
  <2>4. \A e \in (0 .. n - 1) \X (1 .. 3) : values[e[1]] = Answered(e[1])
    BY <2>1
  <2> QED BY <2>2, <2>3, <2>4
<1>5. KittiSound'
  <2>1. Fits(Kitti!Loaded(Kitti!Labelled, n), label_cache_size)
    BY <1>2, LoadedFits
  <2> QED BY <1>1, <2>1, KittiSoundly
<1>6. answer'.call = "statistics" /\ answer'.argument = n /\ answer'.value = v
  <2> HIDE DEF v
  <2> QED BY <1>1, KittiAsks
<1>7. \A i : Kitti!TrueLabels(i)' = Kitti!TrueLabels(i) /\ (Kitti!HasFrame(i)' <=> Kitti!HasFrame(i))
  BY <1>1 DEF Kitti!TrueLabels, Kitti!FrameLabels, Kitti!HasFrame
<1>8. \A id \in LabelIds : v[id] = Kitti!Cardinality(Meant(id))
  <2> HIDE DEF Counted, Meant
  <2> QED BY <1>4
<1>9. \A id : {e \in (0 .. n - 1) \X (1 .. 3) :
                /\ Kitti!HasFrame(e[1])' /\ e[2] <= Len(Kitti!TrueLabels(e[1])')
                /\ Kitti!TrueLabels(e[1])'[e[2]] = id} = Meant(id)
  BY <1>7
<1>10. KittiAnswer(answer.argument, answer.value)'
  <2> HIDE DEF v, Meant
  <2> QED BY <1>6, <1>8, <1>9 DEF KittiAnswer
<1> QED BY <1>5, <1>10, KittiTransparent, PTL

LEMMA KittiFrames ==
  ASSUME LabelsAreKnown, KittiSound, NEW id, NEW n, Kitti!GetFramesWithLabel(id, n)
  PROVE  Kitti!CacheIsTransparent'
<1> DEFINE labels_ == Kitti!Scanned(Kitti!NFrames)
           v == {i \in Kitti!Frame : Kitti!Has(labels_[i], id, n)}
<1>1. /\ UNCHANGED <<label_cache_size, validate_labels_, unique_labels_cached_, unique_labels_cache_,
                     skip_>>
      /\ label_cache' = Kitti!Loaded(Kitti!Frame, Kitti!NFrames)
      /\ answer' = Kitti!Asked("frames", <<id, n>>, v)
  BY DEF Kitti!GetFramesWithLabel, Kitti!config_vars
<1>2. /\ Kitti!NFrames \in Nat /\ Fits(label_cache, label_cache_size) /\ label_cache_size \in Nat
  BY KittiNumbers
<1>3. labels_ = [i \in Kitti!Frame |-> Kitti!OnDisk(i)]
  BY <1>2, ScannedIs DEF Kitti!Frame
<1>4. v = {i \in Kitti!Frame : Kitti!Has(Kitti!OnDisk(i), id, n)}
  <2> HIDE DEF labels_
  <2> QED BY <1>3
<1>5. KittiSound'
  <2>1. Fits(Kitti!Loaded(Kitti!Frame, Kitti!NFrames), label_cache_size)
    BY <1>2, LoadedFits
  <2> QED BY <1>1, <2>1, KittiSoundly
<1>6. answer'.call = "frames" /\ answer'.argument = <<id, n>> /\ answer'.value = v
  <2> HIDE DEF v
  <2> QED BY <1>1, KittiAsks
<1>7. KittiAnswer(answer.argument, answer.value)'
  <2> HIDE DEF v
  <2> QED BY <1>4, <1>6 DEF KittiAnswer, Kitti!Frame, Kitti!Has, Kitti!OnDisk
<1> QED BY <1>5, <1>7, KittiTransparent, PTL

LEMMA KittiKeeps ==
  ASSUME LabelsAreKnown, Kitti!CacheIsTransparent, [Kitti!Next]_(Kitti!dataset_vars)
  PROVE  Kitti!CacheIsTransparent'
<1>1. KittiSound /\ KittiAnswer(answer.argument, answer.value)
  BY KittiTransparent
<1>2. label_cache_size \in Nat /\ Kitti!NFrames \in Nat /\ Fits(label_cache, label_cache_size)
  BY <1>1, KittiNumbers
<1> USE DEF Kitti!cache_vars, Kitti!config_vars
<1>3. ASSUME UNCHANGED Kitti!dataset_vars PROVE Kitti!CacheIsTransparent'
  <2>1. UNCHANGED <<label_cache, label_cache_size, validate_labels_, unique_labels_cached_,
                    unique_labels_cache_, skip_, answer>>
    BY <1>3 DEF Kitti!dataset_vars
  <2>2. KittiSound'
    BY <1>1, <1>2, <2>1, KittiSoundly
  <2>3. KittiAnswer(answer.argument, answer.value)'
    BY <1>1, <2>1 DEF KittiAnswer, Kitti!TrueLabels, Kitti!FrameLabels, Kitti!HasFrame
  <2> QED BY <2>2, <2>3, KittiTransparent, PTL
<1>4. ASSUME NEW i \in 0 .. Kitti!NFrames, Kitti!At(i) \/ Kitti!Pair(i) \/ Kitti!OdometryPair(i)
      PROVE  Kitti!CacheIsTransparent'
  <2>1. i \in Nat
    BY <1>2
  <2>2. CASE Kitti!At(i)
    BY <1>1, <2>1, <2>2, KittiAt
  <2>3. CASE Kitti!Pair(i)
    BY <1>1, <2>1, <2>3, KittiPair
  <2>4. CASE Kitti!OdometryPair(i)
    <3>1. /\ UNCHANGED <<label_cache, label_cache_size, unique_labels_cached_, unique_labels_cache_,
                         skip_>>
          /\ answer' = Kitti!Asked("odometry", i, Kitti!OdometryPairAt(i))
      BY <2>4 DEF Kitti!OdometryPair
    <3>2. KittiSound'
      BY <1>1, <1>2, <3>1, KittiSoundly
    <3> QED BY <3>1, <3>2, KittiOther
  <2> QED BY <1>4, <2>2, <2>3, <2>4
<1>5. ASSUME NEW scan_all \in BOOLEAN, Kitti!GetUniqueLabels(scan_all) PROVE Kitti!CacheIsTransparent'
  BY <1>1, <1>5, KittiUnique
<1>6. ASSUME NEW n \in 0 .. Kitti!NFrames, Kitti!ComputeLabelStatistics(n)
      PROVE  Kitti!CacheIsTransparent'
  <2>1. n \in Nat
    BY <1>2
  <2> QED BY <1>1, <1>6, <2>1, KittiStatistics
<1>7. ASSUME NEW id \in LabelIds, NEW n \in {1, 2}, Kitti!GetFramesWithLabel(id, n)
      PROVE  Kitti!CacheIsTransparent'
  BY <1>1, <1>7, KittiFrames
<1>8. ASSUME Kitti!GetPairsWithMotion PROVE Kitti!CacheIsTransparent'
  <2>1. UNCHANGED <<label_cache, label_cache_size, unique_labels_cached_, unique_labels_cache_, skip_>>
    BY <1>8 DEF Kitti!GetPairsWithMotion
  <2>2. PICK v : answer' = Kitti!Asked("motion", min_translation, v)
    BY <1>8 DEF Kitti!GetPairsWithMotion
  <2>3. KittiSound'
    BY <1>1, <1>2, <2>1, KittiSoundly
  <2> QED BY <2>2, <2>3, KittiOther
<1>9. ASSUME NEW n \in CacheSizes, Kitti!SetCacheSize(n) PROVE Kitti!CacheIsTransparent'
  <2>1. /\ label_cache_size' = n /\ label_cache' = Kitti!Trimmed(label_cache, n)
        /\ answer' = Kitti!Asked("size", n, Kitti!Nullopt)
        /\ UNCHANGED <<unique_labels_cached_, unique_labels_cache_, skip_>>
    BY <1>9 DEF Kitti!SetCacheSize
  <2>2. n \in Nat /\ label_cache \in SUBSET GoodFiles
    BY <1>2 DEF LabelsAreKnown, Fits
  <2>3. Fits(Kitti!Trimmed(label_cache, n), n)
    BY <2>2, TrimmedFits
  <2>4. KittiSound'
    BY <1>1, <2>1, <2>3 DEF KittiSound, Fits
  <2> QED BY <2>1, <2>4, KittiOther
<1>10. ASSUME NEW n \in Skips, Kitti!SetSkip(n) PROVE Kitti!CacheIsTransparent'
  <2>1. /\ skip_' = n /\ answer' = Kitti!Asked("skip", n, Kitti!Nullopt)
        /\ UNCHANGED <<label_cache, label_cache_size, unique_labels_cached_, unique_labels_cache_>>
    BY <1>10 DEF Kitti!SetSkip
  <2>2. KittiSound'
    BY <1>1, <2>1 DEF KittiSound, Fits
  <2> QED BY <2>1, <2>2, KittiOther
<1>11. ASSUME Kitti!ClearCache PROVE Kitti!CacheIsTransparent'
  <2>1. /\ label_cache' = {} /\ unique_labels_cache_' = {}
        /\ answer' = Kitti!Asked("clear", 0, Kitti!Nullopt)
        /\ UNCHANGED <<label_cache_size, unique_labels_cached_, skip_>>
    BY <1>11 DEF Kitti!ClearCache
  <2>2. Cardinality({}) = 0 /\ Cardinality({}) <= label_cache_size
    BY <1>2, FS_EmptySet
  <2>3. KittiSound'
    BY <1>1, <2>1, <2>2 DEF KittiSound, Fits
  <2> QED BY <2>1, <2>3, KittiOther
<1> QED BY <1>3, <1>4, <1>5, <1>6, <1>7, <1>8, <1>9, <1>10, <1>11 DEF Kitti!Next

-------------------------------------------------------------------------------
(* Correspondences                                                         *)

MatchTyped ==
  /\ method \in Generators /\ m_knn \in BOOLEAN
  /\ source \in Views \cup {NoView} /\ target \in Views \cup {NoView}
  /\ m_ratio \in Int /\ m_mutual_verification \in BOOLEAN /\ m_distance_threshold \in Int
  /\ phase \in {"idle", "search"} /\ results \in Seq(Seq(Nat))

\* While it searches, each descriptor of the source waits or has its nearest ones.
Searched ==
  /\ Match!Fits(source) /\ Match!Fits(target)
  /\ DOMAIN results = DOMAIN source.descriptors
  /\ \A i \in DOMAIN results :
       \/ results[i] = Match!Waiting
       \/ results[i] \in Match!Nearest(source.descriptors[i], target.descriptors, 2)

MatchInv == MatchTyped /\ (phase = "search" => Searched) /\ Match!MatchesAreMutual

Pairing == [src_idx : Nat, dst_idx : Nat, distance : Nat]

LEMMA MatchCardinality == \A S : Match!Cardinality(S) = Cardinality(S)
BY Zenon DEF Match!Cardinality, Cardinality

LEMMA MatchWithout == \A s, X : Match!Without(s, X) = Without(s, X)
BY Zenon DEF Match!Without, Without

LEMMA MatchRange == \A s : Match!Range(s) = Entries(s)
BY DEF Match!Range, Entries

LEMMA Distances ==
  ASSUME NEW a \in Int, NEW b \in Int
  PROVE  Match!Distance(a, b) \in Nat /\ Match!Distance(a, b) = Match!Distance(b, a)
BY DEF Match!Distance

LEMMA NearestTwo ==
  ASSUME NEW d \in Int, NEW t \in Seq(Int), NEW s \in Match!Nearest(d, t, 2)
  PROVE  /\ s \in Seq(Nat) /\ s # Match!Waiting
         /\ t = <<>> => s = <<>>
         /\ t # <<>> =>
              /\ Len(s) \in 1 .. 2 /\ s[1] \in DOMAIN t
              /\ \A j \in DOMAIN t : Match!Distance(d, t[s[1]]) <= Match!Distance(d, t[j])
         /\ t # <<>> /\ Len(s) < 2 => DOMAIN t = {s[1]}
         /\ Len(s) = 2 =>
              /\ s[2] \in DOMAIN t /\ s[2] # s[1]
              /\ \A j \in DOMAIN t \ {s[1]} : Match!Distance(d, t[s[2]]) <= Match!Distance(d, t[j])
<1> DEFINE n == Match!Smaller(2, Len(t))
           D(i) == Match!Distance(d, t[i])
<1>1. Len(t) \in Nat /\ DOMAIN t = 1 .. Len(t) /\ \A i \in DOMAIN t : D(i) \in Nat
  <2>1. Len(t) \in Nat /\ DOMAIN t = 1 .. Len(t)
    OBVIOUS
  <2>2. ASSUME NEW k \in DOMAIN t PROVE D(k) \in Nat
    <3>1. t[k] \in Int
      OBVIOUS
    <3> QED BY <3>1, Distances
  <2> QED BY <2>1, <2>2
<1>2. n \in 0 .. 2 /\ n <= Len(t) /\ (n < 2 => n = Len(t))
  BY <1>1 DEF Match!Smaller
<1>3. /\ s \in [1 .. n -> DOMAIN t]
      /\ \A k, l \in 1 .. n : s[k] = s[l] => k = l
      /\ \A k, l \in 1 .. n : k < l => D(s[k]) <= D(s[l])
      /\ \A k \in 1 .. n, i \in DOMAIN t : i \notin Match!Range(s) => D(s[k]) <= D(i)
  <2>1. /\ s \in [1 .. n -> DOMAIN t] /\ Match!IsInjective(s)
        /\ \A k \in DOMAIN s, l \in DOMAIN s : k < l => D(s[k]) < D(s[l]) \/ D(s[k]) = D(s[l])
        /\ \A k \in DOMAIN s, i \in DOMAIN t :
             i \notin Match!Range(s) => D(s[k]) < D(i) \/ D(s[k]) = D(i)
    BY DEF Match!Nearest, Match!Away
  <2> HIDE DEF n, D
  <2>2. DOMAIN s = 1 .. n /\ \A k \in 1 .. n : s[k] \in DOMAIN t /\ D(s[k]) \in Nat
    BY <1>1, <2>1
  <2>3. \A k, l \in 1 .. n : s[k] = s[l] => k = l
    BY <2>1, <2>2 DEF Match!IsInjective
  <2>4. ASSUME NEW k \in 1 .. n, NEW l \in 1 .. n, k < l PROVE D(s[k]) <= D(s[l])
    <3>1. D(s[k]) < D(s[l]) \/ D(s[k]) = D(s[l])
      BY <2>1, <2>2, <2>4
    <3>2. D(s[k]) \in Nat /\ D(s[l]) \in Nat
      BY <2>2
    <3> QED BY <3>1, <3>2
  <2>5. ASSUME NEW k \in 1 .. n, NEW i \in DOMAIN t, i \notin Match!Range(s) PROVE D(s[k]) <= D(i)
    <3>1. D(s[k]) < D(i) \/ D(s[k]) = D(i)
      BY <2>1, <2>2, <2>5
    <3>2. D(s[k]) \in Nat /\ D(i) \in Nat
      BY <1>1, <2>2
    <3> QED BY <3>1, <3>2
  <2> QED BY <2>1, <2>3, <2>4, <2>5
<1> HIDE DEF n, D
<1>4. /\ s \in Seq(DOMAIN t) /\ Len(s) = n /\ s \in Seq(Nat) /\ \A k \in 1 .. n : s[k] \in DOMAIN t
      /\ Match!Range(s) = {s[k] : k \in 1 .. n}
  <2>1. DOMAIN s = 1 .. n /\ \A k \in 1 .. n : s[k] \in DOMAIN t
    BY <1>3
  <2>2. n \in Nat /\ s \in Seq(DOMAIN t)
    BY <1>2, <1>3
  <2>3. Len(s) = n /\ \A k \in 1 .. n : s[k] \in Nat
    BY <1>1, <2>1, <2>2
  <2>4. s \in Seq(Nat)
    BY <2>1, <2>2, <2>3
  <2> QED BY <2>1, <2>2, <2>3, <2>4 DEF Match!Range
<1>5. s # Match!Waiting
  <2>1. CASE s = Match!Waiting
    <3>1. n = 1 /\ s[1] = 0
      BY <1>4, <2>1 DEF Match!Waiting
    <3> QED BY <1>1, <1>4, <3>1
  <2> QED BY <2>1
<1>6. t = <<>> => s = <<>>
  BY <1>2, <1>4
<1>7. ASSUME t # <<>>
      PROVE  n \in 1 .. 2 /\ s[1] \in DOMAIN t /\ \A j \in DOMAIN t : D(s[1]) <= D(j)
  <2>1. Len(t) # 0
    BY <1>7
  <2>2. n \in 1 .. 2 /\ 1 \in 1 .. n /\ s[1] \in DOMAIN t
    <3>1. n \in {0, 1, 2}
      BY <1>2
    <3>2. n # 0
      BY <1>2, <2>1
    <3>3. n \in 1 .. 2
      BY <3>1, <3>2
    <3> QED BY <1>4, <3>3
  <2>3. ASSUME NEW j \in DOMAIN t PROVE D(s[1]) <= D(j)
    <3>1. CASE j \notin Match!Range(s)
      BY <1>3, <2>2, <3>1
    <3>2. CASE j \in Match!Range(s)
      <4>1. PICK k \in 1 .. n : j = s[k]
        BY <1>4, <3>2
      <4>2. k = 1 \/ 1 < k
        OBVIOUS
      <4>3. D(s[1]) \in Nat
        BY <1>1, <2>2
      <4> QED BY <1>3, <2>2, <4>1, <4>2, <4>3
    <3> QED BY <3>1, <3>2
  <2> QED BY <2>2, <2>3
<1>8. ASSUME t # <<>>, n < 2 PROVE DOMAIN t = {s[1]}
  <2>1. n = 1 /\ Len(t) = 1 /\ s[1] \in DOMAIN t
    BY <1>2, <1>7, <1>8
  <2> QED BY <1>1, <2>1
<1>9. ASSUME n = 2
      PROVE  /\ s[2] \in DOMAIN t /\ s[2] # s[1]
             /\ \A j \in DOMAIN t \ {s[1]} : D(s[2]) <= D(j)
  <2>1. 1 \in 1 .. n /\ 2 \in 1 .. n /\ s[2] \in DOMAIN t /\ s[2] # s[1] /\ D(s[2]) \in Nat
    BY <1>1, <1>3, <1>4, <1>9
  <2>2. ASSUME NEW j \in DOMAIN t, j # s[1] PROVE D(s[2]) <= D(j)
    <3>1. CASE j \notin Match!Range(s)
      BY <1>3, <2>1, <3>1
    <3>2. CASE j \in Match!Range(s)
      <4>1. PICK k \in 1 .. n : j = s[k]
        BY <1>4, <3>2
      <4>2. k = 2
        BY <1>9, <2>2, <4>1
      <4> QED BY <2>1, <4>1, <4>2
    <3> QED BY <3>1, <3>2
  <2> QED BY <2>1, <2>2
<1> USE DEF D
<1> QED BY <1>4, <1>5, <1>6, <1>7, <1>8, <1>9

LEMMA NearestOne ==
  ASSUME NEW d \in Int, NEW t \in Seq(Int), NEW i, <<i>> \in Match!Nearest(d, t, 1)
  PROVE  i \in DOMAIN t /\ \A j \in DOMAIN t : Match!Distance(d, t[i]) <= Match!Distance(d, t[j])
<1> DEFINE s == <<i>>
           n == Match!Smaller(1, Len(t))
           D(k) == Match!Distance(d, t[k])
<1>1. Len(t) \in Nat /\ DOMAIN t = 1 .. Len(t) /\ \A k \in DOMAIN t : D(k) \in Nat
  <2>1. Len(t) \in Nat /\ DOMAIN t = 1 .. Len(t)
    OBVIOUS
  <2>2. ASSUME NEW k \in DOMAIN t PROVE D(k) \in Nat
    <3>1. t[k] \in Int
      OBVIOUS
    <3> QED BY <3>1, Distances
  <2> QED BY <2>1, <2>2
<1>2. /\ s \in [1 .. n -> DOMAIN t]
      /\ \A k \in DOMAIN s, j \in DOMAIN t :
           j \notin Match!Range(s) => D(s[k]) < D(j) \/ D(s[k]) = D(j)
  BY DEF Match!Nearest, Match!Away
<1>3. DOMAIN s = {1} /\ s[1] = i
  OBVIOUS
<1>4. Match!Range(s) = {i}
  BY <1>3 DEF Match!Range
<1>5. i \in DOMAIN t
  BY <1>2, <1>3
<1> HIDE DEF s, D
<1>6. ASSUME NEW j \in DOMAIN t PROVE D(i) <= D(j)
  <2>1. D(i) \in Nat /\ D(j) \in Nat
    BY <1>1, <1>5
  <2>2. CASE j = i
    BY <2>1, <2>2
  <2>3. CASE j # i
    <3>1. D(s[1]) < D(j) \/ D(s[1]) = D(j)
      BY <1>2, <1>3, <1>4, <2>3
    <3> QED BY <1>3, <2>1, <3>1
  <2> QED BY <2>2, <2>3
<1> USE DEF D
<1> QED BY <1>5, <1>6

\* What is less than a multiple of a distance is less than that of a greater one.
LEMMA RatioGrows ==
  ASSUME NEW r \in Int, NEW a \in Nat, NEW b \in Nat, NEW c \in Nat, b <= c, 100 * a < r * b
  PROVE  100 * a < r * c
<1>1. CASE r \in Nat
  <2>1. b * r <= c * r
    BY <1>1, Products
  <2>2. r * b = b * r /\ r * c = c * r /\ b * r \in Int /\ c * r \in Int
    OBVIOUS
  <2> QED BY <2>1, <2>2
<1>2. CASE r \notin Nat
  <2>1. PICK m \in Nat : m = -r
    BY <1>2
  <2>2. m * b \in Nat
    BY <2>1, Products
  <2>3. r * b = -(m * b)
    BY <2>1
  <2> QED BY <2>2, <2>3
<1> QED BY <1>1, <1>2

\* The nearest of a descriptor that passes the ratio test is nearer than any other by the
\* ratio, and whichever is so is the one that was found.
LEMMA RatioTested ==
  ASSUME ViewsAreSequences, MatchTyped, Searched, NEW i \in DOMAIN results,
         results[i] # Match!Waiting
  PROVE  /\ i \in Match!Passed =>
              /\ results[i][1] \in DOMAIN target.descriptors
              /\ \A other \in DOMAIN target.descriptors \ {results[i][1]} :
                   /\ Match!Apart(i, results[i][1]) <= Match!Apart(i, other)
                   /\ 100 * Match!Apart(i, results[i][1]) < m_ratio * Match!Apart(i, other)
         /\ \A j \in DOMAIN target.descriptors :
              (\A other \in DOMAIN target.descriptors \ {j} :
                  /\ Match!Apart(i, j) <= Match!Apart(i, other)
                  /\ Match!Apart(i, j) # Match!Apart(i, other)
                  /\ 100 * Match!Apart(i, j) < m_ratio * Match!Apart(i, other))
              => i \in Match!Passed /\ results[i][1] = j
<1> DEFINE t == target.descriptors
           d == source.descriptors[i]
           s == results[i]
           D(j) == Match!Distance(d, t[j])
<1>1. t \in Seq(Int) /\ d \in Int /\ s \in Match!Nearest(d, t, 2) /\ m_ratio \in Int
  <2>1. source.descriptors \in Seq(Int) /\ t \in Seq(Int) /\ m_ratio \in Int
    BY DEF MatchTyped, ViewsAreSequences
  <2>2. DOMAIN results = DOMAIN source.descriptors /\ s \in Match!Nearest(d, t, 2)
    BY DEF Searched
  <2> QED BY <2>1, <2>2
<1>2. \A j : Match!Apart(i, j) = D(j)
  BY DEF Match!Apart
<1>3. i \in Match!Passed <=> s # <<>> /\ (Len(s) < 2 \/ 100 * D(s[1]) < m_ratio * D(s[2]))
  BY DEF Match!Passed, Match!ApplyRatioTest, Match!Away
<1> HIDE DEF t, d, s
<1>4. /\ s \in Seq(Nat)
      /\ t = <<>> => s = <<>>
      /\ t # <<>> =>
           Len(s) \in 1 .. 2 /\ s[1] \in DOMAIN t /\ \A j \in DOMAIN t : D(s[1]) <= D(j)
      /\ t # <<>> /\ Len(s) < 2 => DOMAIN t = {s[1]}
      /\ Len(s) = 2 =>
           /\ s[2] \in DOMAIN t /\ s[2] # s[1]
           /\ \A j \in DOMAIN t \ {s[1]} : D(s[2]) <= D(j)
  BY <1>1, NearestTwo
<1>5. \A j \in DOMAIN t : D(j) \in Nat
  <2>1. \A j \in DOMAIN t : t[j] \in Int
    BY <1>1
  <2> QED BY <1>1, <2>1, Distances
<1> HIDE DEF D
<1>6. ASSUME i \in Match!Passed
      PROVE  /\ s[1] \in DOMAIN t
             /\ \A other \in DOMAIN t \ {s[1]} :
                  D(s[1]) <= D(other) /\ 100 * D(s[1]) < m_ratio * D(other)
  <2>1. t # <<>> /\ s[1] \in DOMAIN t /\ \A j \in DOMAIN t : D(s[1]) <= D(j)
    BY <1>3, <1>4, <1>6
  <2>2. ASSUME NEW other \in DOMAIN t, other # s[1] PROVE 100 * D(s[1]) < m_ratio * D(other)
    <3>1. Len(s) = 2
      <4>1. DOMAIN t # {s[1]} /\ Len(s) \in 1 .. 2
        BY <1>4, <2>1, <2>2
      <4>2. ~(Len(s) < 2)
        BY <1>4, <2>1, <4>1
      <4> QED BY <4>1, <4>2
    <3>2. 100 * D(s[1]) < m_ratio * D(s[2]) /\ D(s[2]) <= D(other) /\ s[2] \in DOMAIN t
      BY <1>3, <1>4, <1>6, <2>2, <3>1
    <3> QED BY <1>1, <1>5, <2>1, <3>2, RatioGrows
  <2> QED BY <2>1, <2>2
<1>7. ASSUME NEW j \in DOMAIN t,
             \A other \in DOMAIN t \ {j} :
               D(j) <= D(other) /\ D(j) # D(other) /\ 100 * D(j) < m_ratio * D(other)
      PROVE  i \in Match!Passed /\ s[1] = j
  <2>1. t # <<>>
    BY <1>1, <1>7
  <2>2. s[1] \in DOMAIN t /\ D(s[1]) <= D(j) /\ Len(s) \in 1 .. 2 /\ s # <<>>
    BY <1>4, <2>1
  <2>3. s[1] = j
    BY <1>5, <1>7, <2>2
  <2>4. Len(s) = 2 => 100 * D(s[1]) < m_ratio * D(s[2])
    BY <1>4, <1>7, <2>3
  <2>5. Len(s) < 2 \/ Len(s) = 2
    BY <2>2
  <2> QED BY <1>3, <2>2, <2>3, <2>4, <2>5
<1> QED BY <1>2, <1>6, <1>7 DEF t, s

\* Everything has been found.
Found == Searched /\ \A i \in DOMAIN results : results[i] # Match!Waiting

LEMMA Viewed ==
  ASSUME ViewsAreSequences, MatchTyped, Searched
  PROVE  /\ source.keypoints \in Seq(Nat) /\ source.descriptors \in Seq(Int)
         /\ target.keypoints \in Seq(Nat) /\ target.descriptors \in Seq(Int)
         /\ DOMAIN source.keypoints = DOMAIN source.descriptors
         /\ DOMAIN target.keypoints = DOMAIN target.descriptors
         /\ \A i \in DOMAIN source.descriptors, j \in DOMAIN target.descriptors :
              /\ Match!Apart(i, j) \in Nat
              /\ Match!Distance(target.descriptors[j], source.descriptors[i]) = Match!Apart(i, j)
              /\ Match!Correspondence(i, j) \in Pairing
<1>1. /\ source.keypoints \in Seq(Nat) /\ source.descriptors \in Seq(Int)
      /\ target.keypoints \in Seq(Nat) /\ target.descriptors \in Seq(Int)
  BY DEF MatchTyped, ViewsAreSequences
<1>2. /\ DOMAIN source.keypoints = DOMAIN source.descriptors
      /\ DOMAIN target.keypoints = DOMAIN target.descriptors
  BY <1>1 DEF Searched, Match!Fits
<1>3. ASSUME NEW i \in DOMAIN source.descriptors, NEW j \in DOMAIN target.descriptors
      PROVE  /\ Match!Apart(i, j) \in Nat
             /\ Match!Distance(target.descriptors[j], source.descriptors[i]) = Match!Apart(i, j)
             /\ Match!Correspondence(i, j) \in Pairing
  <2>1. source.descriptors[i] \in Int /\ target.descriptors[j] \in Int
    BY <1>1
  <2>2. /\ Match!Distance(source.descriptors[i], target.descriptors[j]) \in Nat
        /\ Match!Distance(target.descriptors[j], source.descriptors[i]) =
             Match!Distance(source.descriptors[i], target.descriptors[j])
    BY <2>1, Distances
  <2>3. source.keypoints[i] \in Nat /\ target.keypoints[j] \in Nat
    <3>1. i \in DOMAIN source.keypoints /\ j \in DOMAIN target.keypoints
      BY <1>2
    <3>2. \A s \in Seq(Nat) : \A k \in DOMAIN s : s[k] \in Nat
      OBVIOUS
    <3>3. source.keypoints[i] \in Nat /\ target.keypoints[j] \in Nat
      BY <1>1, <3>1, <3>2
    <3> QED BY <3>3
  <2> QED BY <2>2, <2>3 DEF Match!Apart, Match!Correspondence, Pairing
<1> QED BY <1>1, <1>2, <1>3

\* The pairs that pass the ratio test, each once, and no more than there are candidates.
LEMMA ForwardIs ==
  ASSUME ViewsAreSequences, MatchTyped, Found
  PROVE  /\ Match!Forward \in Seq(Pairing)
         /\ \A c : c \in Entries(Match!Forward) <=>
                     \E i \in Match!Passed : c = Match!Correspondence(i, results[i][1])
         /\ Match!Unique(source) => Distinct(Match!Forward)
         /\ Len(Match!Forward) \in Nat /\ Match!TotalCandidates \in Nat
         /\ Len(Match!Forward) <= Match!TotalCandidates
<1> DEFINE N == Len(results)
           all == [i \in DOMAIN results |-> i]
           order == Without(all, DOMAIN results \ Match!Passed)
           Pair(i) == Match!Correspondence(i, results[i][1])
<1>0. Searched /\ \A i \in DOMAIN results : results[i] # Match!Waiting
  BY DEF Found
<1>1. N \in Nat /\ DOMAIN results = 1 .. N /\ DOMAIN results = DOMAIN source.descriptors
  BY <1>0 DEF MatchTyped, Searched
<1>2. all \in Seq(Nat) /\ Entries(all) = DOMAIN results /\ Distinct(all)
  BY <1>1 DEF Entries, Distinct
<1>3. Match!Passed \subseteq DOMAIN results
  BY DEF Match!Passed
<1> HIDE DEF all
<1>4. order \in Seq(Nat) /\ Entries(order) = Match!Passed /\ Distinct(order)
  <2>1. PICK X : X = DOMAIN results \ Match!Passed
    OBVIOUS
  <2>2. Without(all, X) \in Seq(Nat)
    BY <1>2, WithoutFacts
  <2>3. Entries(Without(all, X)) = Entries(all) \ X /\ Distinct(Without(all, X))
    BY <1>2, WithoutEntries
  <2> QED BY <1>2, <1>3, <2>1, <2>2, <2>3
<1>5. Match!Forward = [k \in DOMAIN order |-> Pair(order[k])]
  BY MatchWithout DEF Match!Forward, all
<1> HIDE DEF order, N
<1>6. Len(order) \in Nat /\ DOMAIN order = 1 .. Len(order)
  BY <1>4
<1>7. \A k \in DOMAIN order : order[k] \in Match!Passed
  BY <1>4 DEF Entries
<1>8. ASSUME NEW i \in Match!Passed
      PROVE  i \in DOMAIN source.descriptors /\ results[i][1] \in DOMAIN target.descriptors
             /\ Pair(i) \in Pairing
  <2>1. i \in DOMAIN source.descriptors /\ results[i][1] \in DOMAIN target.descriptors
    BY <1>0, <1>1, <1>3, RatioTested
  <2> QED BY <1>0, <2>1, Viewed
<1> HIDE DEF Pair
<1>9. Match!Forward \in Seq(Pairing) /\ DOMAIN Match!Forward = DOMAIN order
      /\ Len(Match!Forward) = Len(order)
  <2>1. \A k \in DOMAIN order : Pair(order[k]) \in Pairing
    BY <1>7, <1>8
  <2> QED BY <1>5, <1>6, <2>1
<1>10. ASSUME NEW c
       PROVE  c \in Entries(Match!Forward) <=> \E i \in Match!Passed : c = Pair(i)
  BY <1>4, <1>5, <1>9 DEF Entries
<1>11. ASSUME Match!Unique(source), NEW k \in DOMAIN order, NEW l \in DOMAIN order,
              Pair(order[k]) = Pair(order[l])
       PROVE  k = l
  <2>1. source.keypoints[order[k]] = source.keypoints[order[l]]
    BY <1>11 DEF Pair, Match!Correspondence
  <2>2. order[k] \in DOMAIN source.keypoints /\ order[l] \in DOMAIN source.keypoints
    BY <1>0, <1>7, <1>8, Viewed
  <2>3. order[k] = order[l]
    BY <1>11, <2>1, <2>2 DEF Match!Unique, Match!IsInjective
  <2> QED BY <1>4, <2>3 DEF Distinct
<1>12. Match!Unique(source) => Distinct(Match!Forward)
  BY <1>5, <1>9, <1>11 DEF Distinct
<1>13. Match!TotalCandidates \in Nat /\ Len(order) <= Match!TotalCandidates
  <2> DEFINE C == {e \in (DOMAIN results) \X (1 .. 2) : e[2] <= Len(results[e[1]])}
             K == 1 .. Len(order)
             f == [k \in K |-> <<order[k], 1>>]
  <2>1. Match!TotalCandidates = Cardinality(C)
    BY MatchCardinality DEF Match!TotalCandidates
  <2>2. IsFiniteSet(C)
    <3>1. IsFiniteSet(DOMAIN results) /\ IsFiniteSet(1 .. 2)
      <4>1. 1 \in Int /\ 2 \in Int /\ N \in Int
        BY <1>1
      <4>2. IsFiniteSet(1 .. N)
        BY <4>1, FS_Interval
      <4>3. IsFiniteSet(1 .. 2)
        BY <4>1, FS_Interval
      <4> QED BY <1>1, <4>2, <4>3
    <3>2. IsFiniteSet((DOMAIN results) \X (1 .. 2))
      BY <3>1, FS_Product
    <3> QED BY <3>2, FS_Subset
  <2>3. \A k \in K : f[k] \in C
    <3> SUFFICES ASSUME NEW k \in K PROVE <<order[k], 1>> \in C
      OBVIOUS
    <3>1. order[k] \in DOMAIN results /\ results[order[k]] # <<>>
      BY <1>6, <1>7 DEF Match!Passed
    <3>2. results[order[k]] \in Seq(Nat)
      BY <3>1 DEF MatchTyped
    <3>3. 1 <= Len(results[order[k]])
      BY <3>1, <3>2
    <3> QED BY <3>1, <3>3
  <2>4. \A k, l \in K : f[k] = f[l] => k = l
    <3>1. \A k, l \in K : order[k] = order[l] => k = l
      BY <1>4, <1>6 DEF Distinct
    <3> QED BY <3>1
  <2>5. f \in [K -> C]
    BY <2>3
  <2> HIDE DEF C, f
  <2>6. f \in Injection(K, C)
    BY <2>4, <2>5 DEF Injection, IsInjective
  <2>7. Cardinality(K) <= Cardinality(C) /\ Cardinality(C) \in Nat
    BY <2>2, <2>6, FS_Injection, FS_CardinalityType
  <2>8. Cardinality(K) = Len(order)
    <3>1. PICK n \in Nat : n = Len(order)
      BY <1>6
    <3>2. Cardinality(1 .. n) = IF 1 > n THEN 0 ELSE n - 1 + 1
      BY FS_Interval
    <3> QED BY <3>1, <3>2
  <2> QED BY <2>1, <2>7, <2>8
<1> QED BY <1>6, <1>9, <1>10, <1>12, <1>13 DEF Pair

\* Where keypoints are listed once, the descriptor of a keypoint is its own.
LEMMA OwnDescriptor ==
  ASSUME ViewsAreSequences, MatchTyped, Searched, Match!Unique(target),
         NEW j \in DOMAIN target.descriptors
  PROVE  Match!DescriptorOf(target.keypoints[j]) = j
<1> DEFINE p == target.keypoints
           Is(k) == p[k] = p[j] /\ \A l \in 1 .. k - 1 : p[l] # p[j]
<1>1. p \in Seq(Nat) /\ DOMAIN p = DOMAIN target.descriptors
  BY Viewed
<1>2. j \in DOMAIN p /\ \A k \in DOMAIN p : p[k] = p[j] => k = j
  BY <1>1 DEF Match!Unique, Match!IsInjective
<1>3. Match!DescriptorOf(p[j]) = CHOOSE k \in DOMAIN p : Is(k)
  BY DEF Match!DescriptorOf
<1> HIDE DEF p
<1>4. \A l \in 1 .. j - 1 : l \in DOMAIN p /\ l # j
  BY <1>1, <1>2
<1>5. Is(j)
  BY <1>2, <1>4
<1>6. \A k \in DOMAIN p : Is(k) => k = j
  BY <1>2
<1> HIDE DEF Is
<1>7. (CHOOSE k \in DOMAIN p : Is(k)) = j
  BY <1>2, <1>5, <1>6
<1> QED BY <1>3, <1>7 DEF p

LEMMA Thresholded ==
  ASSUME NEW s \in Seq(Pairing), m_distance_threshold \in Int
  PROVE  LET a == Match!ApplyDistanceThreshold(s)
         IN  /\ a \in Seq(Pairing) /\ Len(a) \in Nat /\ Len(s) \in Nat /\ Len(a) <= Len(s)
             /\ \A c : c \in Entries(a) <=> c \in Entries(s) /\ c.distance <= m_distance_threshold
             /\ Distinct(s) => Distinct(a)
<1> DEFINE a == Match!ApplyDistanceThreshold(s)
<1>1. PICK X : X = {c \in Entries(s) : c.distance > m_distance_threshold}
  OBVIOUS
<1>2. a = Without(s, X)
  BY <1>1, MatchWithout, MatchRange DEF Match!ApplyDistanceThreshold
<1>3. /\ a \in Seq(Pairing) /\ Len(a) <= Len(s)
      /\ Entries(a) = Entries(s) \ X /\ (Distinct(s) => Distinct(a))
  BY <1>2, WithoutFacts, WithoutEntries
<1>4. \A c \in Entries(s) : c.distance \in Nat
  <2>1. \A k \in DOMAIN s : s[k] \in Pairing
    OBVIOUS
  <2>2. \A c \in Pairing : c.distance \in Nat
    BY DEF Pairing
  <2> QED BY <2>1, <2>2 DEF Entries
<1> HIDE DEF a
<1>5. Len(a) \in Nat /\ Len(s) \in Nat
  BY <1>3
<1>6. \A c : c \in Entries(a) <=> c \in Entries(s) /\ c.distance <= m_distance_threshold
  BY <1>1, <1>3, <1>4
<1> QED BY <1>3, <1>5, <1>6 DEF a

\* What the reverse search may answer.
Reverse == IF Match!Forward = <<>> THEN {<<>>} ELSE Match!ReverseMatches

LEMMA VerifiedIs ==
  ASSUME ViewsAreSequences, MatchTyped, Found, NEW reverse \in Reverse
  PROVE  LET v == Match!PerformMutualVerification(Match!Forward, reverse)
         IN  /\ v \in Seq(Pairing) /\ Len(v) \in Nat /\ Len(v) <= Len(Match!Forward)
             /\ Entries(v) \subseteq Entries(Match!Forward)
             /\ Distinct(Match!Forward) => Distinct(v)
             /\ Match!Unique(source) /\ Match!Unique(target) =>
                  \A i \in Match!Passed :
                    LET j == results[i][1]
                    IN  /\ Match!Correspondence(i, j) \in Entries(v) <=> reverse[j] = i
                        /\ reverse[j] \in DOMAIN source.descriptors
                        /\ \A k \in DOMAIN source.descriptors :
                             Match!Apart(reverse[j], j) <= Match!Apart(k, j)
<1> DEFINE F == Match!Forward
           v == Match!PerformMutualVerification(F, reverse)
           Other(c) == source.keypoints[reverse[Match!DescriptorOf(c.dst_idx)]] # c.src_idx
<1>0. Searched
  BY DEF Found
<1>1. /\ F \in Seq(Pairing) /\ Len(F) \in Nat
      /\ \A c : c \in Entries(F) <=>
                  \E i \in Match!Passed : c = Match!Correspondence(i, results[i][1])
  BY ForwardIs
<1>2. PICK X : X = {c \in Entries(F) : Other(c)}
  OBVIOUS
<1>3. v = Without(F, X)
  BY <1>2, MatchWithout, MatchRange DEF Match!PerformMutualVerification
<1> HIDE DEF F, v
<1>4. /\ v \in Seq(Pairing) /\ Len(v) <= Len(F)
      /\ Entries(v) = Entries(F) \ X /\ (Distinct(F) => Distinct(v))
  BY <1>1, <1>3, WithoutFacts, WithoutEntries
<1>5. Len(v) \in Nat
  BY <1>4
<1>6. ASSUME Match!Unique(source), Match!Unique(target), NEW i \in Match!Passed, NEW j,
             j = results[i][1]
      PROVE  /\ Match!Correspondence(i, j) \in Entries(v) <=> reverse[j] = i
             /\ reverse[j] \in DOMAIN source.descriptors
             /\ \A k \in DOMAIN source.descriptors :
                  Match!Apart(reverse[j], j) <= Match!Apart(k, j)
  <2> DEFINE c == Match!Correspondence(i, j)
  <2>1. i \in DOMAIN source.descriptors /\ j \in DOMAIN target.descriptors
    <3>1. i \in DOMAIN results /\ results[i] # Match!Waiting
      BY DEF Match!Passed, Found
    <3>2. i \in DOMAIN source.descriptors
      BY <1>0, <3>1 DEF Searched
    <3> QED BY <1>0, <1>6, <3>1, <3>2, RatioTested
  <2>2. c \in Entries(F)
    BY <1>1, <1>6
  <2>3. reverse \in Match!ReverseMatches
    <3>1. F # <<>>
      BY <2>2 DEF Entries
    <3> QED BY <3>1 DEF Reverse, F
  <2>4. reverse[j] \in DOMAIN source.descriptors
        /\ <<reverse[j]>> \in Match!Nearest(target.descriptors[j], source.descriptors, 1)
    BY <2>1, <2>3 DEF Match!ReverseMatches
  <2>5. \A k \in DOMAIN source.descriptors :
          Match!Distance(target.descriptors[j], source.descriptors[reverse[j]]) <=
            Match!Distance(target.descriptors[j], source.descriptors[k])
    <3>1. target.descriptors[j] \in Int /\ source.descriptors \in Seq(Int)
      <4>1. \A s \in Seq(Int) : \A k \in DOMAIN s : s[k] \in Int
        OBVIOUS
      <4> QED BY <1>0, <2>1, <4>1, Viewed
    <3> QED BY <2>4, <3>1, NearestOne
  <2>6. \A k \in DOMAIN source.descriptors : Match!Apart(reverse[j], j) <= Match!Apart(k, j)
    BY <1>0, <2>1, <2>4, <2>5, Viewed
  <2>7. Match!DescriptorOf(target.keypoints[j]) = j
    BY <1>0, <1>6, <2>1, OwnDescriptor
  <2>8. c.dst_idx = target.keypoints[j] /\ c.src_idx = source.keypoints[i]
    BY DEF Match!Correspondence
  <2>9. source.keypoints[reverse[j]] = source.keypoints[i] <=> reverse[j] = i
    <3>1. reverse[j] \in DOMAIN source.keypoints /\ i \in DOMAIN source.keypoints
      BY <1>0, <2>1, <2>4, Viewed
    <3> QED BY <1>6, <3>1 DEF Match!Unique, Match!IsInjective
  <2> HIDE DEF c
  <2>10. c \in X <=> reverse[j] # i
    BY <1>2, <2>2, <2>7, <2>8, <2>9
  <2>11. c \in Entries(v) <=> reverse[j] = i
    BY <1>4, <2>2, <2>10
  <2> QED BY <2>4, <2>6, <2>11 DEF c
<1> QED BY <1>4, <1>5, <1>6 DEF F, v

\* What has to be true of the pairs that are returned.
PairsMatch(pairs) ==
  /\ \A c \in Entries(pairs) :
       \E i \in DOMAIN source.descriptors, j \in DOMAIN target.descriptors :
         c = Match!Correspondence(i, j) /\ Match!Matches(i, j)
  /\ \A i \in DOMAIN source.descriptors, j \in DOMAIN target.descriptors :
       Match!Matches(i, j) /\ ~Match!Tied(i, j) => Match!Correspondence(i, j) \in Entries(pairs)
  /\ m_mutual_verification =>
       \A k, l \in DOMAIN pairs : pairs[k].dst_idx = pairs[l].dst_idx => k = l

LEMMA MatchedPairs ==
  ASSUME ViewsAreSequences, MatchTyped, Found, Match!Unique(source), Match!Unique(target),
         NEW reverse \in Reverse, NEW v,
         v = IF m_mutual_verification THEN Match!PerformMutualVerification(Match!Forward, reverse)
             ELSE Match!Forward
  PROVE  PairsMatch(Match!ApplyDistanceThreshold(v))
<1> DEFINE F == Match!Forward
           a == Match!ApplyDistanceThreshold(v)
           C(i) == Match!Correspondence(i, results[i][1])
           S == DOMAIN source.descriptors
           T == DOMAIN target.descriptors
<1>0. Searched
  BY DEF Found
<1>1. /\ F \in Seq(Pairing) /\ Distinct(F)
      /\ \A c : c \in Entries(F) <=> \E i \in Match!Passed : c = C(i)
  BY ForwardIs
<1>2. ASSUME NEW i \in Match!Passed
      PROVE  /\ i \in S /\ results[i][1] \in T
             /\ \A other \in T \ {results[i][1]} :
                  /\ Match!Apart(i, results[i][1]) <= Match!Apart(i, other)
                  /\ 100 * Match!Apart(i, results[i][1]) < m_ratio * Match!Apart(i, other)
  <2>1. i \in DOMAIN results /\ results[i] # Match!Waiting
    BY DEF Match!Passed, Found
  <2>2. i \in S
    BY <1>0, <2>1 DEF Searched
  <2> QED BY <1>0, <2>1, <2>2, RatioTested
<1>3. /\ v \in Seq(Pairing) /\ Distinct(v) /\ Entries(v) \subseteq Entries(F)
      /\ ~m_mutual_verification => v = F
      /\ m_mutual_verification =>
           \A i \in Match!Passed :
             /\ C(i) \in Entries(v) <=> reverse[results[i][1]] = i
             /\ reverse[results[i][1]] \in S
             /\ \A k \in S :
                  Match!Apart(reverse[results[i][1]], results[i][1]) <= Match!Apart(k, results[i][1])
  <2>1. CASE m_mutual_verification
    <3>1. v = Match!PerformMutualVerification(Match!Forward, reverse)
      BY <2>1
    <3> QED BY <1>1, <2>1, <3>1, VerifiedIs
  <2>2. CASE ~m_mutual_verification
    BY <1>1, <2>2
  <2> QED BY <2>1, <2>2
<1>4. /\ a \in Seq(Pairing) /\ Distinct(a)
      /\ \A c : c \in Entries(a) <=> c \in Entries(v) /\ c.distance <= m_distance_threshold
  <2>1. m_distance_threshold \in Int
    BY DEF MatchTyped
  <2> QED BY <1>3, <2>1, Thresholded
<1>5. \A i, j : Match!Correspondence(i, j).distance = Match!Apart(i, j)
  BY DEF Match!Correspondence, Match!Apart
<1>6. \A i \in S, j \in T : Match!Apart(i, j) \in Nat
  BY <1>0, Viewed
<1> HIDE DEF F, a, S, T
\* Each pair that is returned is one of these.
<1>7. ASSUME NEW c \in Entries(a)
      PROVE  \E i \in Match!Passed :
               /\ c = C(i) /\ Match!Apart(i, results[i][1]) <= m_distance_threshold
               /\ m_mutual_verification => reverse[results[i][1]] = i
  <2>1. c \in Entries(v) /\ c \in Entries(F) /\ c.distance <= m_distance_threshold
    BY <1>3, <1>4
  <2>2. PICK i \in Match!Passed : c = C(i)
    BY <1>1, <2>1
  <2>3. c.distance = Match!Apart(i, results[i][1])
    BY <1>5, <2>2
  <2> QED BY <1>3, <2>1, <2>2, <2>3
<1>8. ASSUME NEW c \in Entries(a)
      PROVE  \E i \in S, j \in T : c = Match!Correspondence(i, j) /\ Match!Matches(i, j)
  <2>1. PICK i \in Match!Passed :
          /\ c = C(i) /\ Match!Apart(i, results[i][1]) <= m_distance_threshold
          /\ m_mutual_verification => reverse[results[i][1]] = i
    BY <1>7
  <2>2. PICK j : j = results[i][1]
    OBVIOUS
  <2>3. /\ i \in S /\ j \in T
        /\ \A other \in T \ {j} :
             /\ Match!Apart(i, j) <= Match!Apart(i, other)
             /\ 100 * Match!Apart(i, j) < m_ratio * Match!Apart(i, other)
    BY <1>2, <2>2
  <2>4. m_mutual_verification => \A other \in S : Match!Apart(i, j) <= Match!Apart(other, j)
    BY <1>3, <2>1, <2>2
  <2>5. Match!Matches(i, j)
    BY <2>1, <2>2, <2>3, <2>4 DEF Match!Matches, S, T
  <2> QED BY <2>1, <2>2, <2>3, <2>5
<1>9. ASSUME NEW i \in S, NEW j \in T, Match!Matches(i, j), ~Match!Tied(i, j)
      PROVE  Match!Correspondence(i, j) \in Entries(a)
  <2>1. /\ \A other \in T \ {j} :
             Match!Apart(i, j) <= Match!Apart(i, other) /\ 100 * Match!Apart(i, j) < m_ratio * Match!Apart(i, other)
        /\ Match!Apart(i, j) <= m_distance_threshold
        /\ m_mutual_verification => \A other \in S : Match!Apart(i, j) <= Match!Apart(other, j)
    BY <1>9 DEF Match!Matches, S, T
  <2>2. /\ \A other \in S \ {i} : Match!Apart(i, j) # Match!Apart(other, j)
        /\ \A other \in T \ {j} : Match!Apart(i, j) # Match!Apart(i, other)
    BY <1>9 DEF Match!Tied, S, T
  <2>3. i \in DOMAIN results /\ results[i] # Match!Waiting
    BY <1>0 DEF Searched, Found, S
  <2>4. i \in Match!Passed /\ results[i][1] = j
    BY <1>0, <2>1, <2>2, <2>3, RatioTested DEF T
  <2>5. Match!Correspondence(i, j) \in Entries(F)
    BY <1>1, <2>4
  <2>6. Match!Correspondence(i, j) \in Entries(v)
    <3>1. CASE m_mutual_verification
      <4>1. reverse[j] \in S /\ Match!Apart(reverse[j], j) <= Match!Apart(i, j)
        BY <1>3, <2>4, <3>1
      <4>2. Match!Apart(i, j) <= Match!Apart(reverse[j], j)
        BY <2>1, <3>1, <4>1
      <4>3. Match!Apart(i, j) = Match!Apart(reverse[j], j)
        BY <1>6, <4>1, <4>2
      <4>4. reverse[j] = i
        BY <2>2, <4>1, <4>3
      <4> QED BY <1>3, <2>4, <3>1, <4>4
    <3>2. CASE ~m_mutual_verification
      BY <1>3, <2>5, <3>2
    <3> QED BY <3>1, <3>2
  <2> QED BY <1>4, <1>5, <2>1, <2>6
<1>10. ASSUME m_mutual_verification, NEW k \in DOMAIN a, NEW l \in DOMAIN a,
              a[k].dst_idx = a[l].dst_idx
       PROVE  k = l
  <2>1. a[k] \in Entries(a) /\ a[l] \in Entries(a)
    BY DEF Entries
  <2>2. PICK x \in Match!Passed : a[k] = C(x) /\ reverse[results[x][1]] = x
    BY <1>7, <1>10, <2>1
  <2>3. PICK y \in Match!Passed : a[l] = C(y) /\ reverse[results[y][1]] = y
    BY <1>7, <1>10, <2>1
  <2>4. target.keypoints[results[x][1]] = target.keypoints[results[y][1]]
    BY <1>10, <2>2, <2>3 DEF Match!Correspondence
  <2>5. results[x][1] \in DOMAIN target.keypoints /\ results[y][1] \in DOMAIN target.keypoints
    BY <1>0, <1>2, Viewed DEF T
  <2>6. results[x][1] = results[y][1]
    BY <2>4, <2>5 DEF Match!Unique, Match!IsInjective
  <2>7. x = y
    BY <2>2, <2>3, <2>6
  <2> QED BY <1>4, <2>2, <2>3, <2>7 DEF Distinct
<1> QED BY <1>8, <1>9, <1>10 DEF PairsMatch, S, T, a

LEMMA MatchStarts ==
  ASSUME ViewsAreSequences, Match!Init
  PROVE  MatchInv
<1>1. statistics = Match!NoStatistics /\ phase = "idle" /\ results = <<>>
  BY DEF Match!Init
<1>2. MatchTyped
  <2>1. <<>> \in Seq(Seq(Nat))
    OBVIOUS
  <2> QED BY <1>1, <2>1 DEF Match!Init, MatchTyped, ViewsAreSequences
<1> QED BY <1>1, <1>2 DEF MatchInv, Match!MatchesAreMutual

LEMMA MatchKeeps ==
  ASSUME ViewsAreSequences, MatchInv, [Match!Next]_(Match!match_vars)
  PROVE  MatchInv'
<1>0. MatchTyped /\ (phase = "search" => Searched) /\ Match!MatchesAreMutual
  BY DEF MatchInv
<1>1. ASSUME NEW view \in Views, Match!SetSource(view) \/ Match!SetDestination(view)
      PROVE  MatchInv'
  <2>1. phase' = "idle" /\ statistics' = Match!NoStatistics
    BY <1>1 DEF Match!SetSource, Match!SetDestination, Match!Forget
  <2>2. MatchTyped'
    BY <1>0, <1>1 DEF Match!SetSource, Match!SetDestination, Match!options, MatchTyped
  <2> QED BY <2>1, <2>2 DEF MatchInv, Match!MatchesAreMutual, Match!NoStatistics
<1>2. CASE Match!Reject
  <2>1. phase' = "idle" /\ statistics' = Match!NoStatistics
    BY <1>2 DEF Match!Reject, Match!Forget
  <2>2. MatchTyped'
    BY <1>0, <1>2 DEF Match!Reject, Match!options, Match!views, MatchTyped
  <2> QED BY <2>1, <2>2 DEF MatchInv, Match!MatchesAreMutual, Match!NoStatistics
<1>3. CASE Match!Compute
  <2>1. /\ phase' = "search" /\ UNCHANGED <<method, m_knn, source, target>>
        /\ UNCHANGED <<m_ratio, m_mutual_verification, m_distance_threshold>>
        /\ results' = [i \in DOMAIN source.descriptors |-> Match!Waiting]
        /\ Match!Fits(source) /\ Match!Fits(target)
    BY <1>3 DEF Match!Compute, Match!ValidateInput, Match!views, Match!options
  <2>2. results' \in Seq(Seq(Nat))
    <3>1. source.descriptors \in Seq(Int) /\ Match!Waiting \in Seq(Nat)
      BY <1>0 DEF MatchTyped, ViewsAreSequences, Match!Waiting
    <3>2. DOMAIN source.descriptors = 1 .. Len(source.descriptors) /\ Len(source.descriptors) \in Nat
      BY <3>1
    <3> QED BY <2>1, <3>1, <3>2
  <2>3. MatchTyped'
    BY <1>0, <2>1, <2>2 DEF MatchTyped
  <2>4. Searched'
    BY <2>1 DEF Searched, Match!Fits
  <2>5. Match!MatchesAreMutual'
    BY <2>1 DEF Match!MatchesAreMutual
  <2> QED BY <2>3, <2>4, <2>5 DEF MatchInv
<1>4. ASSUME NEW i \in DOMAIN source.descriptors, Match!FindCandidates(i)
      PROVE  MatchInv'
  <2>1. /\ phase = "search" /\ phase' = "search" /\ UNCHANGED <<method, m_knn, source, target>>
        /\ UNCHANGED <<m_ratio, m_mutual_verification, m_distance_threshold>>
    BY <1>4 DEF Match!FindCandidates, Match!views, Match!options
  <2>2. PICK nearest \in Match!Nearest(source.descriptors[i], target.descriptors, 2) :
          results' = [results EXCEPT ![i] = nearest]
    BY <1>4 DEF Match!FindCandidates
  <2>3. Searched
    BY <1>0, <2>1
  <2>4. nearest \in Seq(Nat)
    <3>1. source.descriptors[i] \in Int /\ target.descriptors \in Seq(Int)
      <4>1. \A s \in Seq(Int) : \A k \in DOMAIN s : s[k] \in Int
        OBVIOUS
      <4> QED BY <1>0, <2>3, <4>1, Viewed
    <3> QED BY <3>1, NearestTwo
  <2>5. results' \in Seq(Seq(Nat)) /\ DOMAIN results' = DOMAIN results
    <3>1. PICK Q : Q = Seq(Nat)
      OBVIOUS
    <3>2. results \in Seq(Q) /\ nearest \in Q
      BY <1>0, <2>4, <3>1 DEF MatchTyped
    <3>3. results' \in Seq(Q) /\ DOMAIN results' = DOMAIN results
      <4>1. \A R, r, k : r \in Seq(R) /\ k \in 1 .. Len(r) => \A x \in R :
              [r EXCEPT ![k] = x] \in Seq(R) /\ DOMAIN [r EXCEPT ![k] = x] = DOMAIN r
        OBVIOUS
      <4>2. i \in 1 .. Len(results)
        BY <2>3, <3>2 DEF Searched
      <4> QED BY <2>2, <3>2, <4>1, <4>2
    <3> QED BY <3>1, <3>3
  <2>6. MatchTyped'
    BY <1>0, <2>1, <2>5 DEF MatchTyped
  <2>7. Searched'
    <3>1. Match!Fits(source)' /\ Match!Fits(target)' /\ (DOMAIN results = DOMAIN source.descriptors)'
      BY <2>1, <2>3, <2>5 DEF Searched, Match!Fits
    <3>2. \A k : Match!Nearest(source.descriptors[k], target.descriptors, 2)' =
                   Match!Nearest(source.descriptors[k], target.descriptors, 2)
      BY <2>1 DEF Match!Nearest
    <3>3. ASSUME NEW k \in DOMAIN results
          PROVE  \/ results'[k] = Match!Waiting
                 \/ results'[k] \in Match!Nearest(source.descriptors[k], target.descriptors, 2)
      <4>1. CASE k = i
        BY <2>2, <3>3, <4>1
      <4>2. CASE k # i
        <5>1. results'[k] = results[k]
          BY <2>2, <4>2
        <5> QED BY <2>3, <5>1 DEF Searched
      <4> QED BY <4>1, <4>2
    <3>4. (\A k \in DOMAIN results :
            \/ results[k] = Match!Waiting
            \/ results[k] \in Match!Nearest(source.descriptors[k], target.descriptors, 2))'
      BY <2>5, <3>2, <3>3 DEF Match!Waiting
    <3> QED BY <3>1, <3>4 DEF Searched
  <2>8. Match!MatchesAreMutual'
    BY <2>1 DEF Match!MatchesAreMutual
  <2> QED BY <2>6, <2>7, <2>8 DEF MatchInv
<1>5. CASE Match!Finish
  <2>1. /\ phase = "search" /\ phase' = "idle" /\ UNCHANGED <<method, m_knn, source, target, results>>
        /\ UNCHANGED <<m_ratio, m_mutual_verification, m_distance_threshold>>
        /\ \A i \in DOMAIN results : results[i] # Match!Waiting
    BY <1>5 DEF Match!Finish, Match!views, Match!options
  <2>2. Found
    BY <1>0, <2>1 DEF Found
  <2>3. PICK reverse \in Reverse :
          LET v == IF m_mutual_verification
                   THEN Match!PerformMutualVerification(Match!Forward, reverse) ELSE Match!Forward
          IN  /\ correspondences' = Match!ApplyDistanceThreshold(v)
              /\ statistics' =
                   [total |-> Match!TotalCandidates, ratio |-> Len(Match!Forward),
                    mutual |-> IF m_mutual_verification THEN Len(v) ELSE 0,
                    distance |-> Len(correspondences')]
    BY <1>5 DEF Match!Finish, Reverse
  <2>4. PICK v : v = IF m_mutual_verification
                     THEN Match!PerformMutualVerification(Match!Forward, reverse) ELSE Match!Forward
    OBVIOUS
  <2>5. /\ correspondences' = Match!ApplyDistanceThreshold(v)
        /\ statistics'.total = Match!TotalCandidates /\ statistics'.ratio = Len(Match!Forward)
        /\ m_mutual_verification => statistics'.mutual = Len(v)
        /\ statistics'.distance = Len(correspondences')
    BY <2>3, <2>4
  <2>6. Len(Match!Forward) \in Nat /\ Match!TotalCandidates \in Nat
        /\ Match!Forward \in Seq(Pairing) /\ Len(Match!Forward) <= Match!TotalCandidates
    BY <1>0, <2>2, ForwardIs
  <2>7. v \in Seq(Pairing) /\ Len(v) \in Nat /\ (m_mutual_verification => Len(v) <= Len(Match!Forward))
    <3>1. CASE m_mutual_verification
      <4>1. v = Match!PerformMutualVerification(Match!Forward, reverse)
        BY <2>4, <3>1
      <4> QED BY <1>0, <2>2, <4>1, VerifiedIs
    <3>2. CASE ~m_mutual_verification
      BY <2>4, <2>6, <3>2
    <3> QED BY <3>1, <3>2
  <2>8. Len(correspondences') \in Nat /\ Len(correspondences') <= Len(v)
    <3>1. m_distance_threshold \in Int
      BY <1>0 DEF MatchTyped
    <3> QED BY <2>5, <2>7, <3>1, Thresholded
  <2>9. Match!Unique(source) /\ Match!Unique(target) => PairsMatch(correspondences')
    BY <1>0, <2>2, <2>4, <2>5, MatchedPairs
  <2>10. MatchTyped'
    BY <1>0, <2>1 DEF MatchTyped
  <2>11. PICK pairs : pairs = correspondences'
    OBVIOUS
  <2>12. Match!Unique(source)' /\ Match!Unique(target)' => PairsMatch(pairs)'
    BY <2>1, <2>9, <2>11 DEF PairsMatch, Match!Unique, Match!Correspondence, Match!Matches, Match!Tied,
       Match!Apart
  <2>13. /\ statistics'.total >= statistics'.ratio
         /\ m_mutual_verification => statistics'.ratio >= statistics'.mutual
                                     /\ statistics'.mutual >= statistics'.distance
    BY <2>5, <2>6, <2>7, <2>8
  <2>14. Match!MatchesAreMutual'
    BY <2>1, <2>11, <2>12, <2>13, MatchRange DEF Match!MatchesAreMutual, PairsMatch
  <2> QED BY <2>1, <2>10, <2>14 DEF MatchInv
<1>6. CASE UNCHANGED Match!match_vars
  <2>1. /\ UNCHANGED <<method, m_knn, source, target, results, phase, correspondences, statistics>>
        /\ UNCHANGED <<m_ratio, m_mutual_verification, m_distance_threshold>>
    BY <1>6 DEF Match!match_vars
  <2>2. MatchTyped' /\ (phase = "search" => Searched)'
    BY <1>0, <2>1 DEF MatchTyped, Searched, Match!Fits, Match!Nearest
  <2>3. Match!MatchesAreMutual'
    BY <1>0, <2>1 DEF Match!MatchesAreMutual, Match!Unique, Match!Correspondence, Match!Matches,
       Match!Tied, Match!Apart
  <2> QED BY <2>2, <2>3 DEF MatchInv
<1> QED BY <1>1, <1>2, <1>3, <1>4, <1>5, <1>6 DEF Match!Next

LEMMA MatchIsMutual ==
  ASSUME MatchInv
  PROVE  Match!TypeOK /\ Match!MatchesAreMutual
BY DEF MatchInv, MatchTyped, Match!TypeOK

-------------------------------------------------------------------------------
(* The parts together                                                      *)

LEMMA CloudFacts ==
  /\ IterationsAreNumbers /\ CandidatesAreMeasured /\ PutativesAreMeasured
  /\ ViewsAreSequences /\ ChunksAreOfWorkers /\ NeighboursAreInCloud /\ PointsAreNear
  /\ LabelsAreKnown
BY CloudsAssumption

\* What a step is to the part that the behaviour is about.
LEMMA PartSteps ==
  ASSUME [CloudsNext]_vars
  PROVE  /\ part' = part
         /\ part = "registration" => [Registration!Next]_(Registration!registration_vars)
         /\ part = "four points" => [Four!Next]_(Four!four_vars)
         /\ part = "coarse" => [Coarse!Next]_(Coarse!coarse_vars)
         /\ part = "match" => [Match!Next]_(Match!match_vars)
         /\ part = "chunked" => [Chunked!Next]_(Chunked!vars)
         /\ part = "spfh" => [Spfh!Next]_(Spfh!vars)
         /\ part = "keypoints" => [Extractor!Next]_(Extractor!vars)
         /\ part = "clouds" => [Sums!Next]_(Sums!vars)
         /\ part = "kitti" => [Kitti!Next]_(Kitti!dataset_vars)
<1>1. CASE UNCHANGED vars
  BY <1>1 DEF vars, registering, searching, fine, two, sampling, trying, ranked, paired, matching,
     chunking, signing, extracting, adding, labelling, Registration!registration_vars,
     Four!four_vars, Coarse!coarse_vars, Match!match_vars, Chunked!vars, Chunked!call_vars,
     Chunked!task_vars, Spfh!vars, Spfh!call_vars, Extractor!vars, Sums!vars,
     Kitti!dataset_vars, Kitti!cache_vars, Kitti!config_vars
<1>2. CASE CloudsNext
  BY <1>2 DEF CloudsNext
<1> QED BY <1>1, <1>2

\* A search tree, the covariances or a grid that a registration uses are of the clouds that
\* are set, and of the number of neighbours or the resolution that is set unless that was
\* changed after the clouds; and what align() returns is of this call: for any clouds,
\* settings, iteration limits and callbacks, and whatever is set between the calls.
THEOREM FineStaysCurrent == CloudsSpec => []IndexIsCurrent
<1> DEFINE Inv == part = "registration" => FineInv
<1>1. CloudsInit => Inv
  BY CloudFacts, FineStarts DEF CloudsInit
<1>2. Inv /\ [CloudsNext]_vars => Inv'
  <2> SUFFICES ASSUME Inv, [CloudsNext]_vars PROVE Inv'
    OBVIOUS
  <2>1. ASSUME part' = "registration" PROVE FineInv'
    BY <2>1, CloudFacts, PartSteps, FineKeeps
  <2> QED BY <2>1
<1>3. Inv => IndexIsCurrent
  BY CloudFacts, FineIsCurrent DEF IndexIsCurrent
<1> QED BY <1>1, <1>2, <1>3, PTL DEF CloudsSpec

\* Every call that cuts its work into chunks has computed every element, once, when it
\* returns, however many elements and workers there are and whatever a chunk throws; and
\* however clouds are put together, normals and colours stay with their points.
THEOREM ElementsOnceAlways == CloudsSpec => []EveryElementOnce
<1> DEFINE Inv == (part = "chunked" => ChunkedInv) /\ (part = "clouds" => SumsInv)
<1>1. CloudsInit => Inv
  BY CloudFacts, ChunkedStarts, SumsStart DEF CloudsInit
<1>2. Inv /\ [CloudsNext]_vars => Inv'
  <2> SUFFICES ASSUME Inv, [CloudsNext]_vars PROVE Inv'
    OBVIOUS
  <2>1. ASSUME part' = "chunked" PROVE ChunkedInv'
    BY <2>1, CloudFacts, PartSteps, ChunkedKeeps
  <2>2. ASSUME part' = "clouds" PROVE SumsInv'
    BY <2>2, CloudFacts, PartSteps, SumsKeep
  <2> QED BY <2>1, <2>2
<1>3. Inv => EveryElementOnce
  BY CloudFacts, ChunkedOnce, SumsKeepTheirs DEF EveryElementOnce
<1> QED BY <1>1, <1>2, <1>3, PTL DEF CloudsSpec

\* A signature that a task reads is complete, although every task that computes it begins
\* with zeros, and no list and no signature is written while another task is at it; save
\* at a point that was counted exactly twice, or whose bit was lost in a word that another
\* task wrote: for any cloud, keypoints and order of the tasks.
THEOREM TasksMeetWhereCountedTwice == CloudsSpec => []MeetOnlyWhereCountedTwice
<1> DEFINE Inv == part = "spfh" => SpfhInv
<1>1. CloudsInit => Inv
  BY CloudFacts, SpfhStarts DEF CloudsInit
<1>2. Inv /\ [CloudsNext]_vars => Inv'
  <2> SUFFICES ASSUME Inv, [CloudsNext]_vars PROVE Inv'
    OBVIOUS
  <2>1. ASSUME part' = "spfh" PROVE SpfhInv'
    BY <2>1, CloudFacts, PartSteps, SpfhKeeps
  <2> QED BY <2>1
<1>3. Inv => MeetOnlyWhereCountedTwice
  BY CloudFacts, SpfhMeets DEF MeetOnlyWhereCountedTwice
<1> QED BY <1>1, <1>2, <1>3, PTL DEF CloudsSpec

\* Suppressing what is not a maximum leaves no neighbourhood that has a candidate without
\* a keypoint: for any cloud, responses and thresholds, and for all eight extractors.
THEOREM RegionsAlwaysKept == CloudsSpec => []RegionsKept
<1> DEFINE Inv == part = "keypoints" => KeyInv
<1>1. CloudsInit => Inv
  BY CloudFacts, KeyStarts DEF CloudsInit
<1>2. Inv /\ [CloudsNext]_vars => Inv'
  <2> SUFFICES ASSUME Inv, [CloudsNext]_vars PROVE Inv'
    OBVIOUS
  <2>1. ASSUME part' = "keypoints" PROVE KeyInv'
    BY <2>1, CloudFacts, PartSteps, KeyKeeps
  <2> QED BY <2>1
<1>3. Inv => RegionsKept
  BY CloudFacts, KeyIsKept DEF RegionsKept
<1> QED BY <1>1, <1>2, <1>3, PTL DEF CloudsSpec

\* RANSAC, PROSAC and 4PCS return the best of the motions that they have tried, with what
\* was measured of it, and PROSAC draws from the pool that its schedule gives: for any
\* correspondences, rankings, candidates and iteration limits.
THEOREM BestTriedIsReturned == CloudsSpec => []ResultIsBestTried
<1> DEFINE Inv == (part = "coarse" => CoarseInv) /\ (part = "four points" => FourInv)
<1>1. CloudsInit => Inv
  BY CloudFacts, CoarseStarts, FourStarts DEF CloudsInit
<1>2. Inv /\ [CloudsNext]_vars => Inv'
  <2> SUFFICES ASSUME Inv, [CloudsNext]_vars PROVE Inv'
    OBVIOUS
  <2>1. ASSUME part' = "coarse" PROVE CoarseInv'
    BY <2>1, CloudFacts, PartSteps, CoarseKeeps
  <2>2. ASSUME part' = "four points" PROVE FourInv'
    BY <2>2, CloudFacts, PartSteps, FourKeeps
  <2> QED BY <2>1, <2>2
<1>3. Inv => ResultIsBestTried
  BY CloudFacts, CoarseIsBest, FourIsBest DEF ResultIsBestTried
<1> QED BY <1>1, <1>2, <1>3, PTL DEF CloudsSpec

\* What compute() returns is the pairs that are nearest, unambiguous, near enough and, when
\* asked for, mutual, in whatever order the tasks find them, and its counts only fall: for
\* any descriptors, ratio and threshold.
THEOREM PairsAlwaysMutual == CloudsSpec => []MatchesAreMutual
<1> DEFINE Inv == part = "match" => MatchInv
<1>1. CloudsInit => Inv
  BY CloudFacts, MatchStarts DEF CloudsInit
<1>2. Inv /\ [CloudsNext]_vars => Inv'
  <2> SUFFICES ASSUME Inv, [CloudsNext]_vars PROVE Inv'
    OBVIOUS
  <2>1. ASSUME part' = "match" PROVE MatchInv'
    BY <2>1, CloudFacts, PartSteps, MatchKeeps
  <2> QED BY <2>1
<1>3. Inv => MatchesAreMutual
  BY CloudFacts, MatchIsMutual DEF MatchesAreMutual
<1> QED BY <1>1, <1>2, <1>3, PTL DEF CloudsSpec

\* Whatever a dataset answers about labels, from its caches or not, is what the files say,
\* and the caches stay within their limits: for any files, also those that cannot be read,
\* cache sizes and order of calls.
THEOREM LabelsAreTransparent == CloudsSpec => []CacheIsTransparent
<1> DEFINE Inv == part = "kitti" => Kitti!CacheIsTransparent
<1>1. CloudsInit => Inv
  BY CloudFacts, KittiStarts DEF CloudsInit
<1>2. Inv /\ [CloudsNext]_vars => Inv'
  <2> SUFFICES ASSUME Inv, [CloudsNext]_vars PROVE Inv'
    OBVIOUS
  <2>1. ASSUME part' = "kitti" PROVE Kitti!CacheIsTransparent'
    BY <2>1, CloudFacts, PartSteps, KittiKeeps
  <2> QED BY <2>1
<1>3. Inv => CacheIsTransparent
  BY CloudFacts, KittiTransparent DEF CacheIsTransparent
<1> QED BY <1>1, <1>2, <1>3, PTL DEF CloudsSpec
===============================================================================
