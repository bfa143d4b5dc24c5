--------------------------- MODULE FineRegistration ---------------------------
(***************************************************************************)
(* base_fine_registration_t and the five algorithms derived from it: a     *)
(* user sets the clouds, and align() checks them, builds the search        *)
(* structures again if a cloud was set since the last call, and improves a *)
(* transformation until a criterion is met or the iterations are used up.  *)
(* A transformation is the number of updates since the initial guess; an   *)
(* error is the transformation it was measured at.                         *)
(***************************************************************************)
EXTENDS Integers, Sequences

CONSTANTS
  Algorithms,   \* among point_to_point, point_to_plane, generalized, ndt, accelerated
  Cloud,        \* records [id, size, normals], normals being how many it has
  NoCloud,
  Settings,     \* the values of set_resolution() and set_k_correspondences()
  Limits,       \* of the iterations
  MaxCalls

VARIABLES
  algorithm,
  source, target,                          \* m_source_cloud, m_target_cloud
  source_updated, target_updated,
  setting, grid_updated,                   \* m_resolution, m_voxel_grid_updated
  index,        \* what the search structures were built from
  changed,      \* was a setting changed since they were
  limit, record, callback,     \* m_max_iterations, m_record_history, is there one
  phase,        \* idle, or iterate: in align_impl
  iter, current, previous_error,
  refused,      \* did the callback refuse an iteration of this align()
  returned,     \* what the last align() returned
  result,
  calls

registration_vars ==
  <<algorithm, source, target, source_updated, target_updated, setting, grid_updated, index,
    changed, limit, record, callback, phase, iter, current, previous_error, refused,
    returned, result, calls>>

clouds == <<algorithm, source, target, setting>>
built == <<grid_updated, index, changed>>
options == <<limit, record, callback>>

\* Operators called Mutant_... are faulty variants of the definition that follows
\* them; no specification uses them.

Unmeasured == -1

NewResult == [transformation |-> 0, final_error |-> Unmeasured, converged |-> FALSE,
              iterations_performed |-> 0, termination_reason |-> "not started", history |-> <<>>]

Init ==
  /\ algorithm \in Algorithms
  /\ source = NoCloud /\ target = NoCloud
  /\ source_updated = FALSE /\ target_updated = FALSE
  /\ setting \in Settings /\ grid_updated = TRUE
  /\ index = [source |-> NoCloud, target |-> NoCloud, setting |-> setting]
  /\ changed = FALSE /\ refused = FALSE
  /\ limit \in Limits /\ record = FALSE /\ callback = FALSE
  /\ phase = "idle" /\ iter = 0 /\ current = 0 /\ previous_error = Unmeasured
  /\ returned = FALSE /\ result = NewResult /\ calls = 0

SetSource(cloud) ==
  /\ phase = "idle" /\ calls < MaxCalls
  /\ source' = cloud /\ source_updated' = TRUE
  /\ UNCHANGED <<algorithm, target, setting, target_updated, built, options, phase, iter,
                 current, previous_error, refused, returned, result, calls>>

SetTarget(cloud) ==
  /\ phase = "idle" /\ calls < MaxCalls
  /\ target' = cloud /\ target_updated' = TRUE
  /\ UNCHANGED <<algorithm, source, setting, source_updated, built, options, phase, iter,
                 current, previous_error, refused, returned, result, calls>>

SetSetting(s) ==
  /\ phase = "idle" /\ calls < MaxCalls
  /\ algorithm \in {"generalized", "ndt"}
  /\ setting' = s /\ changed' = TRUE
  /\ grid_updated' = (grid_updated \/ algorithm = "ndt")
  /\ UNCHANGED <<algorithm, source, target, source_updated, target_updated, index, options,
                 phase, iter, current, previous_error, refused, returned, result, calls>>

-------------------------------------------------------------------------------
(* align()                                                                 *)

Valid == source # NoCloud /\ target # NoCloud /\ source.size > 0 /\ target.size > 0 /\ limit' > 0

\* The setters of these three matter to the align() that follows them only.
ChooseOptions == limit' \in Limits /\ record' \in BOOLEAN /\ callback' \in BOOLEAN

Rejected ==
  /\ phase = "idle" /\ calls < MaxCalls
  /\ ChooseOptions /\ ~Valid
  /\ calls' = calls + 1 /\ returned' = FALSE
  /\ UNCHANGED <<clouds, source_updated, target_updated, built, phase, iter, current,
                 previous_error, refused, result>>

KdTree == [index EXCEPT !.target = target]
Covariances == [source |-> source, target |-> target, setting |-> setting]
VoxelGrid ==
  IF target_updated \/ grid_updated
  THEN [index EXCEPT !.target = target, !.setting = setting] ELSE index

Preprocessed ==
  CASE algorithm = "generalized" -> Covariances
    [] algorithm = "ndt" -> VoxelGrid
    [] OTHER -> KdTree

Mutant_TargetOnly == target_updated
Outdated == source_updated \/ target_updated

\* What align() makes of the result it is given, which may be one it has filled before.
Initialised(old) == [NewResult EXCEPT !.termination_reason = "running",
                                      !.history = IF record' THEN <<>> ELSE old.history]

Start ==
  /\ phase = "idle" /\ calls < MaxCalls
  /\ ChooseOptions /\ Valid
  /\ calls' = calls + 1
  /\ index' = IF Outdated THEN Preprocessed ELSE index
  /\ grid_updated' = (grid_updated /\ ~(Outdated /\ algorithm = "ndt"))
  /\ changed' = (changed /\ ~Outdated)
  /\ source_updated' = FALSE /\ target_updated' = FALSE
  /\ \E old \in {result, NewResult} : result' = Initialised(old)
  /\ phase' = "iterate" /\ iter' = 0 /\ current' = 0 /\ previous_error' = Unmeasured
  /\ refused' = FALSE
  /\ UNCHANGED <<clouds, returned>>

Fails(reason) ==
  /\ result' = [result EXCEPT !.termination_reason = reason]
  /\ returned' = FALSE /\ phase' = "idle"
  /\ UNCHANGED <<clouds, source_updated, target_updated, built, options, iter, current,
                 previous_error, refused, calls>>

-------------------------------------------------------------------------------
(* An iteration                                                            *)

\* record_iteration: a refusal of the callback changes the reason, and nothing else.
Recorded(refuses) ==
  [result EXCEPT
    !.history = IF record THEN Append(@, [call |-> calls, iteration |-> iter,
                                          transformation |-> current]) ELSE @,
    !.termination_reason = IF refuses THEN "terminated by callback" ELSE @]

Finish(recorded, converged, reason) ==
  /\ result' = [recorded EXCEPT !.transformation = current', !.final_error = previous_error',
                                !.converged = converged,
                                !.iterations_performed = Len(recorded.history),
                                !.termination_reason = reason]
  /\ returned' = TRUE /\ phase' = "idle"

\* has_converged: iter is below the limit; at first the previous error is the largest number.
Criteria == IF iter = 0 THEN {} ELSE {"transformation converged", "error converged"}

Converges(recorded, reasons) ==
  \E reason \in reasons :
    /\ UNCHANGED <<iter, current, previous_error>>
    /\ Finish(recorded, TRUE, reason)

Moves(recorded) ==
  /\ iter' = iter + 1 /\ current' = current + 1 /\ previous_error' = current
  /\ IF iter + 1 < limit
     THEN result' = recorded /\ UNCHANGED <<returned, phase>>
     ELSE Finish(recorded, FALSE, IF recorded.termination_reason = ""
                                  THEN "maximum iterations reached"
                                  ELSE recorded.termination_reason)

Iterates(reasons) ==
  /\ \E refuses \in IF callback THEN BOOLEAN ELSE {FALSE} :
       /\ Converges(Recorded(refuses), reasons) \/ Moves(Recorded(refuses))
       /\ refused' = (refused \/ refuses)
  /\ UNCHANGED <<clouds, source_updated, target_updated, built, options, calls>>

NoCorrespondences == Fails("no correspondences")

PointToPoint ==
  /\ phase = "iterate" /\ algorithm = "point_to_point"
  /\ NoCorrespondences \/ Iterates(Criteria)

\* The normals of the target are looked at before the first iteration.
PointToPlane ==
  /\ phase = "iterate" /\ algorithm = "point_to_plane"
  /\ IF target.normals = 0 THEN Fails("missing normals")
     ELSE IF target.normals # target.size THEN Fails("normal count mismatch")
     ELSE NoCorrespondences \/ Iterates(Criteria)

Generalized ==
  /\ phase = "iterate" /\ algorithm = "generalized"
  /\ NoCorrespondences \/ Iterates(Criteria)

Ndt ==
  /\ phase = "iterate" /\ algorithm = "ndt"
  /\ Iterates(Criteria \union {"gradient converged", "line search failed"})

\* The base ICP of aa_icp_t keeps no history, and the number of correspondences is read
\* from its history: it is always 0.
Accelerated ==
  /\ phase = "iterate" /\ algorithm = "accelerated"
  /\ NoCorrespondences

AllDone == phase = "idle" /\ calls = MaxCalls /\ UNCHANGED registration_vars

Next ==
  \/ \E cloud \in Cloud : SetSource(cloud) \/ SetTarget(cloud)
  \/ \E s \in Settings : SetSetting(s)
  \/ Rejected \/ Start
  \/ PointToPoint \/ PointToPlane \/ Generalized \/ Ndt \/ Accelerated
  \/ AllDone

Spec == Init /\ [][Next]_registration_vars

-------------------------------------------------------------------------------
(* The result of the last call, when it succeeded.                         *)

TypeOK ==
  /\ {source, target, index.source, index.target} \subseteq Cloud \union {NoCloud}
  /\ setting \in Settings /\ limit \in Limits /\ calls \in 0 .. MaxCalls
  /\ phase \in {"idle", "iterate"} /\ iter \in Nat /\ current \in Nat

\* While align() searches, its structures are those of the clouds it aligns: of the target,
\* and for the generalized ICP of the source too, whichever was set, in whatever order, and
\* however many calls were rejected since they were built.  Covariances and voxels have the
\* number of neighbours and the resolution that are set, unless one of these was changed
\* after the clouds were prepared: then align() does not build them again.
IndexIsCurrent ==
  phase = "iterate" =>
    /\ index.target = target
    /\ algorithm = "generalized" => index.source = source
    /\ algorithm \in {"generalized", "ndt"} => index.setting = setting \/ changed

\* The history of a call that succeeds and records is of this very call, its states in the
\* order of the iterations, each holding the transformation it began with, and it is what
\* iterations_performed counts.  The result says that it converged if and only if the
\* iterations stopped for a criterion; when they did not, and the callback refused none,
\* all of them were used.
ResultIsOfThisCall ==
  phase = "idle" /\ returned =>
    LET last == IF result.converged THEN iter + 1 ELSE limit
        unfinished == {"running", "terminated by callback"}
    IN  /\ record =>
             /\ result.history = [k \in 1 .. Len(result.history) |->
                  [call |-> calls, iteration |-> k - 1, transformation |-> k - 1]]
             /\ result.iterations_performed = Len(result.history)
             /\ refused \/ Len(result.history) = last
        /\ result.transformation = iter
        /\ result.converged <=> result.termination_reason \notin unfinished
===============================================================================
