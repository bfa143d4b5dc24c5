------------------------------- MODULE TaskPool -------------------------------
(***************************************************************************)
(* What thread_pool_t promises the code that uses it, with no queues, no   *)
(* worker threads and no locks: every task a submit() accepts is run       *)
(* exactly once, its future becomes ready exactly once, and the destructor *)
(* returns only when nothing accepted is left to run.  ThreadPool.tla is   *)
(* shown to implement this module.                                         *)
(***************************************************************************)
CONSTANT Task

VARIABLES
  status,  \* status[t]: what has become of task t
  closed   \* the destructor has returned

vars == <<status, closed>>

Status == {"new", "queued", "running", "value", "exception", "rejected"}

\* A task the pool has accepted and still owes a result.
Owed == {t \in Task : status[t] \in {"queued", "running"}}

TypeOK ==
  /\ status \in [Task -> Status]
  /\ closed \in BOOLEAN

Init ==
  /\ status = [t \in Task |-> "new"]
  /\ closed = FALSE

\* submit() returns a future.
Accept(t) ==
  /\ ~closed
  /\ status[t] = "new"
  /\ status' = [status EXCEPT ![t] = "queued"]
  /\ UNCHANGED closed

\* submit() throws to a caller that is not a task.
Reject(t) ==
  /\ ~closed
  /\ status[t] = "new"
  /\ status' = [status EXCEPT ![t] = "rejected"]
  /\ UNCHANGED closed

\* submit(t) throws out of the body of the running task p.
RejectWithin(p, t) ==
  /\ status[p] = "running"
  /\ status[t] = "new"
  /\ status' = [status EXCEPT ![t] = "rejected", ![p] = "exception"]
  /\ UNCHANGED closed

Start(t) ==
  /\ status[t] = "queued"
  /\ status' = [status EXCEPT ![t] = "running"]
  /\ UNCHANGED closed

Finish(t, outcome) ==
  /\ status[t] = "running"
  /\ outcome \in {"value", "exception"}
  /\ status' = [status EXCEPT ![t] = outcome]
  /\ UNCHANGED closed

\* The destructor returns: only when no task is owed a result.
Close ==
  /\ ~closed
  /\ Owed = {}
  /\ closed' = TRUE
  /\ UNCHANGED status

Next ==
  \/ \E t \in Task : \/ Accept(t)
                     \/ Reject(t)
                     \/ Start(t)
                     \/ \E outcome \in {"value", "exception"} : Finish(t, outcome)
                     \/ \E p \in Task : RejectWithin(p, t)
  \/ Close

Spec == Init /\ [][Next]_vars
===============================================================================
