------------------------------ MODULE ThreadPool ------------------------------
(***************************************************************************)
(* toolbox::base::thread_pool_t: a fixed set of workers, one deque and one *)
(* mutex per worker, round-robin submission, LIFO pops of the own deque,   *)
(* FIFO steals, and a destructor that raises stop_ and joins.              *)
(*                                                                         *)
(* Every critical section of the code locks one deque, never blocks inside *)
(* and touches nothing else that is shared, so it is one action here; what *)
(* happens between two critical sections interleaves freely.               *)
(***************************************************************************)
EXTENDS Integers, Sequences, FiniteSets

CONSTANTS
  NWorkers,       \* threads the constructor starts
  Client,         \* threads outside the pool that call submit()
  Task,           \* the callables that may be submitted
  Parent,         \* Parent[t]: the client, or the task whose body, submits t
  Waits,          \* tasks whose body get()s the futures of what it submitted
  CounterRange,   \* next_worker_ wraps at this value (2^64 in the code)
  ClientsQuiesce, \* the owner destroys the pool only after the clients' last submit
  StaleStopReads, \* the relaxed load of stop_ in submit() may return an old FALSE
  NoTask          \* the empty unique_ptr

Worker == 0 .. NWorkers - 1
Thread == Client \cup Worker

ASSUME PoolAssumption ==
  /\ NWorkers \in Nat \ {0}
  /\ CounterRange \in Nat \ {0}
  /\ Client \cap Worker = {}
  /\ Client \cap Task = {}
  /\ NoTask \notin Task
  /\ Parent \in [Task -> Client \cup Task]
  /\ Waits \subseteq Task
  /\ ClientsQuiesce \in BOOLEAN
  /\ StaleStopReads \in BOOLEAN

VARIABLES
  stop,           \* stop_
  next_worker,    \* next_worker_
  worker_queues,  \* worker_queues_[i], front of the deque first
  pc,             \* where worker w stands in worker_loop
  n,              \* loop index of worker w's steal loop and of its stop scan
  held,           \* the local variable task of worker w
  call,           \* how far a thread is in submit()
  arg,            \* the task that submit() is about
  idx,            \* the deque it has chosen
  future,         \* what the future of a task holds; "none" before submit()
  dtor            \* progress of ~thread_pool_t

vars == <<stop, next_worker, worker_queues, pc, n, held, call, arg, idx, future, dtor>>

submit_vars == <<call, arg, idx>>

\* What a client, or the body of a task, submits.
Submits(x) == {t \in Task : Parent[t] = x}

\* Operators called Mutant_... are faulty variants of the definition that follows
\* them; no specification uses them.

\* Thread th is executing the code that submits t.
Runs(th, t) ==
  IF th \in Client
  THEN Parent[t] = th
  ELSE pc[th] = "run" /\ Parent[t] = held[th]

Ready(t) == future[t] \in {"value", "exception"}

\* A worker whose task waits in future::get() for something it submitted.
Blocked(w) ==
  /\ pc[w] = "run"
  /\ held[w] \in Waits
  /\ call[w] = "idle"
  /\ \A t \in Submits(held[w]) : future[t] # "none"
  /\ \E t \in Submits(held[w]) : ~Ready(t)
  /\ \A t \in Submits(held[w]) : future[t] # "exception"

\* Where a task that has been accepted and has no result yet can be: in a
\* submit(), in slot i of a deque, in the hands of a worker.
InCall(t, th) == call[th] # "idle" /\ arg[th] = t
InSlot(t, w, i) == i \in DOMAIN worker_queues[w] /\ worker_queues[w][i] = t
HeldBy(t, w) == pc[w] = "run" /\ held[w] = t

Submitting(t) == \E th \in Thread : InCall(t, th)
Queued(t) == \E w \in Worker : \E i \in DOMAIN worker_queues[w] : InSlot(t, w, i)
Running(t) == \E w \in Worker : HeldBy(t, w)

-------------------------------------------------------------------------------
(* The constructor: all deques exist before the first worker starts.       *)

Init ==
  /\ stop = FALSE
  /\ next_worker = 0
  /\ worker_queues = [w \in Worker |-> <<>>]
  /\ pc = [w \in Worker |-> "own"]
  /\ n = [w \in Worker |-> 0]
  /\ held = [w \in Worker |-> NoTask]
  /\ call = [th \in Thread |-> "idle"]
  /\ arg = [th \in Thread |-> NoTask]
  /\ idx = [th \in Thread |-> 0]
  /\ future = [t \in Task |-> "none"]
  /\ dtor = "alive"

-------------------------------------------------------------------------------
(* submit(): the test of stop_, the choice of a deque and the push are     *)
(* three separate steps of the calling thread.                             *)

MayCall(th, t) ==
  /\ dtor # "returned"
  /\ call[th] = "idle"
  /\ future[t] = "none"
  /\ Runs(th, t)

SubmitBegin(th, t) ==
  /\ MayCall(th, t)
  /\ ~stop \/ StaleStopReads
  /\ call' = [call EXCEPT ![th] = "checked"]
  /\ arg' = [arg EXCEPT ![th] = t]
  /\ future' = [future EXCEPT ![t] = "pending"]
  /\ UNCHANGED <<stop, next_worker, worker_queues, pc, n, held, idx, dtor>>

\* throw std::runtime_error("Cannot submit task to stopped thread pool").  The
\* exception leaves a client's call; in a worker it leaves the body of the task
\* and the payload lambda stores it in that task's promise.
SubmitRejectedClient(th, t) ==
  /\ th \in Client
  /\ MayCall(th, t)
  /\ stop
  /\ future' = [future EXCEPT ![t] = "rejected"]
  /\ UNCHANGED <<stop, next_worker, worker_queues, pc, n, held, submit_vars, dtor>>

SubmitRejectedTask(w, t) ==
  /\ w \in Worker
  /\ MayCall(w, t)
  /\ stop
  /\ future' = [future EXCEPT ![t] = "rejected", ![held[w]] = "exception"]
  /\ held' = [held EXCEPT ![w] = NoTask]
  /\ pc' = [pc EXCEPT ![w] = "own"]
  /\ UNCHANGED <<stop, next_worker, worker_queues, n, submit_vars, dtor>>

DequeFor(i) == i % NWorkers

\* idx = next_worker_.fetch_add(1) % workers_.size()
SubmitPick(th) ==
  /\ dtor # "returned"
  /\ call[th] = "checked"
  /\ call' = [call EXCEPT ![th] = "picked"]
  /\ idx' = [idx EXCEPT ![th] = DequeFor(next_worker)]
  /\ next_worker' = (next_worker + 1) % CounterRange
  /\ UNCHANGED <<stop, worker_queues, pc, n, held, arg, future, dtor>>

SubmitPush(th) ==
  /\ dtor # "returned"
  /\ call[th] = "picked"
  /\ worker_queues' = [worker_queues EXCEPT ![idx[th]] = Append(@, arg[th])]
  /\ call' = [call EXCEPT ![th] = "idle"]
  /\ arg' = [arg EXCEPT ![th] = NoTask]
  /\ idx' = [idx EXCEPT ![th] = 0]
  /\ UNCHANGED <<stop, next_worker, pc, n, held, future, dtor>>

-------------------------------------------------------------------------------
(* worker_loop                                                             *)

Mutant_Peek(q) == q
PopBack(q) == SubSeq(q, 1, Len(q) - 1)
PopFront(q) == Tail(q)

\* Pop the back of the own deque.
PopOwn(w) ==
  /\ pc[w] = "own"
  /\ LET q == worker_queues[w]
     IN  /\ q # <<>>
         /\ held' = [held EXCEPT ![w] = q[Len(q)]]
         /\ worker_queues' = [worker_queues EXCEPT ![w] = PopBack(q)]
  /\ pc' = [pc EXCEPT ![w] = "run"]
  /\ UNCHANGED <<stop, next_worker, n, submit_vars, future, dtor>>

OwnEmpty(w) ==
  /\ pc[w] = "own"
  /\ worker_queues[w] = <<>>
  /\ pc' = [pc EXCEPT ![w] = "steal"]
  /\ n' = [n EXCEPT ![w] = 0]
  /\ UNCHANGED <<stop, next_worker, worker_queues, held, submit_vars, future, dtor>>

Mutant_VictimSelf(w) == (w + NWorkers) % NWorkers

Victim(w) == (w + n[w] + 1) % NWorkers

\* Take the front of the victim's deque; the last victim is w itself.
Steal(w) ==
  /\ pc[w] = "steal"
  /\ LET q == worker_queues[Victim(w)]
     IN  /\ q # <<>>
         /\ held' = [held EXCEPT ![w] = Head(q)]
         /\ worker_queues' = [worker_queues EXCEPT ![Victim(w)] = PopFront(q)]
  /\ pc' = [pc EXCEPT ![w] = "run"]
  /\ UNCHANGED <<stop, next_worker, n, submit_vars, future, dtor>>

VictimEmpty(w) ==
  /\ pc[w] = "steal"
  /\ worker_queues[Victim(w)] = <<>>
  /\ IF n[w] + 1 < NWorkers
     THEN n' = [n EXCEPT ![w] = @ + 1] /\ UNCHANGED pc
     ELSE n' = [n EXCEPT ![w] = 0] /\ pc' = [pc EXCEPT ![w] = "stop?"]
  /\ UNCHANGED <<stop, next_worker, worker_queues, held, submit_vars, future, dtor>>

Mutant_ExitWithoutScan == IF stop THEN "exited" ELSE "own"
AfterTestOfStop == IF stop THEN "scan" ELSE "own"

\* if (stop_.load(acquire)): scan the deques, otherwise yield and start again.
TestStop(w) ==
  /\ pc[w] = "stop?"
  /\ pc' = [pc EXCEPT ![w] = AfterTestOfStop]
  /\ UNCHANGED <<stop, next_worker, worker_queues, n, held, submit_vars, future, dtor>>

ScanFull(w) ==
  /\ pc[w] = "scan"
  /\ worker_queues[n[w]] # <<>>
  /\ pc' = [pc EXCEPT ![w] = "own"]
  /\ n' = [n EXCEPT ![w] = 0]
  /\ UNCHANGED <<stop, next_worker, worker_queues, held, submit_vars, future, dtor>>

ScanEmpty(w) ==
  /\ pc[w] = "scan"
  /\ worker_queues[n[w]] = <<>>
  /\ IF n[w] + 1 < NWorkers
     THEN n' = [n EXCEPT ![w] = @ + 1] /\ UNCHANGED pc
     ELSE n' = [n EXCEPT ![w] = 0] /\ pc' = [pc EXCEPT ![w] = "exited"]
  /\ UNCHANGED <<stop, next_worker, worker_queues, held, submit_vars, future, dtor>>

-------------------------------------------------------------------------------
(* task->execute(): the payload lambda fills the promise, whichever way    *)
(* the body ends, and the worker goes round its loop.                      *)

Mutant_SettleDropsException(w, outcome) ==
  /\ future' = [future EXCEPT ![held[w]] = IF outcome = "value" THEN outcome ELSE @]
  /\ held' = [held EXCEPT ![w] = NoTask]
  /\ pc' = [pc EXCEPT ![w] = "own"]
  /\ UNCHANGED <<stop, next_worker, worker_queues, n, submit_vars, dtor>>

Mutant_SettleEndsWorker(w, outcome) ==
  /\ future' = [future EXCEPT ![held[w]] = outcome]
  /\ held' = [held EXCEPT ![w] = NoTask]
  /\ pc' = [pc EXCEPT ![w] = IF outcome = "value" THEN "own" ELSE "exited"]
  /\ UNCHANGED <<stop, next_worker, worker_queues, n, submit_vars, dtor>>

Settle(w, outcome) ==
  /\ future' = [future EXCEPT ![held[w]] = outcome]
  /\ held' = [held EXCEPT ![w] = NoTask]
  /\ pc' = [pc EXCEPT ![w] = "own"]
  /\ UNCHANGED <<stop, next_worker, worker_queues, n, submit_vars, dtor>>

\* The body returns: it has submitted all it submits and, if it waits, every
\* future it waited for held a value.
BodyReturns(w) ==
  /\ pc[w] = "run"
  /\ call[w] = "idle"
  /\ \A t \in Submits(held[w]) : future[t] # "none"
  /\ held[w] \in Waits => \A t \in Submits(held[w]) : future[t] = "value"
  /\ Settle(w, "value")

\* The body throws: on its own account before its last submit() or after its
\* last get(), or out of a get() that rethrows a child's exception.
MayThrow(w) ==
  /\ pc[w] = "run"
  /\ call[w] = "idle"
  /\ \/ \E t \in Submits(held[w]) : future[t] \in {"none", "exception"}
     \/ held[w] \notin Waits
     \/ \A t \in Submits(held[w]) : Ready(t)

BodyThrows(w) == MayThrow(w) /\ Settle(w, "exception")

-------------------------------------------------------------------------------
(* ~thread_pool_t                                                          *)

ClientsDone ==
  \A c \in Client : /\ call[c] = "idle"
                    /\ \A t \in Submits(c) : future[t] # "none"

DtorStop ==
  /\ dtor = "alive"
  /\ ClientsQuiesce => ClientsDone
  /\ stop' = TRUE
  /\ dtor' = "joining"
  /\ UNCHANGED <<next_worker, worker_queues, pc, n, held, submit_vars, future>>

AllJoined == \A w \in Worker : pc[w] = "exited"

\* All joins return; then the members are destroyed, and with a deque every task
\* still in it, whose promise dies unfulfilled.
DtorReturn ==
  /\ dtor = "joining"
  /\ AllJoined
  /\ dtor' = "returned"
  /\ future' = [t \in Task |-> IF Queued(t) THEN "broken" ELSE future[t]]
  /\ worker_queues' = [w \in Worker |-> <<>>]
  /\ UNCHANGED <<stop, next_worker, pc, n, held, submit_vars>>

-------------------------------------------------------------------------------
SubmitStep(th) ==
  \/ \E t \in Task : \/ SubmitBegin(th, t)
                     \/ SubmitRejectedClient(th, t)
                     \/ SubmitRejectedTask(th, t)
  \/ SubmitPick(th)
  \/ SubmitPush(th)

LoopStep(w) ==
  \/ PopOwn(w) \/ OwnEmpty(w)
  \/ Steal(w) \/ VictimEmpty(w)
  \/ TestStop(w) \/ ScanFull(w) \/ ScanEmpty(w)
  \/ BodyReturns(w) \/ BodyThrows(w)

\* The program has ended: a pool that is gone takes no more steps.
Done ==
  /\ dtor = "returned"
  /\ UNCHANGED vars

Next ==
  \/ \E th \in Thread : SubmitStep(th)
  \/ \E w \in Worker : LoopStep(w)
  \/ DtorStop
  \/ DtorReturn
  \/ Done

Spec == Init /\ [][Next]_vars

\* The operating system runs every thread that can run: a worker, a client inside
\* a call, and the owner once it has begun to destroy the pool.  Nobody is obliged
\* to begin a submit() or to destroy the pool.
Fairness ==
  /\ \A w \in Worker : WF_vars(LoopStep(w) \/ SubmitStep(w))
  /\ \A c \in Client : WF_vars(SubmitPick(c) \/ SubmitPush(c))
  /\ WF_vars(DtorReturn)

FairSpec == Spec /\ Fairness

-------------------------------------------------------------------------------
(* Properties                                                              *)

TypeOK ==
  /\ stop \in BOOLEAN
  /\ next_worker \in 0 .. CounterRange - 1
  /\ worker_queues \in [Worker -> Seq(Task)]
  /\ pc \in [Worker -> {"own", "steal", "stop?", "scan", "run", "exited"}]
  /\ n \in [Worker -> Worker]
  /\ held \in [Worker -> Task \cup {NoTask}]
  /\ call \in [Thread -> {"idle", "checked", "picked"}]
  /\ arg \in [Thread -> Task \cup {NoTask}]
  /\ idx \in [Thread -> Worker]
  /\ future \in [Task -> {"none", "pending", "value", "exception", "rejected", "broken"}]
  /\ dtor \in {"alive", "joining", "returned"}

\* No submit(), pop, steal or shutdown loses a task: its future is pending
\* exactly as long as the task is somewhere.
NeverLost ==
  \A t \in Task : future[t] = "pending" <=> Submitting(t) \/ Queued(t) \/ Running(t)

\* No pop or steal hands a task to two workers or leaves a copy behind: a task
\* is in one call, one slot or one worker, never in two places.
NeverTwice ==
  \A t \in Task :
    /\ \A x, y \in Thread : InCall(t, x) /\ InCall(t, y) => x = y
    /\ \A v, w \in Worker :
         \A i \in DOMAIN worker_queues[v], j \in DOMAIN worker_queues[w] :
           InSlot(t, v, i) /\ InSlot(t, w, j) => v = w /\ i = j
    /\ \A v, w \in Worker : HeldBy(t, v) /\ HeldBy(t, w) => v = w
    /\ ~(Submitting(t) /\ Queued(t))
    /\ ~(Submitting(t) /\ Running(t))
    /\ ~(Queued(t) /\ Running(t))

\* Worker w looks at deque j again before it can leave worker_loop.
WillVisit(w, j) ==
  \/ pc[w] \in {"own", "steal", "stop?", "run"}
  \/ pc[w] = "scan" /\ n[w] <= j

\* The scan of the deques before a worker exits takes one lock at a time, so a
\* deque it has passed may be refilled.  Even so some worker still has every
\* deque that holds a task ahead of it.
QueuedWorkIsWatched ==
  \A j \in Worker : worker_queues[j] # <<>> => \E w \in Worker : WillVisit(w, j)

\* The destructor drains the pool: when it returns, every task whose submit()
\* did not throw has run, and none died in a deque.
NothingLeftBehind ==
  dtor = "returned" => \A t \in Task : future[t] \notin {"pending", "broken"}

\* No task body is still executing when the destructor has returned, even if
\* clients went on submitting meanwhile.
NoTaskOutlivesPool == dtor = "returned" => \A t \in Task : ~Running(t)

\* submit() hands out no future whose promise is destroyed unfulfilled.  Without
\* ClientsQuiesce the test of stop_ in submit() is all that stands between a
\* late submit() and a pool whose workers are gone.
NoBrokenPromise == \A t \in Task : future[t] # "broken"

\* Even then only a client can lose its task: what a running task submits is run,
\* because the worker that runs it looks into the deques again before it exits.
OnlyClientsLosePromises ==
  \A t \in Task : future[t] = "broken" => Parent[t] \in Client

\* A future that is ready, or a submit() that threw, is final: no second worker
\* runs the task again.
FuturesAreFinal ==
  [][\A t \in Task : future[t] \in {"value", "exception", "rejected"}
                       => future'[t] = future[t]]_vars

\* Every accepted task gets its result if no body waits, whatever the
\* interleaving of pops, steals, the scans of the exiting workers and stop_.
AcceptedEventuallyReady ==
  \A t \in Task : (future[t] = "pending") ~> Ready(t)

\* However many bodies wait, the pool stops for good in one situation only: all
\* workers that have not exited are inside a get().  With fewer waiting bodies than
\* workers that takes a destructor.
AllStuck == \A w \in Worker : pc[w] = "exited" \/ Blocked(w)

AcceptedReadyOrAllStuck ==
  \A t \in Task : (future[t] = "pending") ~> (Ready(t) \/ AllStuck)

\* "Destructor that stops the thread pool and waits for all worker threads to
\* finish": once begun, it returns; no worker misses stop_ or spins for ever.
DestructorReturns == (dtor = "joining") ~> (dtor = "returned")

\* A pool whose task bodies do not wait for others finishes its work and itself.
WorkAndPoolEnd == AcceptedEventuallyReady /\ DestructorReturns

-------------------------------------------------------------------------------
(* The pool implements TaskPool.  A task is accepted when its push makes   *)
(* it visible to the workers.                                              *)

Status(t) ==
  CASE future[t] = "none" -> "new"
    [] future[t] = "pending" /\ Queued(t) -> "queued"
    [] future[t] = "pending" /\ Running(t) -> "running"
    [] future[t] = "pending" /\ ~Queued(t) /\ ~Running(t) -> "new"
    [] OTHER -> future[t]

Abs == INSTANCE TaskPool
         WITH status <- [t \in Task |-> Status(t)],
              closed <- dtor = "returned"

\* Seen from outside, the pool is a TaskPool.
ImplementsTaskPool == Abs!Spec
===============================================================================
