--------------------------- MODULE ThreadPoolProofs ---------------------------
(***************************************************************************)
(* Theorems about ThreadPool for any number of workers, clients and tasks. *)
(***************************************************************************)
EXTENDS ThreadPool, TLAPS

-------------------------------------------------------------------------------
(* Deques.                                                                 *)

LEMMA PopBackFacts ==
  ASSUME NEW S, NEW q \in Seq(S), q # <<>>
  PROVE  /\ PopBack(q) \in Seq(S)
         /\ Len(q) \in Nat \ {0}
         /\ q[Len(q)] \in S
         /\ DOMAIN PopBack(q) = 1 .. Len(q) - 1
         /\ \A i \in 1 .. Len(q) - 1 : PopBack(q)[i] = q[i]
BY DEF PopBack

LEMMA PopFrontFacts ==
  ASSUME NEW S, NEW q \in Seq(S), q # <<>>
  PROVE  /\ PopFront(q) \in Seq(S)
         /\ Len(q) \in Nat \ {0}
         /\ Head(q) = q[1]
         /\ Head(q) \in S
         /\ DOMAIN PopFront(q) = 1 .. Len(q) - 1
         /\ \A i \in 1 .. Len(q) - 1 : PopFront(q)[i] = q[i + 1]
BY DEF PopFront

LEMMA AppendFacts ==
  ASSUME NEW S, NEW q \in Seq(S), NEW e \in S
  PROVE  /\ Append(q, e) \in Seq(S)
         /\ Append(q, e) # <<>>
         /\ Len(q) \in Nat
         /\ DOMAIN q = 1 .. Len(q)
         /\ DOMAIN Append(q, e) = 1 .. Len(q) + 1
         /\ Append(q, e)[Len(q) + 1] = e
         /\ \A i \in 1 .. Len(q) : Append(q, e)[i] = q[i]
OBVIOUS

LEMMA WorkerIs == \A x : x \in Worker <=> x \in Nat /\ x < NWorkers
BY PoolAssumption DEF Worker

LEMMA ZeroIsWorker == 0 \in Worker
BY WorkerIs, PoolAssumption

LEMMA NextIsWorker == \A i \in Worker : i + 1 < NWorkers => i + 1 \in Worker
BY WorkerIs

LEMMA CounterFacts ==
  ASSUME next_worker \in 0 .. CounterRange - 1
  PROVE  /\ DequeFor(next_worker) \in Worker
         /\ (next_worker + 1) % CounterRange \in 0 .. CounterRange - 1
<1>1. next_worker \in Nat
  BY PoolAssumption
<1> QED BY <1>1, PoolAssumption DEF DequeFor, Worker

LEMMA ClientsAreNotWorkers == \A th \in Client : th \notin Worker
BY PoolAssumption

LEMMA VictimIsWorker ==
  ASSUME n \in [Worker -> Worker], NEW w \in Worker
  PROVE  Victim(w) \in Worker
<1>1. w \in Nat /\ n[w] \in Nat
  BY WorkerIs
<1>2. (w + n[w] + 1) % NWorkers \in 0 .. NWorkers - 1
  BY <1>1, PoolAssumption
<1> QED BY <1>2 DEF Victim, Worker

-------------------------------------------------------------------------------
(* Types, and what the local variables of a thread have to do with where   *)
(* it stands.                                                              *)

\* A call that is under way is about a task; a worker holds a task exactly
\* while it executes one, and is inside submit() only while it executes one.
Roles ==
  /\ \A th \in Thread : call[th] # "idle" => arg[th] \in Task
  /\ \A w \in Worker : pc[w] = "run" <=> held[w] # NoTask
  /\ \A w \in Worker : call[w] # "idle" => pc[w] = "run"

Typed == TypeOK /\ Roles

LEMMA TypedInductive ==
  ASSUME Typed, [Next]_vars
  PROVE  Typed'
<1> USE DEF Typed, TypeOK, Roles, Thread, submit_vars
<1>1. ASSUME NEW th \in Thread, NEW t \in Task, SubmitBegin(th, t)
      PROVE  Typed'
  BY <1>1, ClientsAreNotWorkers DEF SubmitBegin, MayCall, Runs
<1>2. ASSUME NEW th \in Thread, NEW t \in Task, SubmitRejectedClient(th, t)
      PROVE  Typed'
  BY <1>2 DEF SubmitRejectedClient, MayCall
<1>3. ASSUME NEW w \in Thread, NEW t \in Task, SubmitRejectedTask(w, t)
      PROVE  Typed'
  BY <1>3, PoolAssumption DEF SubmitRejectedTask, MayCall, Runs
<1>4. ASSUME NEW th \in Thread, SubmitPick(th)
      PROVE  Typed'
  BY <1>4, CounterFacts DEF SubmitPick
<1>5. ASSUME NEW th \in Thread, SubmitPush(th)
      PROVE  Typed'
  BY <1>5, ZeroIsWorker, AppendFacts DEF SubmitPush
<1>6. ASSUME NEW w \in Worker, PopOwn(w)
      PROVE  Typed'
  BY <1>6, PoolAssumption, PopBackFacts DEF PopOwn
<1>7. ASSUME NEW w \in Worker, OwnEmpty(w)
      PROVE  Typed'
  BY <1>7, ZeroIsWorker DEF OwnEmpty
<1>8. ASSUME NEW w \in Worker, Steal(w)
      PROVE  Typed'
  BY <1>8, PoolAssumption, VictimIsWorker, PopFrontFacts DEF Steal
<1>9. ASSUME NEW w \in Worker, VictimEmpty(w)
      PROVE  Typed'
  <2>1. CASE n[w] + 1 < NWorkers
    <3>1. n[w] + 1 \in Worker
      BY <2>1, NextIsWorker
    <3> QED BY ZenonT(40), <1>9, <2>1, <3>1 DEF VictimEmpty
  <2>2. CASE ~(n[w] + 1 < NWorkers)
    <3>1. n' = [n EXCEPT ![w] = 0] /\ pc' = [pc EXCEPT ![w] = "stop?"]
      BY <1>9, <2>2 DEF VictimEmpty
    <3>2. pc[w] # "run"
      BY <1>9 DEF VictimEmpty
    <3>3. UNCHANGED <<stop, next_worker, worker_queues, held, submit_vars, future, dtor>>
      BY <1>9 DEF VictimEmpty
    <3> QED BY <3>1, <3>2, <3>3, ZeroIsWorker
  <2> QED BY <2>1, <2>2
<1>10. ASSUME NEW w \in Worker, TestStop(w)
       PROVE  Typed'
  BY <1>10 DEF TestStop, AfterTestOfStop
<1>11. ASSUME NEW w \in Worker, ScanFull(w)
       PROVE  Typed'
  BY <1>11, ZeroIsWorker DEF ScanFull
<1>12. ASSUME NEW w \in Worker, ScanEmpty(w)
       PROVE  Typed'
  <2>1. CASE n[w] + 1 < NWorkers
    <3>1. n[w] + 1 \in Worker
      BY <2>1, NextIsWorker
    <3> QED BY ZenonT(40), <1>12, <2>1, <3>1 DEF ScanEmpty
  <2>2. CASE ~(n[w] + 1 < NWorkers)
    <3>1. n' = [n EXCEPT ![w] = 0] /\ pc' = [pc EXCEPT ![w] = "exited"]
      BY <1>12, <2>2 DEF ScanEmpty
    <3>2. pc[w] # "run"
      BY <1>12 DEF ScanEmpty
    <3>3. UNCHANGED <<stop, next_worker, worker_queues, held, submit_vars, future, dtor>>
      BY <1>12 DEF ScanEmpty
    <3> QED BY <3>1, <3>2, <3>3, ZeroIsWorker
  <2> QED BY <2>1, <2>2
<1>13. ASSUME NEW w \in Worker, BodyReturns(w)
       PROVE  Typed'
  BY <1>13 DEF BodyReturns, Settle
<1>14. ASSUME NEW w \in Worker, BodyThrows(w)
       PROVE  Typed'
  BY <1>14 DEF BodyThrows, MayThrow, Settle
<1>15. ASSUME DtorStop
       PROVE  Typed'
  BY <1>15 DEF DtorStop
<1>16. ASSUME DtorReturn
       PROVE  Typed'
  BY <1>16 DEF DtorReturn
<1>17. CASE UNCHANGED vars
  BY <1>17 DEF vars
<1> QED
  BY <1>1, <1>2, <1>3, <1>4, <1>5, <1>6, <1>7, <1>8, <1>9, <1>10, <1>11, <1>12,
     <1>13, <1>14, <1>15, <1>16, <1>17
  DEF Next, SubmitStep, LoopStep, Done

LEMMA TypedInitially == Init => Typed
BY PoolAssumption, ZeroIsWorker DEF Init, Typed, TypeOK, Roles, Thread

LEMMA TypedAlways == Spec => []Typed
<1>1. Init => Typed BY TypedInitially
<1>2. Typed /\ [Next]_vars => Typed' BY TypedInductive
<1> QED BY <1>1, <1>2, PTL DEF Spec

\* Type correctness: every reachable state of thread_pool_t is well typed, for any
\* number of workers, clients and tasks.
THEOREM TypeCorrect == Spec => []TypeOK
BY TypedAlways, PTL DEF Typed

-------------------------------------------------------------------------------
(* No task is lost, none is duplicated.  NeverLost and NeverTwice bound    *)
(* the slot number by the length of the deque so that TLC can enumerate    *)
(* it; InSlot bounds it anyway, and the proofs use the unbounded form.     *)

Somewhere(t) ==
  \/ \E th \in Thread : InCall(t, th)
  \/ \E w \in Worker : \E i : InSlot(t, w, i)
  \/ \E w \in Worker : HeldBy(t, w)

Once(t) ==
  /\ \A x, y \in Thread : InCall(t, x) /\ InCall(t, y) => x = y
  /\ \A v, w \in Worker : \A i, j : InSlot(t, v, i) /\ InSlot(t, w, j) => v = w /\ i = j
  /\ \A v, w \in Worker : HeldBy(t, v) /\ HeldBy(t, w) => v = w
  /\ \A x \in Thread, w \in Worker : \A i : ~(InCall(t, x) /\ InSlot(t, w, i))
  /\ \A x \in Thread, w \in Worker : ~(InCall(t, x) /\ HeldBy(t, w))
  /\ \A v, w \in Worker : \A i : ~(InSlot(t, v, i) /\ HeldBy(t, w))

Placed == \A t \in Task : (future[t] = "pending" <=> Somewhere(t)) /\ Once(t)

LEMMA PlacedIs == Placed <=> NeverLost /\ NeverTwice
BY DEF Placed, Somewhere, Once, NeverLost, NeverTwice, Submitting, Queued, Running, InSlot

\* A step that moves no task, and neither creates nor settles a pending future.
Still ==
  /\ \A t \in Task, th \in Thread : InCall(t, th)' <=> InCall(t, th)
  /\ \A t \in Task, w \in Worker : \A i : InSlot(t, w, i)' <=> InSlot(t, w, i)
  /\ \A t \in Task, w \in Worker : HeldBy(t, w)' <=> HeldBy(t, w)
  /\ \A t \in Task : future'[t] = "pending" <=> future[t] = "pending"

LEMMA StillKeepsPlaced ==
  ASSUME Placed, Still
  PROVE  Placed'
BY DEF Placed, Still, Somewhere, Once

LEMMA StillSteps ==
  ASSUME Typed,
         \/ \E th \in Thread : \/ \E t \in Task : SubmitRejectedClient(th, t)
                              \/ SubmitPick(th)
         \/ \E w \in Worker : \/ OwnEmpty(w) \/ VictimEmpty(w) \/ TestStop(w)
                             \/ ScanFull(w) \/ ScanEmpty(w)
         \/ DtorStop
         \/ UNCHANGED vars
  PROVE  Still
<1> USE DEF Typed, TypeOK, Still, InCall, InSlot, HeldBy, submit_vars
<1>1. ASSUME NEW th \in Thread, NEW t \in Task, SubmitRejectedClient(th, t)
      PROVE  Still
  BY <1>1 DEF SubmitRejectedClient, MayCall
<1>2. ASSUME NEW th \in Thread, SubmitPick(th)
      PROVE  Still
  BY <1>2 DEF SubmitPick
<1>3. ASSUME NEW w \in Worker, OwnEmpty(w)
      PROVE  Still
  BY <1>3 DEF OwnEmpty
<1>4. ASSUME NEW w \in Worker, VictimEmpty(w)
      PROVE  Still
  BY <1>4 DEF VictimEmpty
<1>5. ASSUME NEW w \in Worker, TestStop(w)
      PROVE  Still
  BY <1>5 DEF TestStop, AfterTestOfStop
<1>6. ASSUME NEW w \in Worker, ScanFull(w)
      PROVE  Still
  BY <1>6 DEF ScanFull
<1>7. ASSUME NEW w \in Worker, ScanEmpty(w)
      PROVE  Still
  BY <1>7 DEF ScanEmpty
<1>8. CASE DtorStop
  BY <1>8 DEF DtorStop
<1>9. CASE UNCHANGED vars
  BY <1>9 DEF vars
<1> QED BY <1>1, <1>2, <1>3, <1>4, <1>5, <1>6, <1>7, <1>8, <1>9

LEMMA BeginKeepsPlaced ==
  ASSUME Typed, Placed, NEW th \in Thread, NEW t0 \in Task, SubmitBegin(th, t0)
  PROVE  Placed'
<1>1. \A t \in Task, x \in Thread : InCall(t, x)' <=> InCall(t, x) \/ (t = t0 /\ x = th)
  BY DEF Typed, TypeOK, SubmitBegin, MayCall, InCall
<1>2. \A t \in Task, w \in Worker : \A i : InSlot(t, w, i)' <=> InSlot(t, w, i)
  BY DEF SubmitBegin, InSlot
<1>3. \A t \in Task, w \in Worker : HeldBy(t, w)' <=> HeldBy(t, w)
  BY DEF SubmitBegin, HeldBy
<1>4. \A t \in Task : future'[t] = "pending" <=> future[t] = "pending" \/ t = t0
  BY DEF Typed, TypeOK, SubmitBegin
<1>5. ~Somewhere(t0)
  BY DEF Placed, SubmitBegin, MayCall
<1> QED BY <1>1, <1>2, <1>3, <1>4, <1>5 DEF Placed, Somewhere, Once

\* The call of thread th puts its task into slot k of deque d.
Pushed(th, d, k, t0) ==
  /\ t0 \in Task /\ d \in Worker /\ InCall(t0, th)
  /\ \A t \in Task : InCall(t, th) => t = t0
  /\ \A t \in Task, x \in Thread : InCall(t, x)' <=> InCall(t, x) /\ x # th
  /\ \A t \in Task, w \in Worker : \A i :
        InSlot(t, w, i)' <=> InSlot(t, w, i) \/ (t = t0 /\ w = d /\ i = k)
  /\ \A t \in Task, w \in Worker : HeldBy(t, w)' <=> HeldBy(t, w)
  /\ \A t \in Task : future'[t] = future[t]

LEMMA PushPushes ==
  ASSUME Typed, NEW th \in Thread, SubmitPush(th)
  PROVE  \E d, k, t0 : Pushed(th, d, k, t0)
<1> DEFINE t0 == arg[th]
           d  == idx[th]
           k  == Len(worker_queues[d]) + 1
<1>1. d \in Worker /\ t0 \in Task /\ InCall(t0, th)
  BY DEF Typed, TypeOK, Roles, SubmitPush, InCall
<1>2. \A t \in Task, x \in Thread : InCall(t, x)' <=> InCall(t, x) /\ x # th
  BY DEF Typed, TypeOK, SubmitPush, InCall
<1>3. \A t \in Task, w \in Worker : \A i :
        InSlot(t, w, i)' <=> InSlot(t, w, i) \/ (t = t0 /\ w = d /\ i = k)
  <2>1. worker_queues' = [worker_queues EXCEPT ![d] = Append(worker_queues[d], t0)]
    BY DEF SubmitPush
  <2>2. worker_queues[d] \in Seq(Task)
    BY <1>1 DEF Typed, TypeOK
  <2> QED BY <1>1, <2>1, <2>2, AppendFacts DEF Typed, TypeOK, InSlot
<1>4. \A t \in Task, w \in Worker : HeldBy(t, w)' <=> HeldBy(t, w)
  BY DEF SubmitPush, HeldBy
<1>5. \A t \in Task : future'[t] = future[t]
  BY DEF SubmitPush
<1>6. \A t \in Task : InCall(t, th) => t = t0
  BY DEF InCall
<1> HIDE DEF t0, d, k
<1>7. Pushed(th, d, k, t0)
  BY <1>1, <1>2, <1>3, <1>4, <1>5, <1>6 DEF Pushed
<1> QED BY <1>7

LEMMA PushKeepsPlaced ==
  ASSUME Placed, NEW th \in Thread, NEW d, NEW k, NEW t0, Pushed(th, d, k, t0)
  PROVE  Placed'
<1>1. \A w \in Worker : \A i : ~InSlot(t0, w, i)
  BY DEF Pushed, Placed, Once
<1> QED BY <1>1 DEF Pushed, Placed, Somewhere, Once

\* A worker takes the task in slot k of deque d, whose other tasks stay and move
\* up by s slots.
Taken(w, d, k, s, t0) ==
  /\ \A t \in Task, x \in Thread : InCall(t, x)' <=> InCall(t, x)
  /\ \A t \in Task, v \in Worker : v # d => \A i : InSlot(t, v, i)' <=> InSlot(t, v, i)
  /\ \A t \in Task : \A i : InSlot(t, d, i)' => i \in Nat /\ i + s # k /\ InSlot(t, d, i + s)
  /\ \A t \in Task : \A i : InSlot(t, d, i) /\ i # k => InSlot(t, d, i - s)'
  /\ \A t \in Task, v \in Worker : HeldBy(t, v)' <=> HeldBy(t, v) \/ (t = t0 /\ v = w)
  /\ \A t \in Task : ~HeldBy(t, w)
  /\ \A t \in Task : future'[t] = future[t]
  /\ t0 \in Task /\ d \in Worker /\ InSlot(t0, d, k)
  /\ \A t \in Task : InSlot(t, d, k) => t = t0

LEMMA TakenKeepsPlaced ==
  ASSUME Placed, NEW w \in Worker, NEW d, NEW k, NEW s \in {0, 1}, NEW t0,
         Taken(w, d, k, s, t0)
  PROVE  Placed'
<1> USE DEF Taken
<1>1. \A t \in Task : (\E v \in Worker : \E i : InSlot(t, v, i))
                      <=> t = t0 \/ (\E v \in Worker : \E i : InSlot(t, v, i)')
  BY DEF Placed, Once
<1>2. \A t \in Task, v \in Worker : \A i : ~InSlot(t0, v, i)'
  BY DEF Placed, Once
<1>3. \A t \in Task, u, v \in Worker : \A i, j :
        InSlot(t, u, i)' /\ InSlot(t, v, j)' => u = v /\ i = j
  <2> SUFFICES ASSUME NEW t \in Task, NEW u \in Worker, NEW v \in Worker, NEW i, NEW j,
                      InSlot(t, u, i)', InSlot(t, v, j)'
               PROVE  u = v /\ i = j
    OBVIOUS
  <2>1. CASE u # d /\ v # d
    BY <2>1 DEF Placed, Once
  <2>2. u = d <=> v = d
    BY DEF Placed, Once
  <2>3. CASE u = d /\ v = d
    <3>1. i \in Nat /\ j \in Nat /\ InSlot(t, d, i + s) /\ InSlot(t, d, j + s)
      BY <2>3
    <3>2. i + s = j + s
      BY <3>1 DEF Placed, Once
    <3> QED BY <2>3, <3>1, <3>2
  <2> QED BY <2>1, <2>2, <2>3
<1>4. \A t \in Task : Somewhere(t)' <=> Somewhere(t)
  BY <1>1 DEF Somewhere
<1>5. \A t \in Task, v \in Worker : \A i :
        InSlot(t, v, i)' => \E j : InSlot(t, v, j)
  OBVIOUS
<1> QED BY <1>2, <1>3, <1>4, <1>5 DEF Placed, Once

LEMMA PopTakes ==
  ASSUME Typed, NEW w \in Worker, PopOwn(w)
  PROVE  Taken(w, w, Len(worker_queues[w]), 0, worker_queues[w][Len(worker_queues[w])])
<1> DEFINE q == worker_queues[w]
<1>1. q \in Seq(Task) /\ q # <<>>
  BY DEF Typed, TypeOK, PopOwn
<1>2. worker_queues' = [worker_queues EXCEPT ![w] = PopBack(q)]
  BY DEF PopOwn
<1>3. held' = [held EXCEPT ![w] = q[Len(q)]] /\ pc' = [pc EXCEPT ![w] = "run"]
  BY DEF PopOwn
<1>4. pc[w] = "own" /\ UNCHANGED <<call, arg, future>>
  BY DEF PopOwn, submit_vars
<1>5. /\ Len(q) \in Nat \ {0}
      /\ DOMAIN q = 1 .. Len(q)
      /\ q[Len(q)] \in Task
      /\ DOMAIN PopBack(q) = 1 .. Len(q) - 1
      /\ \A i \in 1 .. Len(q) - 1 : PopBack(q)[i] = q[i]
  BY SMTT(40), <1>1, PopBackFacts
<1>6. worker_queues'[w] = PopBack(q) /\ \A v \in Worker \ {w} : worker_queues'[v] = worker_queues[v]
  BY <1>2 DEF Typed, TypeOK
<1> HIDE DEF q
<1>7. \A t \in Task, v \in Worker : v # w => \A i : InSlot(t, v, i)' <=> InSlot(t, v, i)
  BY <1>6 DEF InSlot
<1>8. \A t \in Task : \A i :
        InSlot(t, w, i)' => i \in Nat /\ i # Len(q) /\ q[i] = t /\ i \in 1 .. Len(q)
  BY <1>5, <1>6 DEF InSlot
<1>9. \A t \in Task : \A i : i \in 1 .. Len(q) /\ q[i] = t /\ i # Len(q) => InSlot(t, w, i)'
  <2>0. Len(q) \in Nat
    BY <1>5
  <2>1. \A i \in 1 .. Len(q) : i # Len(q) => i \in 1 .. Len(q) - 1
    BY ONLY <2>0
  <2>2. \A i \in 1 .. Len(q) - 1 : i \in DOMAIN worker_queues'[w] /\ worker_queues'[w][i] = q[i]
    BY <1>5, <1>6
  <2> QED BY <2>1, <2>2 DEF InSlot
<1>10. \A t \in Task : \A i : InSlot(t, w, i) <=> i \in 1 .. Len(q) /\ q[i] = t
  BY <1>5 DEF InSlot, q
<1>11. \A t \in Task, v \in Worker : HeldBy(t, v)' <=> HeldBy(t, v) \/ (t = q[Len(q)] /\ v = w)
  BY <1>3, <1>4 DEF HeldBy, Typed, TypeOK
<1>12. Taken(w, w, Len(q), 0, q[Len(q)])
  <2>1. \A i \in 1 .. Len(q) : i + 0 = i /\ i - 0 = i
    BY <1>5
  <2> QED BY <2>1, <1>4, <1>5, <1>7, <1>8, <1>9, <1>10, <1>11 DEF Taken, InCall, HeldBy
<1> QED BY <1>12 DEF q

LEMMA StealTakes ==
  ASSUME Typed, NEW w \in Worker, Steal(w)
  PROVE  \E d, t0 : Taken(w, d, 1, 1, t0)
<1>0. PICK d \in Worker : d = Victim(w)
  BY VictimIsWorker DEF Typed, TypeOK
<1> DEFINE q == worker_queues[d]
<1>1. q \in Seq(Task) /\ q # <<>>
  BY <1>0 DEF Typed, TypeOK, Steal
<1>2. worker_queues' = [worker_queues EXCEPT ![d] = PopFront(q)]
  BY <1>0 DEF Steal
<1>3. held' = [held EXCEPT ![w] = Head(q)] /\ pc' = [pc EXCEPT ![w] = "run"]
  BY <1>0 DEF Steal
<1>4. pc[w] = "steal" /\ UNCHANGED <<call, arg, future>>
  BY DEF Steal, submit_vars
<1>5. /\ Len(q) \in Nat \ {0}
      /\ DOMAIN q = 1 .. Len(q)
      /\ Head(q) = q[1] /\ Head(q) \in Task
      /\ DOMAIN PopFront(q) = 1 .. Len(q) - 1
      /\ \A i \in 1 .. Len(q) - 1 : PopFront(q)[i] = q[i + 1]
  BY <1>1, PopFrontFacts
<1>6. worker_queues'[d] = PopFront(q) /\ \A v \in Worker \ {d} : worker_queues'[v] = worker_queues[v]
  BY <1>0, <1>2 DEF Typed, TypeOK
<1>7. \A t \in Task : \A i : InSlot(t, d, i) <=> i \in 1 .. Len(q) /\ q[i] = t
  BY <1>5 DEF InSlot
<1> HIDE DEF q
<1>8. \A t \in Task, v \in Worker : v # d => \A i : InSlot(t, v, i)' <=> InSlot(t, v, i)
  BY <1>6 DEF InSlot
<1>9. \A t \in Task : \A i :
        (i \in DOMAIN worker_queues'[d] /\ worker_queues'[d][i] = t)
          => i \in Nat /\ i + 1 # 1 /\ i + 1 \in 1 .. Len(q) /\ q[i + 1] = t
  BY <1>5, <1>6
<1>10. \A t \in Task : \A i :
         i \in 1 .. Len(q) /\ q[i] = t /\ i # 1
           => i - 1 \in DOMAIN worker_queues'[d] /\ worker_queues'[d][i - 1] = t
  <2> SUFFICES ASSUME NEW t \in Task, NEW i \in 1 .. Len(q), q[i] = t, i # 1
               PROVE  i - 1 \in DOMAIN worker_queues'[d] /\ worker_queues'[d][i - 1] = t
    OBVIOUS
  <2>1. i - 1 \in 1 .. Len(q) - 1 /\ (i - 1) + 1 = i
    BY <1>5
  <2> QED BY <1>5, <1>6, <2>1
<1>11. \A t \in Task, v \in Worker : HeldBy(t, v)' <=> HeldBy(t, v) \/ (t = Head(q) /\ v = w)
  BY <1>3, <1>4 DEF HeldBy, Typed, TypeOK
<1>12. Taken(w, d, 1, 1, Head(q))
  <2>1. \A t \in Task : \A i : InSlot(t, d, i)' <=> i \in DOMAIN worker_queues'[d] /\ worker_queues'[d][i] = t
    BY DEF InSlot
  <2>2. InSlot(Head(q), d, 1) /\ \A t \in Task : InSlot(t, d, 1) => t = Head(q)
    BY <1>5, <1>7
  <2>3. \A t \in Task : \A i : InSlot(t, d, i)' => i \in Nat /\ i + 1 # 1 /\ InSlot(t, d, i + 1)
    BY <1>7, <1>9, <2>1
  <2>4. \A t \in Task : \A i : InSlot(t, d, i) /\ i # 1 => InSlot(t, d, i - 1)'
    BY <1>7, <1>10, <2>1
  <2> QED BY <1>0, <1>4, <1>5, <1>8, <1>11, <2>2, <2>3, <2>4 DEF Taken, InCall, HeldBy
<1> QED BY <1>12

\* The task a worker executed is settled: its future is ready and it is nowhere.
LEMMA SettledKeepsPlaced ==
  ASSUME Typed, Placed, NEW w \in Worker, pc[w] = "run", call[w] = "idle",
         held' = [held EXCEPT ![w] = NoTask],
         pc' = [pc EXCEPT ![w] = "own"],
         UNCHANGED <<worker_queues, call, arg>>,
         future'[held[w]] # "pending",
         \A t \in Task \ {held[w]} : future'[t] = "pending" <=> future[t] = "pending"
  PROVE  Placed'
<1>1. held[w] \in Task /\ HeldBy(held[w], w)
  BY DEF Typed, TypeOK, Roles, HeldBy
<1>2. \A t \in Task, x \in Thread : InCall(t, x)' <=> InCall(t, x)
  BY DEF InCall
<1>3. \A t \in Task, v \in Worker : \A i : InSlot(t, v, i)' <=> InSlot(t, v, i)
  BY DEF InSlot
<1>4. \A t \in Task, v \in Worker : HeldBy(t, v)' <=> HeldBy(t, v) /\ v # w
  BY DEF HeldBy, Typed, TypeOK
<1>5. \A t \in Task : HeldBy(t, w) => t = held[w]
  BY DEF HeldBy
<1> QED BY <1>1, <1>2, <1>3, <1>4, <1>5 DEF Placed, Somewhere, Once

\* The deques are destroyed, and with them the promises of what they held.
LEMMA DtorReturnKeepsPlaced ==
  ASSUME Typed, Placed, DtorReturn
  PROVE  Placed'
<1>1. \A t \in Task, x \in Thread : InCall(t, x)' <=> InCall(t, x)
  BY DEF DtorReturn, submit_vars, InCall
<1>2. \A t \in Task, w \in Worker : HeldBy(t, w)' <=> HeldBy(t, w)
  BY DEF DtorReturn, HeldBy
<1>3. \A t \in Task, w \in Worker : \A i : ~InSlot(t, w, i)'
  BY DEF DtorReturn, InSlot
<1>4. \A t \in Task : Queued(t) <=> \E w \in Worker : \E i : InSlot(t, w, i)
  BY DEF Queued, InSlot
<1>5. \A t \in Task : future'[t] = IF Queued(t) THEN "broken" ELSE future[t]
  BY DEF DtorReturn
<1> QED BY <1>1, <1>2, <1>3, <1>4, <1>5 DEF Placed, Somewhere, Once

LEMMA PlacedInductive ==
  ASSUME Typed, Placed, [Next]_vars
  PROVE  Placed'
<1> USE DEF Typed, TypeOK
<1>1. ASSUME NEW th \in Thread, NEW t \in Task, SubmitRejectedTask(th, t)
      PROVE  Placed'
  <2>1. th \in Worker /\ pc[th] = "run" /\ call[th] = "idle"
    BY <1>1, ClientsAreNotWorkers DEF SubmitRejectedTask, MayCall, Runs
  <2>2. held[th] \in Task /\ future[t] = "none"
    BY <1>1, <2>1 DEF Roles, SubmitRejectedTask, MayCall
  <2> QED BY <1>1, <2>1, <2>2, SettledKeepsPlaced DEF SubmitRejectedTask, submit_vars
<1>2. ASSUME NEW w \in Worker, NEW o \in {"value", "exception"},
             pc[w] = "run", call[w] = "idle", Settle(w, o)
      PROVE  Placed'
  <2>1. held[w] \in Task
    BY <1>2 DEF Roles
  <2> QED BY <1>2, <2>1, SettledKeepsPlaced DEF Settle, submit_vars
<1>3. ASSUME NEW w \in Worker, BodyReturns(w) \/ BodyThrows(w)
      PROVE  Placed'
  BY <1>2, <1>3 DEF BodyReturns, BodyThrows, MayThrow
<1>4. ASSUME NEW w \in Worker, PopOwn(w) \/ Steal(w)
      PROVE  Placed'
  BY ZenonT(40), <1>4, PopTakes, StealTakes, TakenKeepsPlaced
<1> QED
  BY <1>1, <1>3, <1>4, BeginKeepsPlaced, PushKeepsPlaced, DtorReturnKeepsPlaced,
     PushPushes, StillSteps, StillKeepsPlaced
  DEF Next, SubmitStep, LoopStep, Done

LEMMA PlacedInitially == Init => Placed
BY DEF Init, Placed, Somewhere, Once, InCall, InSlot, HeldBy

LEMMA PlacedAlways == Spec => []Placed
<1>1. Init => Placed
  BY PlacedInitially
<1>2. Typed /\ Placed /\ [Next]_vars => Placed'
  BY PlacedInductive
<1> QED BY <1>1, <1>2, TypedAlways, PTL DEF Spec

\* For any pool and any clients, even clients that submit while the pool is being
\* destroyed: a task whose future is pending is somewhere, and nowhere else.
THEOREM TasksNeverLost == Spec => []NeverLost
BY PlacedAlways, PlacedIs, PTL

\* No task is handed to two workers or kept in two places.
THEOREM TasksNeverTwice == Spec => []NeverTwice
BY PlacedAlways, PlacedIs, PTL
-------------------------------------------------------------------------------
(* Shutdown.  What keeps the non-atomic scan of the exiting workers safe:  *)
(* nobody but a running task can fill a deque once stop_ is raised, and    *)
(* the worker that runs it comes back to every deque.                      *)

Drain ==
  /\ stop <=> dtor # "alive"
  /\ \A w \in Worker : pc[w] \in {"scan", "exited"} => stop
  /\ \A w \in Worker : pc[w] = "stop?" => n[w] = 0
  /\ dtor = "returned" => AllJoined

LEMMA DrainInductive ==
  ASSUME Typed, Drain, [Next]_vars
  PROVE  Drain'
<1> USE DEF Typed, TypeOK, Drain, AllJoined, submit_vars
<1>1. ASSUME NEW th \in Thread, SubmitStep(th)
      PROVE  Drain'
  <2>1. ASSUME NEW t \in Task, SubmitRejectedTask(th, t)
        PROVE  Drain'
    <3>1. th \in Worker /\ pc[th] = "run"
      BY <2>1, ClientsAreNotWorkers DEF SubmitRejectedTask, MayCall, Runs
    <3> QED BY <2>1, <3>1 DEF SubmitRejectedTask
  <2> QED BY <1>1, <2>1 DEF SubmitStep, SubmitBegin, SubmitRejectedClient, SubmitPick, SubmitPush
<1>2. ASSUME NEW w \in Worker, PopOwn(w) \/ Steal(w) \/ ScanFull(w) \/ BodyReturns(w) \/ BodyThrows(w)
      PROVE  Drain'
  BY <1>2 DEF PopOwn, Steal, ScanFull, BodyReturns, BodyThrows, MayThrow, Settle
<1>3. ASSUME NEW w \in Worker, OwnEmpty(w)
      PROVE  Drain'
  BY <1>3 DEF OwnEmpty
<1>7. ASSUME NEW w \in Worker, TestStop(w)
      PROVE  Drain'
  <2>1. CASE stop
    BY <1>7, <2>1 DEF TestStop, AfterTestOfStop
  <2>2. CASE ~stop
    BY <1>7, <2>2 DEF TestStop, AfterTestOfStop
  <2> QED BY <2>1, <2>2
<1>4. ASSUME NEW w \in Worker, VictimEmpty(w)
      PROVE  Drain'
  BY ZenonT(40), <1>4 DEF VictimEmpty
<1>5. ASSUME NEW w \in Worker, ScanEmpty(w)
      PROVE  Drain'
  BY ZenonT(40), <1>5 DEF ScanEmpty
<1>6. CASE DtorStop \/ DtorReturn \/ UNCHANGED vars
  BY <1>6 DEF DtorStop, DtorReturn, vars
<1> QED BY <1>1, <1>2, <1>3, <1>4, <1>5, <1>6, <1>7 DEF Next, LoopStep, Done

\* Once stop_ is raised the clients have made their last submit().
ClientsOut == ClientsQuiesce /\ stop => ClientsDone

LEMMA ClientsOutInductive ==
  ASSUME Typed, Drain, ClientsOut, [Next]_vars
  PROVE  ClientsOut'
<1> USE DEF Typed, TypeOK, ClientsOut, ClientsDone, Submits, submit_vars
<1>1. ASSUME NEW th \in Thread, NEW t \in Task, SubmitBegin(th, t)
      PROVE  ClientsOut'
  BY <1>1 DEF SubmitBegin, MayCall, Runs, Thread
<1>2. ASSUME NEW th \in Thread, NEW t \in Task, SubmitRejectedClient(th, t) \/ SubmitRejectedTask(th, t)
      PROVE  ClientsOut'
  <2>1. UNCHANGED <<stop, call>>
    BY <1>2 DEF SubmitRejectedClient, SubmitRejectedTask
  <2>2. \A s \in Task : future'[s] \in {future[s], "rejected", "exception"}
    BY <1>2 DEF SubmitRejectedClient, SubmitRejectedTask
  <2> QED BY <2>1, <2>2
<1>3. ASSUME NEW th \in Thread, SubmitPick(th) \/ SubmitPush(th)
      PROVE  ClientsOut'
  <2> SUFFICES ASSUME ClientsQuiesce, stop, NEW c \in Client
               PROVE  call'[c] = "idle"
    BY ZenonT(40), <1>3 DEF SubmitPick, SubmitPush
  <2>1. call[c] = "idle" /\ c \in Thread
    BY DEF Thread
  <2> QED BY <1>3, <2>1 DEF SubmitPick, SubmitPush
<1>4. ASSUME NEW w \in Worker, PopOwn(w) \/ OwnEmpty(w) \/ Steal(w) \/ VictimEmpty(w)
                               \/ TestStop(w) \/ ScanFull(w) \/ ScanEmpty(w)
      PROVE  ClientsOut'
  BY ZenonT(40), <1>4 DEF PopOwn, OwnEmpty, Steal, VictimEmpty, TestStop, ScanFull, ScanEmpty
<1>5. ASSUME NEW w \in Worker, BodyReturns(w) \/ BodyThrows(w)
      PROVE  ClientsOut'
  <2>1. UNCHANGED <<stop, call>>
    BY <1>5 DEF BodyReturns, BodyThrows, Settle
  <2>2. PICK o \in {"value", "exception"} : future' = [future EXCEPT ![held[w]] = o]
    BY <1>5 DEF BodyReturns, BodyThrows, Settle
  <2>3. \A t \in Task : future[t] # "none" => future'[t] # "none"
    BY <2>2
  <2> QED BY <2>1, <2>3
<1>6. CASE DtorStop \/ DtorReturn \/ UNCHANGED vars
  BY ZenonT(40), <1>6 DEF DtorStop, DtorReturn, Drain, vars
<1> QED BY <1>1, <1>2, <1>3, <1>4, <1>5, <1>6 DEF Next, SubmitStep, LoopStep, Done

LEMMA WatchedInductive ==
  ASSUME ClientsQuiesce, Typed, Drain, ClientsOut, QueuedWorkIsWatched, [Next]_vars
  PROVE  QueuedWorkIsWatched'
<1> USE DEF Typed, TypeOK, QueuedWorkIsWatched, WillVisit, submit_vars
<1>1. ASSUME NEW th \in Thread, SubmitPush(th)
      PROVE  QueuedWorkIsWatched'
  <2>1. UNCHANGED <<pc, n>>
    BY <1>1 DEF SubmitPush
  <2>2. CASE th \in Worker
    <3>1. pc[th] = "run"
      BY <1>1, <2>2 DEF Roles, SubmitPush
    <3> QED BY <2>1, <2>2, <3>1
  <2>3. CASE th \in Client
    <3>1. ~stop
      BY <1>1, <2>3 DEF SubmitPush, ClientsOut, ClientsDone
    <3>2. \A w \in Worker : pc[w] \in {"own", "steal", "stop?", "run"}
      BY <3>1 DEF Drain
    <3> QED BY <2>1, <3>2, ZeroIsWorker
  <2> QED BY <2>2, <2>3 DEF Thread
<1>2. ASSUME NEW th \in Thread, SubmitStep(th), ~SubmitPush(th)
      PROVE  QueuedWorkIsWatched'
  <2>1. UNCHANGED <<worker_queues, n>>
    BY <1>2 DEF SubmitStep, SubmitBegin, SubmitRejectedClient, SubmitRejectedTask, SubmitPick
  <2>2. pc' = pc \/ (th \in Worker /\ pc' = [pc EXCEPT ![th] = "own"])
    BY <1>2 DEF SubmitStep, SubmitBegin, SubmitRejectedClient, SubmitRejectedTask, SubmitPick
  <2> QED BY <2>1, <2>2
<1>3. ASSUME NEW w \in Worker, PopOwn(w)
      PROVE  QueuedWorkIsWatched'
  BY <1>3 DEF PopOwn
<1>4. ASSUME NEW w \in Worker, Steal(w)
      PROVE  QueuedWorkIsWatched'
  BY <1>4 DEF Steal
<1>5. ASSUME NEW w \in Worker, OwnEmpty(w) \/ ScanFull(w)
      PROVE  QueuedWorkIsWatched'
  BY <1>5 DEF OwnEmpty, ScanFull
<1>6. ASSUME NEW w \in Worker, VictimEmpty(w)
      PROVE  QueuedWorkIsWatched'
  BY <1>6 DEF VictimEmpty
<1>7. ASSUME NEW w \in Worker, TestStop(w)
      PROVE  QueuedWorkIsWatched'
  <2>1. n[w] = 0 /\ \A j \in Worker : 0 <= j
    BY <1>7, WorkerIs DEF TestStop, Drain
  <2> QED BY <1>7, <2>1 DEF TestStop, AfterTestOfStop
<1>8. ASSUME NEW w \in Worker, ScanEmpty(w)
      PROVE  QueuedWorkIsWatched'
  <2>1. pc[w] = "scan" /\ worker_queues[n[w]] = <<>> /\ UNCHANGED worker_queues
    BY <1>8 DEF ScanEmpty
  <2>2. \A j \in Worker : j # n[w] /\ n[w] <= j => n[w] + 1 <= j /\ n[w] + 1 < NWorkers
    <3> SUFFICES ASSUME NEW j \in Worker, j # n[w], n[w] <= j
                 PROVE  n[w] + 1 <= j /\ n[w] + 1 < NWorkers
      OBVIOUS
    <3>1. n[w] \in Nat /\ j \in Nat /\ j < NWorkers
      BY WorkerIs
    <3> QED BY <3>1, PoolAssumption
  <2>3. CASE n[w] + 1 < NWorkers
    <3>1. n' = [n EXCEPT ![w] = n[w] + 1] /\ pc' = pc
      BY <1>8, <2>3 DEF ScanEmpty
    <3> QED BY <2>1, <2>2, <3>1
  <2>4. CASE ~(n[w] + 1 < NWorkers)
    <3>1. n' = [n EXCEPT ![w] = 0] /\ pc' = [pc EXCEPT ![w] = "exited"]
      BY <1>8, <2>4 DEF ScanEmpty
    <3> QED BY <2>1, <2>2, <2>4, <3>1
  <2> QED BY <2>3, <2>4
<1>9. ASSUME NEW w \in Worker, BodyReturns(w) \/ BodyThrows(w)
      PROVE  QueuedWorkIsWatched'
  BY <1>9 DEF BodyReturns, BodyThrows, Settle
<1>10. CASE DtorStop \/ UNCHANGED vars
  BY <1>10 DEF DtorStop, vars
<1>11. CASE DtorReturn
  BY <1>11 DEF DtorReturn
<1> QED BY <1>1, <1>2, <1>3, <1>4, <1>5, <1>6, <1>7, <1>8, <1>9, <1>10, <1>11
     DEF Next, LoopStep, Done

Kept ==
  /\ Typed
  /\ Placed
  /\ Drain
  /\ ClientsOut
  /\ ClientsQuiesce => QueuedWorkIsWatched

LEMMA KeptInductive ==
  ASSUME Kept, [Next]_vars
  PROVE  Kept'
BY TypedInductive, PlacedInductive, DrainInductive, ClientsOutInductive, WatchedInductive DEF Kept

LEMMA KeptInitially == Init => Kept
<1>1. Init => Drain /\ ClientsOut /\ QueuedWorkIsWatched
  BY ZeroIsWorker DEF Init, Drain, ClientsOut, QueuedWorkIsWatched
<1> QED BY <1>1, TypedInitially, PlacedInitially DEF Kept

LEMMA KeptAlways == Spec => []Kept
<1>1. Init => Kept BY KeptInitially
<1>2. Kept /\ [Next]_vars => Kept' BY KeptInductive
<1> QED BY <1>1, <1>2, PTL DEF Spec

\* When every worker has left worker_loop no deque holds a task.
LEMMA ExitedMeansEmpty ==
  ASSUME ClientsQuiesce, Kept, AllJoined
  PROVE  /\ \A w \in Worker : worker_queues[w] = <<>>
         /\ \A t \in Task : ~Queued(t) /\ ~Running(t)
BY DEF Kept, AllJoined, QueuedWorkIsWatched, WillVisit, Queued, Running, HeldBy

LEMMA ReturnedMeansSettled ==
  ASSUME ClientsQuiesce, Kept, dtor = "returned"
  PROVE  \A t \in Task : future[t] # "pending"
<1>1. AllJoined /\ stop /\ ClientsDone
  BY DEF Kept, Drain, ClientsOut
<1>2. \A th \in Thread : call[th] = "idle"
  BY <1>1 DEF Kept, Typed, Roles, AllJoined, ClientsDone, Thread
<1>3. \A t \in Task : ~Submitting(t)
  BY <1>2 DEF Submitting, InCall
<1> QED BY <1>1, <1>3, ExitedMeansEmpty, PlacedIs DEF Kept, NeverLost

\* No promise is destroyed unfulfilled: DtorReturn finds the deques empty.
LEMMA UnbrokenInductive ==
  ASSUME ClientsQuiesce, Kept, NoBrokenPromise, [Next]_vars
  PROVE  NoBrokenPromise'
<1> USE DEF Kept, Typed, TypeOK, NoBrokenPromise
<1>1. CASE DtorReturn
  BY <1>1, ExitedMeansEmpty DEF DtorReturn
<1>2. ASSUME NEW w \in Worker, BodyReturns(w) \/ BodyThrows(w)
      PROVE  NoBrokenPromise'
  BY <1>2 DEF BodyReturns, BodyThrows, Settle
<1>3. ASSUME NEW th \in Thread, SubmitStep(th)
      PROVE  NoBrokenPromise'
  <2>1. ASSUME NEW t \in Task, SubmitBegin(th, t)
        PROVE  NoBrokenPromise'
    BY <2>1 DEF SubmitBegin
  <2>2. ASSUME NEW t \in Task, SubmitRejectedClient(th, t)
        PROVE  NoBrokenPromise'
    BY <2>2 DEF SubmitRejectedClient
  <2>3. ASSUME NEW t \in Task, SubmitRejectedTask(th, t)
        PROVE  NoBrokenPromise'
    BY <2>3 DEF SubmitRejectedTask
  <2>4. CASE SubmitPick(th) \/ SubmitPush(th)
    BY <2>4 DEF SubmitPick, SubmitPush
  <2> QED BY <1>3, <2>1, <2>2, <2>3, <2>4 DEF SubmitStep
<1>4. ASSUME NEW w \in Worker, PopOwn(w) \/ OwnEmpty(w) \/ Steal(w) \/ VictimEmpty(w)
                               \/ TestStop(w) \/ ScanFull(w) \/ ScanEmpty(w)
      PROVE  NoBrokenPromise'
  BY <1>4 DEF PopOwn, OwnEmpty, Steal, VictimEmpty, TestStop, ScanFull, ScanEmpty
<1>5. CASE DtorStop \/ UNCHANGED vars
  BY <1>5 DEF DtorStop, vars
<1> QED BY <1>1, <1>2, <1>3, <1>4, <1>5 DEF Next, LoopStep, Done

\* If the clients' last submit() happens before the destructor: while a deque holds a task
\* some worker will look at it again, although the exit scan is not atomic.
THEOREM QueuedWorkStaysWatched == ClientsQuiesce => (Spec => []QueuedWorkIsWatched)
<1> SUFFICES ASSUME ClientsQuiesce PROVE Spec => []QueuedWorkIsWatched
  OBVIOUS
<1>1. Kept => QueuedWorkIsWatched BY DEF Kept
<1> QED BY <1>1, KeptAlways, PTL

\* Under the same condition no promise is ever destroyed unfulfilled.
THEOREM PromisesKept == ClientsQuiesce => (Spec => []NoBrokenPromise)
<1> SUFFICES ASSUME ClientsQuiesce PROVE Spec => []NoBrokenPromise
  OBVIOUS
<1>1. Init => NoBrokenPromise BY DEF Init, NoBrokenPromise
<1>2. Kept /\ NoBrokenPromise /\ [Next]_vars => NoBrokenPromise' BY UnbrokenInductive
<1> QED BY <1>1, <1>2, KeptAlways, PTL DEF Spec

\* And when the destructor has returned nothing accepted is left to run.
THEOREM ShutdownDrains == ClientsQuiesce => (Spec => []NothingLeftBehind)
<1> SUFFICES ASSUME ClientsQuiesce PROVE Spec => []NothingLeftBehind
  OBVIOUS
<1>1. Kept /\ NoBrokenPromise => NothingLeftBehind
  BY ReturnedMeansSettled DEF NothingLeftBehind, NoBrokenPromise
<1> QED BY <1>1, KeptAlways, PromisesKept, PTL

-------------------------------------------------------------------------------
(* Shutdown while clients still submit.  A deque that holds a task some    *)
(* body submitted is watched even then: it was filled by a worker that had *)
(* the whole of worker_loop ahead of it.                                   *)

Spawned(t) == Parent[t] \notin Client

SpawnedIsWatched ==
  \A j \in Worker : (\E i \in DOMAIN worker_queues[j] : Spawned(worker_queues[j][i]))
                      => \E w \in Worker : WillVisit(w, j)

\* A client is inside submit() only with tasks of its own.
CallsAreOwn == \A c \in Client : call[c] # "idle" => Parent[arg[c]] = c

LEMMA CallsAreOwnInductive ==
  ASSUME Typed, CallsAreOwn, [Next]_vars
  PROVE  CallsAreOwn'
<1> USE DEF CallsAreOwn, submit_vars, Thread
<1>T. call \in [Thread -> {"idle", "checked", "picked"}] /\ arg \in [Thread -> Task \cup {NoTask}]
  BY DEF Typed, TypeOK
<1>1. ASSUME NEW th \in Thread, NEW t \in Task, SubmitBegin(th, t)
      PROVE  CallsAreOwn'
  BY <1>1, <1>T DEF SubmitBegin, MayCall, Runs
<1>2. ASSUME NEW th \in Thread, SubmitPick(th)
      PROVE  CallsAreOwn'
  BY <1>2, <1>T DEF SubmitPick
<1>3. ASSUME NEW th \in Thread, SubmitPush(th)
      PROVE  CallsAreOwn'
  BY <1>3, <1>T DEF SubmitPush
<1>4. CASE UNCHANGED submit_vars
  BY <1>4
<1>5. ASSUME NEW th \in Thread, NEW t \in Task, SubmitRejectedClient(th, t) \/ SubmitRejectedTask(th, t)
      PROVE  UNCHANGED submit_vars
  BY <1>5 DEF SubmitRejectedClient, SubmitRejectedTask
<1>6. ASSUME NEW w \in Worker, LoopStep(w)
      PROVE  UNCHANGED submit_vars
  BY <1>6 DEF LoopStep, PopOwn, OwnEmpty, Steal, VictimEmpty, TestStop, ScanFull, ScanEmpty,
              BodyReturns, BodyThrows, Settle
<1>7. DtorStop \/ DtorReturn \/ UNCHANGED vars => UNCHANGED submit_vars
  BY DEF DtorStop, DtorReturn, vars
<1> QED BY <1>1, <1>2, <1>3, <1>4, <1>5, <1>6, <1>7 DEF Next, SubmitStep, Done

LEMMA SpawnedWatchedInductive ==
  ASSUME Typed, Drain, CallsAreOwn, SpawnedIsWatched, [Next]_vars
  PROVE  SpawnedIsWatched'
<1> USE DEF Typed, TypeOK, SpawnedIsWatched, WillVisit, submit_vars
<1>1. ASSUME NEW th \in Thread, SubmitPush(th)
      PROVE  SpawnedIsWatched'
  <2>1. UNCHANGED <<pc, n>>
    BY <1>1 DEF SubmitPush
  <2>2. CASE th \in Worker
    <3>1. pc[th] = "run"
      BY <1>1, <2>2 DEF Roles, SubmitPush
    <3> QED BY <2>1, <2>2, <3>1
  <2>3. CASE th \in Client
    <3>1. ~Spawned(arg[th]) /\ arg[th] \in Task /\ idx[th] \in Worker
      BY <1>1, <2>3 DEF SubmitPush, CallsAreOwn, Spawned, Roles
    <3>2. worker_queues' = [worker_queues EXCEPT ![idx[th]] = Append(worker_queues[idx[th]], arg[th])]
      BY <1>1 DEF SubmitPush
    <3>3. ASSUME NEW j \in Worker, NEW i \in DOMAIN worker_queues'[j], Spawned(worker_queues'[j][i])
          PROVE  \E k \in DOMAIN worker_queues[j] : Spawned(worker_queues[j][k])
      <4>1. CASE j # idx[th]
        BY <3>2, <3>3, <4>1
      <4>2. CASE j = idx[th]
        <5> DEFINE q == worker_queues[j]
        <5>1. q \in Seq(Task) /\ worker_queues'[j] = Append(q, arg[th])
          BY <3>2, <4>2
        <5>2. i \in 1 .. Len(q) + 1 /\ i # Len(q) + 1 /\ Len(q) \in Nat
          BY <3>1, <3>3, <5>1, AppendFacts
        <5>3. i \in 1 .. Len(q) /\ i \in DOMAIN q
          BY <5>1, <5>2, AppendFacts, <3>1
        <5>4. worker_queues'[j][i] = q[i]
          BY <3>1, <5>1, <5>3, AppendFacts
        <5> QED BY <3>3, <5>3, <5>4
      <4> QED BY <4>1, <4>2
    <3> QED BY <2>1, <3>3
  <2> QED BY <2>2, <2>3 DEF Thread
<1>2. ASSUME NEW th \in Thread, SubmitStep(th), ~SubmitPush(th)
      PROVE  SpawnedIsWatched'
  <2>1. UNCHANGED <<worker_queues, n>>
    BY <1>2 DEF SubmitStep, SubmitBegin, SubmitRejectedClient, SubmitRejectedTask, SubmitPick
  <2>2. pc' = pc \/ (th \in Worker /\ pc' = [pc EXCEPT ![th] = "own"])
    BY <1>2 DEF SubmitStep, SubmitBegin, SubmitRejectedClient, SubmitRejectedTask, SubmitPick
  <2> QED BY <2>1, <2>2
<1>3. ASSUME NEW w \in Worker, PopOwn(w) \/ Steal(w)
      PROVE  SpawnedIsWatched'
  <2>1. pc'[w] = "run"
    BY <1>3 DEF PopOwn, Steal
  <2> QED BY <2>1
<1>4. ASSUME NEW w \in Worker, OwnEmpty(w) \/ ScanFull(w)
      PROVE  SpawnedIsWatched'
  BY <1>4 DEF OwnEmpty, ScanFull
<1>5. ASSUME NEW w \in Worker, VictimEmpty(w)
      PROVE  SpawnedIsWatched'
  BY <1>5 DEF VictimEmpty
<1>6. ASSUME NEW w \in Worker, TestStop(w)
      PROVE  SpawnedIsWatched'
  <2>1. n[w] = 0 /\ \A j \in Worker : 0 <= j
    BY <1>6, WorkerIs DEF TestStop, Drain
  <2> QED BY <1>6, <2>1 DEF TestStop, AfterTestOfStop
<1>7. ASSUME NEW w \in Worker, ScanEmpty(w)
      PROVE  SpawnedIsWatched'
  <2>1. pc[w] = "scan" /\ worker_queues[n[w]] = <<>> /\ UNCHANGED worker_queues
    BY <1>7 DEF ScanEmpty
  <2>2. \A j \in Worker : j # n[w] /\ n[w] <= j => n[w] + 1 <= j /\ n[w] + 1 < NWorkers
    <3> SUFFICES ASSUME NEW j \in Worker, j # n[w], n[w] <= j
                 PROVE  n[w] + 1 <= j /\ n[w] + 1 < NWorkers
      OBVIOUS
    <3>1. n[w] \in Nat /\ j \in Nat /\ j < NWorkers
      BY WorkerIs
    <3> QED BY <3>1, PoolAssumption
  <2>3. DOMAIN worker_queues[n[w]] = {}
    BY <2>1
  <2>4. CASE n[w] + 1 < NWorkers
    <3>1. n' = [n EXCEPT ![w] = n[w] + 1] /\ pc' = pc
      BY <1>7, <2>4 DEF ScanEmpty
    <3> QED BY <2>1, <2>2, <2>3, <3>1
  <2>5. CASE ~(n[w] + 1 < NWorkers)
    <3>1. n' = [n EXCEPT ![w] = 0] /\ pc' = [pc EXCEPT ![w] = "exited"]
      BY <1>7, <2>5 DEF ScanEmpty
    <3> QED BY <2>1, <2>2, <2>3, <2>5, <3>1
  <2> QED BY <2>4, <2>5
<1>8. ASSUME NEW w \in Worker, BodyReturns(w) \/ BodyThrows(w)
      PROVE  SpawnedIsWatched'
  BY <1>8 DEF BodyReturns, BodyThrows, Settle
<1>9. CASE DtorStop \/ UNCHANGED vars
  BY <1>9 DEF DtorStop, vars
<1>10. CASE DtorReturn
  <2>1. \A j \in Worker : DOMAIN worker_queues'[j] = {}
    BY <1>10 DEF DtorReturn
  <2> QED BY <2>1
<1> QED BY <1>1, <1>2, <1>3, <1>4, <1>5, <1>6, <1>7, <1>8, <1>9, <1>10 DEF Next, LoopStep, Done

LEMMA ClientsLoseInductive ==
  ASSUME Typed, SpawnedIsWatched, OnlyClientsLosePromises, [Next]_vars
  PROVE  OnlyClientsLosePromises'
<1> USE DEF Typed, TypeOK, OnlyClientsLosePromises
<1>1. CASE DtorReturn
  <2> SUFFICES ASSUME NEW t \in Task, Queued(t)
               PROVE  Parent[t] \in Client
    BY <1>1 DEF DtorReturn
  <2>1. PICK w \in Worker : \E i \in DOMAIN worker_queues[w] : worker_queues[w][i] = t
    BY DEF Queued, InSlot
  <2>2. ~\E v \in Worker : WillVisit(v, w)
    BY <1>1 DEF DtorReturn, AllJoined, WillVisit
  <2> QED BY <2>1, <2>2 DEF SpawnedIsWatched, Spawned
<1>2. ASSUME NEW w \in Worker, BodyReturns(w) \/ BodyThrows(w)
      PROVE  OnlyClientsLosePromises'
  BY <1>2 DEF BodyReturns, BodyThrows, Settle
<1>3. ASSUME NEW th \in Thread, NEW t \in Task,
             SubmitBegin(th, t) \/ SubmitRejectedClient(th, t) \/ SubmitRejectedTask(th, t)
      PROVE  OnlyClientsLosePromises'
  <2>1. \A s \in Task : future'[s] = "broken" => future[s] = "broken"
    BY <1>3 DEF SubmitBegin, SubmitRejectedClient, SubmitRejectedTask
  <2> QED BY <2>1
<1>4. CASE UNCHANGED future
  BY <1>4
<1>5. ASSUME NEW w \in Worker, PopOwn(w) \/ OwnEmpty(w) \/ Steal(w) \/ VictimEmpty(w)
                               \/ TestStop(w) \/ ScanFull(w) \/ ScanEmpty(w)
      PROVE  UNCHANGED future
  BY <1>5 DEF PopOwn, OwnEmpty, Steal, VictimEmpty, TestStop, ScanFull, ScanEmpty
<1>6. ASSUME NEW th \in Thread, SubmitPick(th) \/ SubmitPush(th)
      PROVE  UNCHANGED future
  BY <1>6 DEF SubmitPick, SubmitPush
<1>7. DtorStop \/ UNCHANGED vars => UNCHANGED future
  BY DEF DtorStop, vars
<1> QED BY <1>1, <1>2, <1>3, <1>4, <1>5, <1>6, <1>7 DEF Next, SubmitStep, LoopStep, Done

\* Whatever the clients do while the pool is destroyed, and however old a value of stop_
\* they read, a promise that dies unfulfilled is one of theirs: what a running task
\* submitted is run before the last worker leaves worker_loop.
THEOREM TasksKeepTheirPromises == Spec => []OnlyClientsLosePromises
<1> DEFINE Inv == CallsAreOwn /\ SpawnedIsWatched /\ OnlyClientsLosePromises
<1>1. Init => Inv
  <2>1. Init => CallsAreOwn
    BY DEF Init, CallsAreOwn, Thread
  <2>2. Init => SpawnedIsWatched
    BY ZeroIsWorker DEF Init, SpawnedIsWatched, WillVisit
  <2>3. Init => OnlyClientsLosePromises
    BY DEF Init, OnlyClientsLosePromises
  <2> QED BY <2>1, <2>2, <2>3
<1>2. Kept /\ Inv /\ [Next]_vars => Inv'
  BY CallsAreOwnInductive, SpawnedWatchedInductive, ClientsLoseInductive DEF Kept
<1>3. Inv => OnlyClientsLosePromises
  OBVIOUS
<1> HIDE DEF Inv
<1> QED BY <1>1, <1>2, <1>3, KeptAlways, PTL DEF Spec

\* Whatever the clients do, no task body is executing once the destructor returned.
THEOREM PoolOutlivesTasks == Spec => []NoTaskOutlivesPool
<1>1. Kept => NoTaskOutlivesPool
  BY DEF Kept, Drain, AllJoined, NoTaskOutlivesPool, Running, HeldBy
<1> QED BY <1>1, KeptAlways, PTL

\* A ready future never changes: a step writes only futures that are pending or new.
THEOREM ReadyIsFinal == Spec => FuturesAreFinal
<1> DEFINE Final == \A t \in Task : future[t] \in {"value", "exception", "rejected"}
                                      => future'[t] = future[t]
<1>1. ASSUME Kept, [Next]_vars
      PROVE  Final
  <2> USE <1>1 DEF Kept, Typed, TypeOK
  <2>1. \A w \in Worker : pc[w] = "run" => future[held[w]] = "pending"
    BY PlacedIs DEF Roles, NeverLost, Running, HeldBy
  <2>2. \A t \in Task : Queued(t) => future[t] = "pending"
    BY PlacedIs DEF NeverLost
  <2>3. CASE DtorReturn
    BY <2>2, <2>3 DEF DtorReturn
  <2>4. ASSUME NEW w \in Worker, BodyReturns(w) \/ BodyThrows(w)
        PROVE  Final
    BY <2>1, <2>4 DEF BodyReturns, BodyThrows, MayThrow, Settle
  <2>5. ASSUME NEW th \in Thread, NEW t \in Task, SubmitRejectedTask(th, t)
        PROVE  Final
    BY <2>1, <2>5, ClientsAreNotWorkers DEF SubmitRejectedTask, MayCall, Runs
  <2>6. ASSUME NEW th \in Thread, NEW t \in Task, SubmitBegin(th, t) \/ SubmitRejectedClient(th, t)
        PROVE  Final
    BY <2>6 DEF SubmitBegin, SubmitRejectedClient, MayCall
  <2>7. CASE UNCHANGED future
    BY <2>7
  <2>8. ASSUME NEW w \in Worker, PopOwn(w) \/ OwnEmpty(w) \/ Steal(w) \/ VictimEmpty(w)
                                 \/ TestStop(w) \/ ScanFull(w) \/ ScanEmpty(w)
        PROVE  UNCHANGED future
    BY <2>8 DEF PopOwn, OwnEmpty, Steal, VictimEmpty, TestStop, ScanFull, ScanEmpty
  <2>9. ASSUME NEW th \in Thread, SubmitPick(th) \/ SubmitPush(th)
        PROVE  UNCHANGED future
    BY <2>9 DEF SubmitPick, SubmitPush
  <2>10. CASE DtorStop \/ UNCHANGED vars
    BY <2>10 DEF DtorStop, vars
  <2> QED BY <2>3, <2>4, <2>5, <2>6, <2>7, <2>8, <2>9, <2>10 DEF Next, SubmitStep, LoopStep, Done
<1>2. Kept /\ [Next]_vars => [Final]_vars
  BY <1>1
<1> QED BY <1>2, KeptAlways, PTL DEF Spec, FuturesAreFinal
-------------------------------------------------------------------------------
(* The pool implements TaskPool.                                           *)

\* What Status says, in terms of where the task is.
StatusByPlace ==
  \A t \in Task :
    /\ Queued(t) => Status(t) = "queued"
    /\ Running(t) => Status(t) = "running"
    /\ future[t] \in {"none", "pending"} /\ ~Queued(t) /\ ~Running(t) => Status(t) = "new"
    /\ future[t] \notin {"none", "pending"} => Status(t) = future[t]
    /\ Queued(t) \/ Running(t) => future[t] = "pending"

LEMMA StatusIs == Placed => StatusByPlace
BY PlacedIs DEF StatusByPlace, Status, NeverLost, NeverTwice

LEMMA StatusNextIs == Placed' => StatusByPlace'
BY StatusIs, PTL

Statuses == [t \in Task |-> Status(t)]

LEMMA StatusesChange ==
  ASSUME NEW t0 \in Task, NEW s, Status(t0)' = s,
         \A t \in Task \ {t0} : Status(t)' = Status(t)
  PROVE  Statuses' = [Statuses EXCEPT ![t0] = s]
BY DEF Statuses

LEMMA StatusesStay ==
  ASSUME \A t \in Task : Status(t)' = Status(t)
  PROVE  Statuses' = Statuses
BY DEF Statuses

\* Queued and Running with the slot number unbounded, as the lemmas above have it.
LEMMA QueuedIs == \A t : Queued(t) <=> \E w \in Worker : \E i : InSlot(t, w, i)
BY DEF Queued, InSlot

LEMMA QueuedNextIs == \A t : Queued(t)' <=> \E w \in Worker : \E i : InSlot(t, w, i)'
BY DEF Queued, InSlot

LEMMA StillStutters ==
  ASSUME StatusByPlace, StatusByPlace', Still, \A t \in Task : future'[t] = future[t],
         UNCHANGED dtor
  PROVE  UNCHANGED Abs!vars
<1>1. \A t \in Task : (Queued(t)' <=> Queued(t)) /\ (Running(t)' <=> Running(t))
  BY QueuedIs, QueuedNextIs DEF Still, Running
<1>2. \A t \in Task : Status(t)' = Status(t)
  BY <1>1 DEF StatusByPlace
<1> QED BY <1>2, StatusesStay DEF Statuses, Abs!vars

LEMMA TakenStarts ==
  ASSUME Placed, StatusByPlace, StatusByPlace', NEW w \in Worker, NEW d, NEW k, NEW s \in {0, 1},
         NEW t0, Taken(w, d, k, s, t0), UNCHANGED dtor
  PROVE  Abs!Start(t0)
<1> USE DEF Taken
<1>1. Queued(t0) /\ ~Queued(t0)' /\ Running(t0)'
  BY QueuedIs, QueuedNextIs DEF Placed, Once, Running
<1>2. \A t \in Task \ {t0} : (Queued(t)' <=> Queued(t)) /\ (Running(t)' <=> Running(t))
  <2>1. \A t \in Task \ {t0} : Running(t)' <=> Running(t)
    BY DEF Running
  <2>2. \A t \in Task \ {t0} : Queued(t)' => Queued(t)
    BY QueuedIs, QueuedNextIs
  <2>3. \A t \in Task \ {t0} : Queued(t) => Queued(t)'
    BY QueuedIs, QueuedNextIs
  <2> QED BY <2>1, <2>2, <2>3
<1>3. Status(t0) = "queued" /\ Status(t0)' = "running"
  BY <1>1 DEF StatusByPlace
<1>4. \A t \in Task \ {t0} : Status(t)' = Status(t)
  BY <1>2 DEF StatusByPlace
<1> QED BY <1>3, <1>4, StatusesChange DEF Statuses, Abs!Start

LEMMA PushAccepts ==
  ASSUME Placed, StatusByPlace, StatusByPlace', NEW th \in Thread, NEW d, NEW k, NEW t0,
         Pushed(th, d, k, t0), dtor # "returned", UNCHANGED dtor
  PROVE  Abs!Accept(t0)
<1> USE DEF Pushed
<1>1. ~Queued(t0) /\ ~Running(t0) /\ Queued(t0)' /\ future[t0] = "pending"
  BY QueuedIs, QueuedNextIs DEF Placed, Once, Somewhere, Running
<1>2. \A t \in Task \ {t0} : (Queued(t)' <=> Queued(t)) /\ (Running(t)' <=> Running(t))
  BY QueuedIs, QueuedNextIs DEF Running
<1>3. Status(t0) = "new" /\ Status(t0)' = "queued"
  BY <1>1 DEF StatusByPlace
<1>4. \A t \in Task \ {t0} : Status(t)' = Status(t)
  BY <1>2 DEF StatusByPlace
<1> QED BY <1>3, <1>4, StatusesChange DEF Statuses, Abs!Accept

\* A worker gives up the task it executed, whose future is settled.
LEMMA SettledLeaves ==
  ASSUME Typed, Placed, NEW w \in Worker, pc[w] = "run",
         held' = [held EXCEPT ![w] = NoTask],
         pc' = [pc EXCEPT ![w] = "own"],
         UNCHANGED worker_queues
  PROVE  /\ held[w] \in Task
         /\ Running(held[w])
         /\ \A t \in Task : Queued(t)' <=> Queued(t)
         /\ \A t \in Task : Running(t)' <=> Running(t) /\ t # held[w]
<1>1. held[w] \in Task /\ HeldBy(held[w], w)
  BY DEF Typed, TypeOK, Roles, HeldBy
<1>2. \A t \in Task, v \in Worker : \A i : InSlot(t, v, i)' <=> InSlot(t, v, i)
  BY DEF InSlot
<1>3. \A t \in Task, v \in Worker : HeldBy(t, v)' <=> HeldBy(t, v) /\ v # w
  BY DEF HeldBy, Typed, TypeOK
<1>4. \A t \in Task : HeldBy(t, w) => t = held[w]
  BY DEF HeldBy
<1>5. \A t \in Task : Queued(t)' <=> Queued(t)
  BY <1>2, QueuedIs, QueuedNextIs
<1>6. \A t \in Task : Running(t)' <=> Running(t) /\ t # held[w]
  BY <1>1, <1>3, <1>4 DEF Running, Placed, Once
<1> QED BY <1>1, <1>5, <1>6 DEF Running

LEMMA SettleFinishes ==
  ASSUME Typed, Placed, StatusByPlace, StatusByPlace', NEW w \in Worker, pc[w] = "run",
         NEW o \in {"value", "exception"}, Settle(w, o)
  PROVE  \E u \in Task : Abs!Finish(u, o)
<1>1. /\ held' = [held EXCEPT ![w] = NoTask] /\ pc' = [pc EXCEPT ![w] = "own"]
      /\ UNCHANGED <<worker_queues, dtor>> /\ future' = [future EXCEPT ![held[w]] = o]
  BY DEF Settle
<1>2. PICK u \in Task :
        /\ u = held[w]
        /\ Running(u)
        /\ \A t \in Task : Queued(t)' <=> Queued(t)
        /\ \A t \in Task : Running(t)' <=> Running(t) /\ t # u
  BY <1>1, SettledLeaves
<1>3. future'[u] = o /\ \A t \in Task \ {u} : future'[t] = future[t]
  BY <1>1, <1>2 DEF Typed, TypeOK
<1>4. Status(u) = "running" /\ Status(u)' = o
  BY <1>2, <1>3 DEF StatusByPlace
<1>5. \A t \in Task \ {u} : Status(t)' = Status(t)
  BY <1>2, <1>3 DEF StatusByPlace
<1> QED BY <1>1, <1>4, <1>5, StatusesChange DEF Statuses, Abs!Finish

LEMMA RejectedTaskRejects ==
  ASSUME Typed, Placed, StatusByPlace, StatusByPlace', NEW w \in Worker, NEW t0 \in Task,
         SubmitRejectedTask(w, t0)
  PROVE  \E u \in Task : Abs!RejectWithin(u, t0)
<1>1. /\ held' = [held EXCEPT ![w] = NoTask] /\ pc' = [pc EXCEPT ![w] = "own"]
      /\ UNCHANGED <<worker_queues, dtor>> /\ pc[w] = "run" /\ future[t0] = "none"
      /\ future' = [future EXCEPT ![t0] = "rejected", ![held[w]] = "exception"]
  BY ClientsAreNotWorkers DEF SubmitRejectedTask, MayCall, Runs
<1>2. PICK u \in Task :
        /\ u = held[w]
        /\ Running(u)
        /\ \A t \in Task : Queued(t)' <=> Queued(t)
        /\ \A t \in Task : Running(t)' <=> Running(t) /\ t # u
  BY <1>1, SettledLeaves
<1>3. t0 # u /\ ~Queued(t0) /\ ~Running(t0)
  BY <1>1, <1>2 DEF StatusByPlace
<1>4. /\ future'[u] = "exception" /\ future'[t0] = "rejected"
      /\ \A t \in Task \ {t0, u} : future'[t] = future[t]
  BY <1>1, <1>2, <1>3 DEF Typed, TypeOK
<1>5. /\ Status(u) = "running" /\ Status(u)' = "exception"
      /\ Status(t0) = "new" /\ Status(t0)' = "rejected"
  BY <1>1, <1>2, <1>3, <1>4 DEF StatusByPlace
<1>6. \A t \in Task \ {t0, u} : Status(t)' = Status(t)
  BY <1>2, <1>4 DEF StatusByPlace
<1>7. Statuses' = [Statuses EXCEPT ![t0] = "rejected", ![u] = "exception"]
  BY <1>3, <1>5, <1>6 DEF Statuses
<1> QED BY <1>1, <1>5, <1>7 DEF Statuses, Abs!RejectWithin

LEMMA DtorReturnCloses ==
  ASSUME ClientsQuiesce, Kept, StatusByPlace, StatusByPlace', NoBrokenPromise, DtorReturn
  PROVE  Abs!Close
<1>1. \A t \in Task : ~Queued(t) /\ ~Running(t)
  BY ExitedMeansEmpty DEF DtorReturn
<1>2. \A t \in Task : future'[t] = future[t]
  BY <1>1 DEF DtorReturn
<1>3. \A t \in Task : ~Queued(t)' /\ ~Running(t)'
  BY DEF DtorReturn, Queued, Running, HeldBy, InSlot, AllJoined
<1>4. \A t \in Task : Status(t)' = Status(t) /\ Status(t) \notin {"queued", "running"}
  BY ZenonT(40), <1>1, <1>2, <1>3 DEF StatusByPlace, Kept, Typed, TypeOK
<1>5. Abs!Owed = {}
  BY <1>4 DEF Abs!Owed
<1> QED BY <1>4, <1>5, StatusesStay DEF Statuses, Abs!Close, DtorReturn

LEMMA StepsAreAbstract ==
  ASSUME ClientsQuiesce, Kept, NoBrokenPromise, [Next]_vars
  PROVE  Abs!Next \/ UNCHANGED Abs!vars
<1>1. Kept'
  BY KeptInductive
<1>2. StatusByPlace /\ StatusByPlace'
  BY <1>1, StatusIs, StatusNextIs DEF Kept
<1> USE <1>2 DEF Kept
<1>3. ASSUME NEW th \in Thread, NEW t \in Task, SubmitBegin(th, t)
      PROVE  UNCHANGED Abs!vars
  <2>1. UNCHANGED <<worker_queues, pc, held, dtor>> /\ future[t] = "none"
    BY <1>3 DEF SubmitBegin, MayCall
  <2>2. \A x \in Task : (Queued(x)' <=> Queued(x)) /\ (Running(x)' <=> Running(x))
    BY <2>1 DEF Queued, Running, InSlot, HeldBy
  <2>3. \A x \in Task \ {t} : future'[x] = future[x]
    BY <1>3 DEF SubmitBegin, Typed, TypeOK
  <2>4. future'[t] = "pending" /\ ~Queued(t) /\ ~Running(t)
    BY <1>3, <2>1 DEF SubmitBegin, Typed, TypeOK, StatusByPlace
  <2>5. \A x \in Task : Status(x)' = Status(x)
    BY <2>1, <2>2, <2>3, <2>4 DEF StatusByPlace
  <2> QED BY <2>1, <2>5, StatusesStay DEF Statuses, Abs!vars
<1>4. ASSUME NEW th \in Thread, NEW t \in Task, SubmitRejectedClient(th, t)
      PROVE  Abs!Reject(t)
  <2>1. /\ UNCHANGED <<worker_queues, pc, held, dtor>> /\ future[t] = "none" /\ dtor # "returned"
        /\ future' = [future EXCEPT ![t] = "rejected"]
    BY <1>4 DEF SubmitRejectedClient, MayCall
  <2>2. \A x \in Task : (Queued(x)' <=> Queued(x)) /\ (Running(x)' <=> Running(x))
    BY <2>1 DEF Queued, Running, InSlot, HeldBy
  <2>3. future'[t] = "rejected" /\ \A x \in Task \ {t} : future'[x] = future[x]
    BY <2>1 DEF Typed, TypeOK
  <2>4. Status(t) = "new" /\ Status(t)' = "rejected"
    BY <2>1, <2>3 DEF StatusByPlace
  <2>5. \A x \in Task \ {t} : Status(x)' = Status(x)
    BY <2>2, <2>3 DEF StatusByPlace
  <2> QED BY <2>1, <2>4, <2>5, StatusesChange DEF Statuses, Abs!Reject
<1>5. ASSUME NEW th \in Thread, NEW t \in Task, SubmitRejectedTask(th, t)
      PROVE  \E p \in Task : Abs!RejectWithin(p, t)
  <2>1. th \in Worker /\ held[th] \in Task
    BY <1>5, ClientsAreNotWorkers DEF SubmitRejectedTask, MayCall, Runs, Typed, TypeOK, Roles
  <2> QED BY <1>5, <2>1, RejectedTaskRejects
<1>6. ASSUME NEW th \in Thread, SubmitPush(th)
      PROVE  \E t \in Task : Abs!Accept(t)
  <2>1. dtor # "returned" /\ UNCHANGED dtor
    BY <1>6 DEF SubmitPush
  <2>2. PICK d, k, t0 : Pushed(th, d, k, t0)
    BY <1>6, PushPushes
  <2>3. t0 \in Task
    BY <2>2 DEF Pushed
  <2> QED BY <2>1, <2>2, <2>3, PushAccepts
<1>7. ASSUME NEW w \in Worker, PopOwn(w) \/ Steal(w)
      PROVE  \E t \in Task : Abs!Start(t)
  <2>1. UNCHANGED dtor
    BY <1>7 DEF PopOwn, Steal
  <2>2. PICK d, k, t0 : \E s \in {0, 1} : Taken(w, d, k, s, t0)
    BY <1>7, PopTakes, StealTakes
  <2>3. t0 \in Task
    BY <2>2 DEF Taken
  <2> QED BY <2>1, <2>2, <2>3, TakenStarts
<1>8. ASSUME NEW w \in Worker, BodyReturns(w) \/ BodyThrows(w)
      PROVE  \E t \in Task : \E o \in {"value", "exception"} : Abs!Finish(t, o)
  <2>1. held[w] \in Task
    BY <1>8 DEF BodyReturns, BodyThrows, MayThrow, Typed, TypeOK, Roles
  <2> QED BY <1>8, <2>1, SettleFinishes DEF BodyReturns, BodyThrows, MayThrow
<1>9. CASE DtorReturn
  BY <1>9, DtorReturnCloses DEF Abs!Next
<1>10. ASSUME \/ \E th \in Thread : SubmitPick(th)
              \/ \E w \in Worker : \/ OwnEmpty(w) \/ VictimEmpty(w) \/ TestStop(w)
                                  \/ ScanFull(w) \/ ScanEmpty(w)
              \/ UNCHANGED vars
       PROVE  UNCHANGED Abs!vars
  <2>1. UNCHANGED <<future, dtor>>
    BY <1>10 DEF SubmitPick, OwnEmpty, VictimEmpty, TestStop, ScanFull, ScanEmpty, vars
  <2> QED BY <1>10, <2>1, StillSteps, StillStutters
<1>11. CASE DtorStop
  <2>1. UNCHANGED <<future, worker_queues, pc, held>> /\ dtor # "returned" /\ dtor' # "returned"
    BY <1>11 DEF DtorStop
  <2>2. \A x \in Task : Status(x)' = Status(x)
    BY <2>1 DEF Status, Queued, Running, InSlot, HeldBy
  <2> QED BY <2>1, <2>2, StatusesStay DEF Statuses, Abs!vars
<1> QED
  BY <1>3, <1>4, <1>5, <1>6, <1>7, <1>8, <1>9, <1>10, <1>11
  DEF Next, SubmitStep, LoopStep, Done, Abs!Next

\* Clients whose last submit() happens before the destructor see a TaskPool: every
\* task accepted runs once, and the destructor returns when nothing is owed.
THEOREM PoolImplementsTaskPool == ClientsQuiesce => (Spec => ImplementsTaskPool)
<1> SUFFICES ASSUME ClientsQuiesce PROVE Spec => ImplementsTaskPool
  OBVIOUS
<1>1. Init => Abs!Init
  <2> SUFFICES ASSUME Init PROVE Abs!Init
    OBVIOUS
  <2>1. \A t \in Task : Status(t) = "new"
    BY DEF Init, Status
  <2> QED BY <2>1 DEF Init, Abs!Init
<1>2. Kept /\ NoBrokenPromise /\ [Next]_vars => [Abs!Next]_(Abs!vars)
  BY StepsAreAbstract
<1> QED BY <1>1, <1>2, KeptAlways, PromisesKept, PTL DEF Spec, ImplementsTaskPool, Abs!Spec
===============================================================================
