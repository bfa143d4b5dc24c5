------------------------------ MODULE ObjectPool ------------------------------
(***************************************************************************)
(* toolbox::base::object_pool_t: acquire() takes an object from a queue    *)
(* under a mutex and makes one without it when there was none; the deleter *)
(* of the pointer it returns resets the object without the mutex and       *)
(* queues it under the mutex.                                              *)
(***************************************************************************)
EXTENDS Integers, Sequences, FiniteSets, Functions

CONSTANTS
  Item,      \* the addresses of objects
  User,      \* threads that use the pool
  Initial,   \* objects made by the constructor
  HasReset   \* there is a reset_func_

VARIABLES
  pool,    \* pool_, the front first
  heap,    \* the objects that exist
  held,    \* held[u]: the objects to which u has a pointer from acquire()
  call,    \* call[u]: Nothing, Making, or the object that u is about to queue
  dirty,   \* the objects written since they were made or reset
  alive    \* the pool has not been destroyed

object_vars == <<pool, heap, held, call, dirty, alive>>

Nothing == "nothing"
Making == "making"

Init ==
  /\ pool \in {s \in [1 .. Initial -> Item] : \A i, j \in 1 .. Initial : s[i] = s[j] => i = j}
  /\ heap = Range(pool)
  /\ held = [u \in User |-> {}]
  /\ call = [u \in User |-> Nothing]
  /\ dirty = {}
  /\ alive = TRUE

Enter(u, what) == call' = [call EXCEPT ![u] = what]
Hold(u, i) == held' = [held EXCEPT ![u] = @ \cup {i}]

PopFront(s) == Tail(s)

Acquire(u) ==
  /\ alive /\ call[u] = Nothing
  /\ IF pool = <<>>
     THEN Enter(u, Making) /\ UNCHANGED <<pool, held>>
     ELSE Hold(u, Head(pool)) /\ pool' = PopFront(pool) /\ UNCHANGED call
  /\ UNCHANGED <<heap, dirty, alive>>

\* Without the mutex; make_unique() may throw.
Make(u) ==
  /\ call[u] = Making
  /\ Enter(u, Nothing)
  /\ \/ UNCHANGED <<heap, held>>
     \/ \E i \in Item \ heap : heap' = heap \cup {i} /\ Hold(u, i)
  /\ UNCHANGED <<pool, dirty, alive>>

Use(u) ==
  /\ call[u] = Nothing
  /\ \E i \in held[u] : dirty' = dirty \cup {i}
  /\ UNCHANGED <<pool, heap, held, call, alive>>

Cleaned(i) == IF HasReset THEN dirty \ {i} ELSE dirty

\* The pointer goes: its deleter calls release(), which resets the object first.
Release(u) ==
  /\ call[u] = Nothing
  /\ \E i \in held[u] :
       /\ held' = [held EXCEPT ![u] = @ \ {i}]
       /\ dirty' = Cleaned(i)
       /\ Enter(u, i)
  /\ UNCHANGED <<pool, heap, alive>>

\* reset_func_ throws: the object is deleted.
ResetFails(u) ==
  /\ call[u] = Nothing
  /\ HasReset
  /\ \E i \in held[u] :
       /\ held' = [held EXCEPT ![u] = @ \ {i}]
       /\ heap' = heap \ {i} /\ dirty' = dirty \ {i}
  /\ UNCHANGED <<pool, call, alive>>

Push(u) ==
  /\ call[u] \in Item
  /\ pool' = Append(pool, call[u])
  /\ Enter(u, Nothing)
  /\ UNCHANGED <<heap, held, dirty, alive>>

\* The owner destroys the pool when nobody is in a call and every object is back: the
\* deleter of an object has a plain pointer to the pool, and there is no defined
\* behaviour for one that outlives it.
Destroy ==
  /\ alive
  /\ \A u \in User : call[u] = Nothing /\ held[u] = {}
  /\ alive' = FALSE
  /\ pool' = <<>> /\ heap' = heap \ Range(pool) /\ dirty' = dirty \ Range(pool)
  /\ UNCHANGED <<held, call>>

Next ==
  \/ \E u \in User : Acquire(u) \/ Make(u) \/ Use(u) \/ Release(u) \/ ResetFails(u) \/ Push(u)
  \/ Destroy

Spec == Init /\ [][Next]_object_vars

-------------------------------------------------------------------------------
(* Properties                                                              *)

TypeOK ==
  /\ heap \subseteq Item /\ pool \in Seq(heap) /\ dirty \subseteq Item
  /\ held \in [User -> SUBSET Item]
  /\ call \in [User -> Item \cup {Nothing, Making}] /\ alive \in BOOLEAN

\* An object on its way back is nobody's any more.
HolderOf(i) ==
  LET users == {u \in User : i \in held[u]}
      kept == i \in Range(pool) \/ \E u \in User : call[u] = i
  IN  CASE i \in heap /\ ~kept /\ Cardinality(users) = 1 -> CHOOSE u \in users : TRUE
        [] i \in heap /\ kept /\ users = {} -> "shelf"
        [] i \notin heap /\ ~kept /\ users = {} -> "system"
        [] OTHER -> "nobody"

Lender == INSTANCE Lending WITH
  holder <- [i \in Item |-> HolderOf(i)],
  clean <- IF HasReset THEN Item \ dirty ELSE Item

\* Two threads never share an object, none is lost or deleted while it is used or
\* queued, and with a reset function acquire() returns nothing that an earlier user
\* has left in it: the pool implements Lending.
PoolsLend == Lender!Spec
===============================================================================
