------------------------------- MODULE Memoize --------------------------------
(***************************************************************************)
(* toolbox::functional::memoize() and memoize_explicit(): a function whose *)
(* results are kept, called by several threads.  The lock is held while    *)
(* the cache is looked into and while a result is stored, and not while    *)
(* the original function runs: it may call the memoized one, as recursive  *)
(* functions do, and several threads may compute the same result.  Nobody  *)
(* can tell the compiler that the function is pure: any run of it may      *)
(* return any value, or throw.                                             *)
(***************************************************************************)
EXTENDS Integers, Sequences, SequencesExt, FiniteSets

CONSTANTS
  Thread, Key,
  Needs,      \* of each key: the keys that the original function asks for, in order
  Value,      \* what the original function may return
  MaxCalls    \* bound: calls of each thread

\* The function recurs on smaller keys only.
MemoizeAssumption ==
  /\ Key \subseteq Nat /\ Needs \in [Key -> Seq(Key)]
  /\ \A k \in Key : \A i \in DOMAIN Needs[k] : Needs[k][i] < k

VARIABLES
  cache,      \* the keys with a result, and the result
  stack,      \* of each thread: its calls of the memoized function, the innermost last
  calls,      \* of each thread: its calls from outside
  answers,    \* of each key: the values that calls have returned
  returned    \* of each key: the values that the original function has returned

vars == <<cache, stack, calls, answers, returned>>

\* Operators called Mutant_... are faulty variants of the definition that follows
\* them; no specification uses them.

\* One call: where it is, and how many of the needed keys it has asked for.
Frame(k) == [key |-> k, at |-> "find", asked |-> 0]

\* The cache is a set of pairs: a key that is found has one.
Found(k) == {r \in Value : <<k, r>> \in cache}

Init ==
  /\ cache = {}
  /\ stack = [t \in Thread |-> <<>>]
  /\ calls = [t \in Thread |-> 0]
  /\ answers = [k \in Key |-> {}] /\ returned = [k \in Key |-> {}]

Top(t) == Last(stack[t])
At(t, where) == stack[t] # <<>> /\ Top(t).at = where
Push(t, k) == stack' = [stack EXCEPT ![t] = Append(@, Frame(k))]
SetTop(t, frame) == stack' = [stack EXCEPT ![t] = Append(Front(@), frame)]
Pop(t) == stack' = [stack EXCEPT ![t] = Front(@)]

\* The caller gets r.
Return(t, r) ==
  /\ Pop(t)
  /\ answers' = [answers EXCEPT ![Top(t).key] = @ \cup {r}]

Call(t) ==
  /\ stack[t] = <<>> /\ calls[t] < MaxCalls
  /\ \E k \in Key : Push(t, k)
  /\ calls' = [calls EXCEPT ![t] = @ + 1]
  /\ UNCHANGED <<cache, answers, returned>>

\* The first look, under the lock.
FindHit(t) ==
  /\ At(t, "find")
  /\ \E r \in Found(Top(t).key) : Return(t, r)
  /\ UNCHANGED <<cache, calls, returned>>

FindMiss(t) ==
  /\ At(t, "find") /\ Found(Top(t).key) = {}
  /\ SetTop(t, [Top(t) EXCEPT !.at = "compute"])
  /\ UNCHANGED <<cache, calls, answers, returned>>

\* The original function, without the lock: it asks for what it needs, ...
Recur(t) ==
  /\ At(t, "compute")
  /\ LET f == Top(t)
     IN  /\ f.asked < Len(Needs[f.key])
         /\ stack' = [stack EXCEPT ![t] = Append(Append(Front(@), [f EXCEPT !.asked = @ + 1]),
                                                 Frame(Needs[f.key][f.asked + 1]))]
  /\ UNCHANGED <<cache, calls, answers, returned>>

\* ... returns, ...
Compute(t) ==
  /\ At(t, "compute") /\ Top(t).asked = Len(Needs[Top(t).key])
  /\ \E r \in Value :
       /\ SetTop(t, [key |-> Top(t).key, at |-> "store", result |-> r])
       /\ returned' = [returned EXCEPT ![Top(t).key] = @ \cup {r}]
  /\ UNCHANGED <<cache, calls, answers>>

\* ... or throws; its caller, the original function again, may catch that and go on.
Throw(t) ==
  /\ At(t, "compute")
  /\ Pop(t)
  /\ UNCHANGED <<cache, calls, answers, returned>>

\* The second look, under the lock again: the first result is kept.
Mutant_StoreSecond(t) ==
  /\ At(t, "store") /\ Found(Top(t).key) # {}
  /\ Return(t, Top(t).result)
  /\ UNCHANGED <<cache, calls, returned>>

StoreFirst(t) ==
  /\ At(t, "store") /\ Found(Top(t).key) = {}
  /\ cache' = cache \cup {<<Top(t).key, Top(t).result>>}
  /\ Return(t, Top(t).result)
  /\ UNCHANGED <<calls, returned>>

StoreSecond(t) ==
  /\ At(t, "store")
  /\ \E r \in Found(Top(t).key) : Return(t, r)
  /\ UNCHANGED <<cache, calls, returned>>

Step(t) ==
  \/ Call(t) \/ FindHit(t) \/ FindMiss(t) \/ Recur(t) \/ Compute(t) \/ Throw(t)
  \/ StoreFirst(t) \/ StoreSecond(t)

Next == \E t \in Thread : Step(t)

Spec == Init /\ [][Next]_vars

-------------------------------------------------------------------------------
(* Properties *)

TypeOK ==
  /\ cache \subseteq Key \X Value
  /\ \A t \in Thread : \A i \in DOMAIN stack[t] :
       stack[t][i].key \in Key /\ stack[t][i].at \in {"find", "compute", "store"}

\* Whoever has asked for a key has got the same answer, whatever the original function
\* returned to the threads that computed it at the same time; what is kept was returned
\* by the original function, and a run that threw has left nothing.
OneAnswerPerKey ==
  \A k \in Key :
    /\ Cardinality(answers[k]) <= 1
    /\ Found(k) = answers[k]
    /\ Found(k) \subseteq returned[k]
===============================================================================
