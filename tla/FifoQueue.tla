------------------------------ MODULE FifoQueue ------------------------------
(***************************************************************************)
(* A linearizable first-in first-out queue: what lock_free_queue_t         *)
(* promises its callers.  Each value is enqueued once, at one moment; each *)
(* try_dequeue() takes the oldest value at one moment of the call, or      *)
(* reports that the queue was empty at one moment of the call.             *)
(***************************************************************************)
EXTENDS Sequences

CONSTANTS Value, Consumer, Idle, Open, Empty

VARIABLES
  todo,    \* values whose enqueue() has not taken effect yet
  items,   \* the queue, oldest value first
  answer   \* of each consumer's call

vars == <<todo, items, answer>>

Init ==
  /\ todo = Value
  /\ items = <<>>
  /\ answer = [c \in Consumer |-> Idle]

Enqueue(v) ==
  /\ v \in todo
  /\ todo' = todo \ {v}
  /\ items' = Append(items, v)
  /\ UNCHANGED answer

Call(c) ==
  /\ answer[c] = Idle
  /\ answer' = [answer EXCEPT ![c] = Open]
  /\ UNCHANGED <<todo, items>>

Take(c) ==
  /\ answer[c] = Open
  /\ items # <<>>
  /\ answer' = [answer EXCEPT ![c] = Head(items)]
  /\ items' = Tail(items)
  /\ UNCHANGED todo

\* The call sees an empty queue; it may still look again before it answers.
SeeEmpty(c) ==
  /\ answer[c] = Open
  /\ items = <<>>
  /\ answer' = [answer EXCEPT ![c] = Empty]
  /\ UNCHANGED <<todo, items>>

LookAgain(c) ==
  /\ answer[c] = Empty
  /\ answer' = [answer EXCEPT ![c] = Open]
  /\ UNCHANGED <<todo, items>>

Return(c) ==
  /\ answer[c] \notin {Idle, Open}
  /\ answer' = [answer EXCEPT ![c] = Idle]
  /\ UNCHANGED <<todo, items>>

\* The destructor drops what is left; nobody is inside a call.
Destroy ==
  /\ \A c \in Consumer : answer[c] = Idle
  /\ items' = <<>>
  /\ UNCHANGED <<todo, answer>>

Next ==
  \/ \E v \in Value : Enqueue(v)
  \/ \E c \in Consumer : Call(c) \/ Take(c) \/ SeeEmpty(c) \/ LookAgain(c) \/ Return(c)
  \/ Destroy

Spec == Init /\ [][Next]_vars
===============================================================================
