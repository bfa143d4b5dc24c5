--------------------------- MODULE MCLockFreeQueue ---------------------------
(* Instances of LockFreeQueue for TLC.                                     *)
EXTENDS LockFreeQueue, TLC

CONSTANTS p1, p2, c1, c2, u, v, w

\* One producer enqueues everything.
OneSource == [x \in Value |-> p1]

\* The second producer enqueues w, the first the rest.
TwoSources == [x \in Value |-> IF x = w THEN p2 ELSE p1]

\* One value each.
TwoSources2 == [x \in Value |-> IF x = u THEN p1 ELSE p2]

\* Addresses are interchangeable, and so are consumers.
Interchangeable == Permutations(Node) \cup Permutations(Consumer)
===============================================================================
