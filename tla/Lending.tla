-------------------------------- MODULE Lending --------------------------------
(***************************************************************************)
(* What a pool promises to those who borrow from it: an item has at most   *)
(* one user, it comes to that user clean, and only its user gives it back. *)
(* An item that nobody uses is on the pool's shelf or has no memory at     *)
(* all; the pool moves such items as it likes.                             *)
(***************************************************************************)
CONSTANTS
  Item,   \* the addresses that items can have
  User

VARIABLES
  holder,   \* holder[i]: a user, Shelf or System
  clean     \* items that hold nothing of an earlier user

lending_vars == <<holder, clean>>

Shelf == "shelf"
System == "system"
Idle == {Shelf, System}

Init == holder \in [Item -> Idle] /\ clean = Item

\* Items that nobody uses stay unused, except i.
OthersStay(i) ==
  \A j \in Item \ {i} : IF holder[j] \in Idle THEN holder'[j] \in Idle ELSE holder'[j] = holder[j]

Lend(u, i) ==
  /\ holder[i] \in Idle
  /\ holder' \in [Item -> User \cup Idle] /\ holder'[i] = u
  /\ OthersStay(i)
  /\ i \in clean' /\ clean \subseteq clean'

Use(u, i) ==
  /\ holder[i] = u
  /\ clean' = clean \ {i}
  /\ UNCHANGED holder

GiveBack(u, i) ==
  /\ holder[i] = u
  /\ holder' \in [Item -> User \cup Idle] /\ holder'[i] \in Idle
  /\ OthersStay(i)
  /\ i \in clean' /\ clean' \subseteq clean \cup {i}

Rearrange ==
  /\ holder' \in [Item -> User \cup Idle]
  /\ \A i \in Item : IF holder[i] \in Idle THEN holder'[i] \in Idle ELSE holder'[i] = holder[i]
  /\ UNCHANGED clean

Next ==
  \/ \E u \in User, i \in Item : Lend(u, i) \/ Use(u, i) \/ GiveBack(u, i)
  \/ Rearrange

Spec == Init /\ [][Next]_lending_vars
===============================================================================
