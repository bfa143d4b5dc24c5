------------------------------- MODULE BlockPool -------------------------------
(***************************************************************************)
(* toolbox::base::memory_pool_t: a queue of free blocks under one mutex.   *)
(* Every operation holds the mutex from its beginning to its end, and is   *)
(* one step.  operator new may fail at any block.                          *)
(***************************************************************************)
EXTENDS Integers, Sequences, FiniteSets, Functions

CONSTANTS
  Item,       \* the addresses of blocks
  User,       \* threads that use the pool
  Initial,    \* blocks made by the constructor
  Growth,     \* growth_, a 0 has become a 1
  MaxCached   \* max_cached_blocks_

VARIABLES
  pool,   \* pool_, the free blocks, the front first
  heap,   \* the blocks that operator new has given and delete has not taken back
  held,   \* held[u]: the blocks u has got from allocate()
  alive   \* the pool has not been destroyed

block_vars == <<pool, heap, held, alive>>

\* Operators called Mutant_... are faulty variants of the definition that follows
\* them; no specification uses them.

\* Ways to get n blocks that are not in use from operator new.
NewBlocks(n) == {s \in [1 .. n -> Item \ heap] : \A i, j \in 1 .. n : s[i] = s[j] => i = j}

Init ==
  /\ pool \in {s \in [1 .. Initial -> Item] : \A i, j \in 1 .. Initial : s[i] = s[j] => i = j}
  /\ heap = Range(pool)
  /\ held = [u \in User |-> {}]
  /\ alive = TRUE

Hold(u, i) == held' = [held EXCEPT ![u] = @ \cup {i}]

PopFront(s) == Tail(s)

Allocate(u) ==
  /\ alive
  /\ pool # <<>>
  /\ Hold(u, Head(pool))
  /\ pool' = PopFront(pool)
  /\ UNCHANGED <<heap, alive>>

\* expand_blocks(), then the front of what it has made.
AllocateGrowing(u) ==
  /\ alive
  /\ pool = <<>>
  /\ \E blocks \in NewBlocks(Growth) :
       /\ heap' = heap \cup Range(blocks)
       /\ Hold(u, Head(blocks))
       /\ pool' = PopFront(blocks)
  /\ UNCHANGED alive

\* operator new throws: allocate() does too, the blocks made before stay in the pool.
GrowthFails ==
  /\ alive
  /\ pool = <<>>
  /\ \E n \in 0 .. Growth - 1 : \E blocks \in NewBlocks(n) :
       pool' = blocks /\ heap' = heap \cup Range(blocks)
  /\ UNCHANGED <<held, alive>>

Full(s) == Len(s) >= MaxCached

\* A null pointer is ignored.
Deallocate(u) ==
  /\ alive
  /\ \E i \in held[u] :
       /\ held' = [held EXCEPT ![u] = @ \ {i}]
       /\ IF Full(pool)
          THEN heap' = heap \ {i} /\ UNCHANGED pool
          ELSE pool' = Append(pool, i) /\ UNCHANGED heap
  /\ UNCHANGED alive

Mutant_Forgotten(s) == {}
Released(s) == Range(s)

Emptied == pool' = <<>> /\ heap' = heap \ Released(pool)

ReleaseUnused ==
  /\ alive
  /\ Emptied
  /\ UNCHANGED <<held, alive>>

\* Blocks that are not given back before are the user's for ever.
Destroy ==
  /\ alive
  /\ alive' = FALSE
  /\ Emptied
  /\ UNCHANGED held

Next ==
  \/ \E u \in User : Allocate(u) \/ AllocateGrowing(u) \/ Deallocate(u)
  \/ GrowthFails \/ ReleaseUnused \/ Destroy

Spec == Init /\ [][Next]_block_vars

-------------------------------------------------------------------------------
(* Properties                                                              *)

TypeOK ==
  /\ heap \subseteq Item /\ pool \in Seq(heap)
  /\ held \in [User -> SUBSET Item] /\ alive \in BOOLEAN

\* Who has block i; an item that is freed and used, or used by nobody and not
\* freed, is no holder that Lending knows.
HolderOf(i) ==
  LET users == {u \in User : i \in held[u]}
  IN  CASE i \in heap /\ i \notin Range(pool) /\ Cardinality(users) = 1 -> CHOOSE u \in users : TRUE
        [] i \in heap /\ i \in Range(pool) /\ users = {} -> "shelf"
        [] i \notin heap /\ i \notin Range(pool) /\ users = {} -> "system"
        [] OTHER -> "nobody"

\* The raw memory of a block is handed out as it is: Lending's clean does not apply.
Lender == INSTANCE Lending WITH holder <- [i \in Item |-> HolderOf(i)], clean <- Item

\* Two users never share a block, a block is not freed while it is used or free, and
\* none is lost: the pool implements Lending.
PoolsLend == Lender!Spec

\* "Maximum number of freed blocks to keep cached": the pool goes beyond it only to
\* what the constructor made, or to what one expansion leaves.
FreeBounded ==
  /\ TypeOK
  /\ \/ Len(pool) <= MaxCached
     \/ Len(pool) <= Initial
     \/ Len(pool) < Growth
===============================================================================
