------------------------------ MODULE KeeperProofs ------------------------------
(***************************************************************************)
(* Theorems about the components that keep something for their callers,    *)
(* for any users, items, keys, frames, extractors and settings: the two    *)
(* pools implement Lending, and what the others answer from what they have *)
(* kept is right.                                                          *)
(***************************************************************************)
EXTENDS Keepers, FiniteSetTheorems, SequenceFacts

-------------------------------------------------------------------------------
(* Lending                                                                 *)

\* Nobody is called as the places where unused items are.
UsersAreNoPlaces == User \cap {"shelf", "system"} = {}

Idle == {"shelf", "system"}

\* The holders f of items are what the sets d of items that users have say.
Holds(f, d) ==
  /\ f \in [Item -> User \cup Idle]
  /\ \A i \in Item : (\A u \in User : i \notin d[u]) => f[i] \in Idle
  /\ \A u \in User : \A i \in Item : i \in d[u] => f[i] = u

\* From holders f to holders g nothing happens to items that are used, but for i.
OthersStay(f, g, i) ==
  \A j \in Item \ {i} : IF f[j] \in Idle THEN g[j] \in Idle ELSE g[j] = f[j]

LEMMA LentOut ==
  ASSUME UsersAreNoPlaces, NEW f, NEW g, NEW d \in [User -> SUBSET Item], NEW u \in User, NEW i \in Item,
         \A v \in User : i \notin d[v], Holds(f, d), Holds(g, [d EXCEPT ![u] = @ \cup {i}])
  PROVE  f[i] \in Idle /\ g[i] = u /\ OthersStay(f, g, i)
<1> DEFINE e == [d EXCEPT ![u] = @ \cup {i}]
<1>1. e[u] = d[u] \cup {i} /\ \A v \in User : v # u => e[v] = d[v]
  OBVIOUS
<1>2. Holds(g, e)
  OBVIOUS
<1> HIDE DEF e
<1>3. \A j \in Item \ {i} : \A v \in User : j \in e[v] <=> j \in d[v]
  BY <1>1
<1> QED BY <1>1, <1>2, <1>3 DEF Holds, OthersStay, UsersAreNoPlaces, Idle

LEMMA GivenBack ==
  ASSUME UsersAreNoPlaces, NEW f, NEW g, NEW d \in [User -> SUBSET Item], NEW u \in User, NEW i \in d[u],
         Holds(f, d), Holds(g, [d EXCEPT ![u] = @ \ {i}])
  PROVE  f[i] = u /\ g[i] \in Idle /\ OthersStay(f, g, i)
<1> DEFINE e == [d EXCEPT ![u] = @ \ {i}]
<1>1. e[u] = d[u] \ {i} /\ \A v \in User : v # u => e[v] = d[v]
  OBVIOUS
<1>2. Holds(g, e) /\ i \in Item
  OBVIOUS
<1> HIDE DEF e
<1>3. \A j \in Item \ {i} : \A v \in User : j \in e[v] <=> j \in d[v]
  BY <1>1
<1>4. f[i] = u
  BY <1>2 DEF Holds
<1>5. \A v \in User : i \notin e[v]
  BY <1>1, <1>2, <1>4 DEF Holds
<1> QED BY <1>1, <1>2, <1>3, <1>4, <1>5 DEF Holds, OthersStay, UsersAreNoPlaces, Idle

LEMMA Unlent ==
  ASSUME UsersAreNoPlaces, NEW f, NEW g, NEW d \in [User -> SUBSET Item], Holds(f, d), Holds(g, d)
  PROVE  \A j \in Item : IF f[j] \in Idle THEN g[j] \in Idle ELSE g[j] = f[j]
BY DEF Holds, UsersAreNoPlaces, Idle

-------------------------------------------------------------------------------
(* The memory pool                                                         *)

LEMMA BlocksCardinality == \A S : Blocks!Cardinality(S) = Cardinality(S)
BY Zenon DEF Blocks!Cardinality, Cardinality

\* Every block of the heap is free or somebody's, and only one of these.
Owned(p, h, d) ==
  /\ h \subseteq Item /\ p \in Seq(h) /\ d \in [User -> SUBSET Item]
  /\ Distinct(p)
  /\ \A u \in User : d[u] \subseteq h \ Entries(p)
  /\ \A u, v \in User : \A i \in d[u] \cap d[v] : u = v
  /\ \A i \in h \ Entries(p) : \E u \in User : i \in d[u]

\* The free list goes beyond its limit only to what was made at once.
Bounded(p) == Len(p) <= MaxCached \/ Len(p) <= Initial \/ Len(p) < Growth

BlockInv == Owned(pool, heap, held) /\ alive \in BOOLEAN /\ Bounded(pool)

SizesAreNumbers == Initial \in Nat /\ Growth \in Nat \ {0} /\ MaxCached \in Nat

LEMMA OneUser ==
  ASSUME NEW d, NEW i, NEW u \in User, i \in d[u], \A v \in User : i \in d[v] => v = u
  PROVE  /\ Cardinality({v \in User : i \in d[v]}) = 1
         /\ (CHOOSE v \in {w \in User : i \in d[w]} : TRUE) = u
<1>1. {v \in User : i \in d[v]} = {u}
  OBVIOUS
<1> QED BY <1>1, FS_Singleton

LEMMA BlocksHeld ==
  ASSUME Owned(pool, heap, held)
  PROVE  Holds([i \in Item |-> Blocks!HolderOf(i)], held)
<1> DEFINE users(i) == {u \in User : i \in held[u]}
<1>0. Blocks!Range(pool) = Entries(pool) /\ Entries(pool) \subseteq heap
  BY DEF Owned, Blocks!Range, Entries
<1>1. ASSUME NEW i \in Item, NEW u \in User, i \in held[u]
      PROVE  Blocks!HolderOf(i) = u
  <2>1. i \in heap /\ i \notin Entries(pool) /\ \A v \in User : i \in held[v] => v = u
    BY <1>1 DEF Owned
  <2>2. Cardinality(users(i)) = 1 /\ (CHOOSE v \in users(i) : TRUE) = u
    BY <1>1, <2>1, OneUser
  <2>3. users(i) # {}
    BY <1>1
  <2> QED BY <1>0, <2>1, <2>2, <2>3, BlocksCardinality DEF Blocks!HolderOf
<1>2. ASSUME NEW i \in Item, \A u \in User : i \notin held[u]
      PROVE  Blocks!HolderOf(i) \in Idle
  <2>1. users(i) = {} /\ (i \in heap => i \in Entries(pool))
    BY <1>2 DEF Owned
  <2>2. Cardinality(users(i)) = 0
    BY <2>1, FS_EmptySet
  <2> QED BY <1>0, <2>1, <2>2, BlocksCardinality DEF Blocks!HolderOf, Idle
<1> QED BY <1>1, <1>2 DEF Holds

LEMMA BlocksHeldAfter ==
  Owned(pool, heap, held)' => Holds([i \in Item |-> Blocks!HolderOf(i)], held)'
<1>1. Owned(pool, heap, held) => Holds([i \in Item |-> Blocks!HolderOf(i)], held)
  BY BlocksHeld
<1> QED BY <1>1, PTL

\* The end and the beginning of a list of free blocks.
LEMMA TailFacts ==
  ASSUME NEW S, NEW s \in Seq(S), s # <<>>
  PROVE  /\ Tail(s) \in Seq(S) /\ Len(Tail(s)) = Len(s) - 1 /\ Head(s) \in Entries(s)
         /\ Distinct(s) => /\ Distinct(Tail(s))
                           /\ Entries(Tail(s)) = Entries(s) \ {Head(s)}
<1> DEFINE t == Tail(s)
<1>1. /\ Len(s) \in Nat \ {0} /\ t \in Seq(S) /\ Len(t) = Len(s) - 1 /\ Head(s) = s[1]
      /\ \A i \in 1 .. Len(s) - 1 : t[i] = s[i + 1]
      /\ DOMAIN s = 1 .. Len(s) /\ DOMAIN t = 1 .. Len(s) - 1
  OBVIOUS
<1> HIDE DEF t
<1>2. Head(s) \in Entries(s)
  <2>1. 1 \in 1 .. Len(s)
    BY <1>1
  <2> QED BY <1>1, <2>1 DEF Entries
<1>3. \A i \in 1 .. Len(s) - 1 : i + 1 \in 1 .. Len(s) /\ i + 1 # 1
  BY <1>1
<1>4. ASSUME Distinct(s) PROVE Distinct(t)
  <2> SUFFICES ASSUME NEW i \in 1 .. Len(s) - 1, NEW j \in 1 .. Len(s) - 1, t[i] = t[j]
               PROVE  i = j
    BY <1>1 DEF Distinct
  <2>1. s[i + 1] = s[j + 1]
    BY <1>1
  <2>2. i + 1 = j + 1
    BY <1>1, <1>3, <1>4, <2>1 DEF Distinct
  <2> QED BY <2>2
<1>5. ASSUME Distinct(s) PROVE Entries(t) = Entries(s) \ {Head(s)}
  <2>1. ASSUME NEW x \in Entries(t) PROVE x \in Entries(s) \ {Head(s)}
    <3>1. PICK i \in 1 .. Len(s) - 1 : x = t[i]
      BY <1>1 DEF Entries
    <3>2. i + 1 \in 1 .. Len(s) /\ i + 1 # 1 /\ x = s[i + 1] /\ 1 \in 1 .. Len(s)
      BY <1>1, <1>3, <3>1
    <3>3. s[i + 1] # s[1]
      BY <1>1, <1>5, <3>2 DEF Distinct
    <3> QED BY <1>1, <3>2, <3>3 DEF Entries
  <2>2. ASSUME NEW x \in Entries(s), x # Head(s) PROVE x \in Entries(t)
    <3>1. PICK i \in 1 .. Len(s) : x = s[i]
      BY <1>1 DEF Entries
    <3>2. i # 1
      BY <1>1, <2>2, <3>1
    <3>3. i - 1 \in 1 .. Len(s) - 1 /\ (i - 1) + 1 = i
      BY <1>1, <3>2
    <3>4. t[i - 1] = x
      BY <1>1, <3>1, <3>3
    <3> QED BY <1>1, <3>3, <3>4 DEF Entries
  <2> QED BY <2>1, <2>2
<1> QED BY <1>1, <1>2, <1>4, <1>5 DEF t

\* Blocks from operator new are a list of different ones that were not in use.
LEMMA NewBlocksFacts ==
  ASSUME NEW n \in Nat, NEW s \in Blocks!NewBlocks(n)
  PROVE  s \in Seq(Item \ heap) /\ Len(s) = n /\ Distinct(s) /\ Blocks!Range(s) = Entries(s)
         /\ Entries(s) \cap heap = {} /\ Entries(s) \subseteq Item
<1>1. s \in [1 .. n -> Item \ heap] /\ \A i, j \in 1 .. n : s[i] = s[j] => i = j
  BY DEF Blocks!NewBlocks
<1>2. s \in Seq(Item \ heap) /\ Len(s) = n /\ DOMAIN s = 1 .. n
  BY <1>1
<1>3. \A i \in 1 .. n : s[i] \in Item \ heap
  BY <1>1
<1> QED BY <1>1, <1>2, <1>3 DEF Distinct, Entries, Blocks!Range

LEMMA BlocksStart ==
  ASSUME SizesAreNumbers, Blocks!Init
  PROVE  BlockInv
<1>1. /\ pool \in [1 .. Initial -> Item] /\ \A i, j \in 1 .. Initial : pool[i] = pool[j] => i = j
      /\ heap = Blocks!Range(pool) /\ held = [u \in User |-> {}] /\ alive = TRUE
  BY DEF Blocks!Init
<1>2. Len(pool) = Initial /\ DOMAIN pool = 1 .. Initial /\ pool \in Seq(Item)
  BY <1>1 DEF SizesAreNumbers
<1>3. heap = Entries(pool)
  BY <1>1 DEF Blocks!Range, Entries
<1>4. heap \subseteq Item /\ \A i \in 1 .. Initial : pool[i] \in heap
  BY <1>1, <1>2, <1>3 DEF Entries
<1>5. pool \in Seq(heap)
  BY <1>1, <1>2, <1>4 DEF SizesAreNumbers
<1>6. Distinct(pool)
  BY <1>1, <1>2 DEF Distinct
<1>7. Owned(pool, heap, held)
  BY <1>1, <1>3, <1>4, <1>5, <1>6 DEF Owned
<1> QED BY <1>1, <1>2, <1>7 DEF BlockInv, Bounded, SizesAreNumbers

\* A block goes from the list p to user u, goes back to it, or leaves the heap.
LEMMA OwnedLent ==
  ASSUME NEW p, NEW h, NEW d, Owned(p, h, d), p # <<>>, NEW u \in User
  PROVE  Owned(Tail(p), h, [d EXCEPT ![u] = @ \cup {Head(p)}])
<1> DEFINE e == [d EXCEPT ![u] = @ \cup {Head(p)}]
           t == Tail(p)
<1>0. h \subseteq Item /\ p \in Seq(h) /\ Distinct(p) /\ d \in [User -> SUBSET Item]
  BY DEF Owned
<1>1. t \in Seq(h) /\ Distinct(t) /\ Entries(t) = Entries(p) \ {Head(p)} /\ Head(p) \in Entries(p)
  BY <1>0, TailFacts
<1>2. Head(p) \in h
  BY <1>0, <1>1 DEF Entries
<1>3. /\ e \in [User -> SUBSET Item] /\ e[u] = d[u] \cup {Head(p)}
      /\ \A v \in User : v # u => e[v] = d[v]
  BY <1>0, <1>2
<1> HIDE DEF e, t
<1>4. \A v \in User : Head(p) \notin d[v]
  BY <1>1 DEF Owned
<1>5. \A v \in User : e[v] \subseteq h \ Entries(t)
  BY <1>1, <1>2, <1>3 DEF Owned
<1>6. \A v, w \in User : \A i \in e[v] \cap e[w] : v = w
  BY <1>3, <1>4 DEF Owned
<1>7. \A i \in h \ Entries(t) : \E v \in User : i \in e[v]
  BY <1>1, <1>3 DEF Owned
<1> QED BY <1>0, <1>1, <1>3, <1>5, <1>6, <1>7 DEF Owned, e, t

LEMMA OwnedBack ==
  ASSUME NEW p, NEW h, NEW d, Owned(p, h, d), NEW u \in User, NEW i \in d[u]
  PROVE  /\ Owned(Append(p, i), h, [d EXCEPT ![u] = @ \ {i}])
         /\ Owned(p, h \ {i}, [d EXCEPT ![u] = @ \ {i}])
<1> DEFINE e == [d EXCEPT ![u] = @ \ {i}]
           t == Append(p, i)
<1>0. /\ h \subseteq Item /\ p \in Seq(h) /\ Distinct(p) /\ d \in [User -> SUBSET Item]
      /\ i \in h /\ i \notin Entries(p)
  BY DEF Owned
<1>1. t \in Seq(h) /\ Distinct(t) /\ Entries(t) = Entries(p) \cup {i}
  BY <1>0, AppendEntries
<1>2. e \in [User -> SUBSET Item] /\ e[u] = d[u] \ {i} /\ \A v \in User : v # u => e[v] = d[v] /\ i \notin d[v]
  BY <1>0 DEF Owned
<1> HIDE DEF e, t
<1>3. /\ \A v \in User : e[v] \subseteq h \ Entries(t) /\ e[v] \subseteq (h \ {i}) \ Entries(p)
      /\ \A v, w \in User : \A j \in e[v] \cap e[w] : v = w
  BY <1>1, <1>2 DEF Owned
<1>4. /\ \A j \in h \ Entries(t) : \E v \in User : j \in e[v]
      /\ \A j \in (h \ {i}) \ Entries(p) : \E v \in User : j \in e[v]
  BY <1>1, <1>2 DEF Owned
<1>5. p \in Seq(h \ {i})
  <2>1. \A j \in 1 .. Len(p) : p[j] \in h \ {i}
    BY <1>0 DEF Entries
  <2> QED BY <1>0, <2>1
<1> QED BY <1>0, <1>1, <1>2, <1>3, <1>4, <1>5 DEF Owned, e, t

\* The list is filled with new blocks, or emptied.
LEMMA OwnedMore ==
  ASSUME NEW h, NEW d, Owned(<<>>, h, d), NEW s \in Seq(Item \ h), Distinct(s)
  PROVE  Owned(s, h \cup Entries(s), d)
<1>1. \A i \in 1 .. Len(s) : s[i] \in Entries(s)
  BY DEF Entries
<1>2. Entries(s) \subseteq Item \ h
  BY DEF Entries
<1>3. s \in Seq(h \cup Entries(s))
  BY <1>1
<1>4. Entries(<<>>) = {}
  BY DEF Entries
<1> QED BY <1>2, <1>3, <1>4 DEF Owned

LEMMA OwnedLess ==
  ASSUME NEW p, NEW h, NEW d, Owned(p, h, d)
  PROVE  Owned(<<>>, h \ Entries(p), d)
<1>1. Entries(<<>>) = {}
  BY DEF Entries
<1>2. Distinct(<<>>) /\ <<>> \in Seq(h \ Entries(p))
  BY DEF Distinct
<1> QED BY <1>1, <1>2 DEF Owned

\* What each step does to the blocks that users have, and that the invariant is kept.
LEMMA AllocateKeeps ==
  ASSUME SizesAreNumbers, BlockInv, NEW u \in User, Blocks!Allocate(u) \/ Blocks!AllocateGrowing(u)
  PROVE  /\ BlockInv'
         /\ \E i \in Item : (\A v \in User : i \notin held[v]) /\ held' = [held EXCEPT ![u] = @ \cup {i}]
<1>0. Owned(pool, heap, held) /\ held \in [User -> SUBSET Item] /\ pool \in Seq(heap) /\ heap \subseteq Item
  BY DEF BlockInv, Owned
<1>1. CASE Blocks!Allocate(u)
  <2>1. /\ pool # <<>> /\ held' = [held EXCEPT ![u] = @ \cup {Head(pool)}] /\ pool' = Tail(pool)
        /\ UNCHANGED <<heap, alive>>
    BY <1>1 DEF Blocks!Allocate, Blocks!Hold, Blocks!PopFront
  <2>2. Owned(pool', heap', held')
    BY <1>0, <2>1, OwnedLent
  <2>3. Len(pool) \in Nat /\ Len(pool') = Len(pool) - 1 /\ Head(pool) \in Entries(pool)
    BY <1>0, <2>1, TailFacts
  <2>4. Bounded(pool')
    BY <2>3 DEF BlockInv, Bounded, SizesAreNumbers
  <2>5. Head(pool) \in Item /\ \A v \in User : Head(pool) \notin held[v]
    BY <1>0, <2>3 DEF Owned, Entries
  <2> QED BY <2>1, <2>2, <2>4, <2>5 DEF BlockInv
<1>2. CASE Blocks!AllocateGrowing(u)
  <2>1. pool = <<>> /\ alive' = alive
    BY <1>2 DEF Blocks!AllocateGrowing
  <2>2. PICK blocks \in Blocks!NewBlocks(Growth) :
          /\ heap' = heap \cup Blocks!Range(blocks) /\ held' = [held EXCEPT ![u] = @ \cup {Head(blocks)}]
          /\ pool' = Tail(blocks)
    BY <1>2 DEF Blocks!AllocateGrowing, Blocks!Hold, Blocks!PopFront
  <2>3. /\ blocks \in Seq(Item \ heap) /\ Len(blocks) = Growth /\ Distinct(blocks)
        /\ Blocks!Range(blocks) = Entries(blocks) /\ Entries(blocks) \cap heap = {} /\ Entries(blocks) \subseteq Item
    BY NewBlocksFacts DEF SizesAreNumbers
  <2>4. Owned(blocks, heap', held)
    BY <1>0, <2>1, <2>2, <2>3, OwnedMore
  <2>5. blocks # <<>>
    BY <2>3 DEF SizesAreNumbers
  <2>6. Owned(pool', heap', held')
    BY <2>2, <2>4, <2>5, OwnedLent
  <2>7. Len(pool') = Growth - 1 /\ Head(blocks) \in Entries(blocks)
    BY <2>2, <2>3, <2>5, TailFacts
  <2>8. Bounded(pool')
    BY <2>7 DEF Bounded, SizesAreNumbers
  <2>9. Head(blocks) \in Item /\ \A v \in User : Head(blocks) \notin held[v]
    BY <1>0, <2>3, <2>7 DEF Owned
  <2> QED BY <2>1, <2>2, <2>6, <2>8, <2>9 DEF BlockInv
<1> QED BY <1>1, <1>2

LEMMA DeallocateKeeps ==
  ASSUME SizesAreNumbers, BlockInv, NEW u \in User, Blocks!Deallocate(u)
  PROVE  /\ BlockInv'
         /\ \E i \in held[u] : held' = [held EXCEPT ![u] = @ \ {i}]
<1>0. Owned(pool, heap, held) /\ pool \in Seq(heap) /\ Len(pool) \in Nat
  BY DEF BlockInv, Owned
<1>1. PICK i \in held[u] :
        /\ held' = [held EXCEPT ![u] = @ \ {i}]
        /\ IF Len(pool) >= MaxCached
           THEN heap' = heap \ {i} /\ UNCHANGED pool
           ELSE pool' = Append(pool, i) /\ UNCHANGED heap
  BY DEF Blocks!Deallocate, Blocks!Full
<1>2. Owned(pool', heap', held')
  <2>1. /\ Owned(Append(pool, i), heap, [held EXCEPT ![u] = @ \ {i}])
        /\ Owned(pool, heap \ {i}, [held EXCEPT ![u] = @ \ {i}])
    BY <1>0, OwnedBack
  <2> QED BY <1>1, <2>1
<1>3. Bounded(pool')
  <2>1. i \in heap
    BY <1>0 DEF Owned
  <2>2. Len(Append(pool, i)) = Len(pool) + 1
    BY <1>0, <2>1
  <2> QED BY <1>0, <1>1, <2>2 DEF BlockInv, Bounded, SizesAreNumbers
<1> QED BY <1>1, <1>2, <1>3 DEF BlockInv, Blocks!Deallocate

LEMMA RearrangingKeeps ==
  ASSUME SizesAreNumbers, BlockInv, Blocks!GrowthFails \/ Blocks!ReleaseUnused \/ Blocks!Destroy
  PROVE  BlockInv' /\ held' = held
<1>0. Owned(pool, heap, held)
  BY DEF BlockInv
<1>1. CASE Blocks!GrowthFails
  <2>1. PICK n \in 0 .. Growth - 1 : \E blocks \in Blocks!NewBlocks(n) :
          pool' = blocks /\ heap' = heap \cup Blocks!Range(blocks)
    BY <1>1 DEF Blocks!GrowthFails
  <2>2. PICK blocks \in Blocks!NewBlocks(n) : pool' = blocks /\ heap' = heap \cup Blocks!Range(blocks)
    BY <2>1
  <2>3. pool = <<>> /\ held' = held /\ alive' = alive /\ n \in Nat /\ n < Growth
    BY <1>1 DEF Blocks!GrowthFails, SizesAreNumbers
  <2>4. /\ blocks \in Seq(Item \ heap) /\ Len(blocks) = n /\ Distinct(blocks)
        /\ Blocks!Range(blocks) = Entries(blocks)
    BY <2>3, NewBlocksFacts
  <2>5. Owned(pool', heap', held')
    BY <1>0, <2>2, <2>3, <2>4, OwnedMore
  <2> QED BY <2>2, <2>3, <2>4, <2>5 DEF BlockInv, Bounded
<1>2. CASE Blocks!ReleaseUnused \/ Blocks!Destroy
  <2>1. /\ pool' = <<>> /\ heap' = heap \ Blocks!Range(pool) /\ held' = held /\ alive' \in {alive, FALSE}
    BY <1>2 DEF Blocks!ReleaseUnused, Blocks!Destroy, Blocks!Emptied, Blocks!Released
  <2>2. Blocks!Range(pool) = Entries(pool)
    BY DEF Blocks!Range, Entries
  <2>3. Owned(pool', heap', held')
    BY <1>0, <2>1, <2>2, OwnedLess
  <2>4. Len(pool') = 0 /\ alive \in BOOLEAN
    BY <2>1 DEF BlockInv
  <2>5. Bounded(pool')
    BY <2>4 DEF Bounded, SizesAreNumbers
  <2> QED BY <2>1, <2>3, <2>4, <2>5 DEF BlockInv
<1> QED BY <1>1, <1>2

LEMMA BlocksNextKeeps ==
  ASSUME SizesAreNumbers, BlockInv, Blocks!Next
  PROVE  /\ BlockInv'
         /\ \/ \E u \in User, i \in Item :
                 (\A v \in User : i \notin held[v]) /\ held' = [held EXCEPT ![u] = @ \cup {i}]
            \/ \E u \in User : \E i \in held[u] : held' = [held EXCEPT ![u] = @ \ {i}]
            \/ held' = held
BY AllocateKeeps, DeallocateKeeps, RearrangingKeeps DEF Blocks!Next

LEMMA BlocksKeep ==
  SizesAreNumbers /\ BlockInv /\ [Blocks!Next]_(Blocks!block_vars) => BlockInv'
<1> SUFFICES ASSUME SizesAreNumbers, BlockInv, [Blocks!Next]_(Blocks!block_vars) PROVE BlockInv'
  OBVIOUS
<1>1. CASE UNCHANGED Blocks!block_vars
  BY <1>1 DEF Blocks!block_vars, BlockInv, Owned, Bounded
<1>2. CASE Blocks!Next
  BY <1>2, BlocksNextKeeps
<1> QED BY <1>1, <1>2

\* Every step is lending, giving back or rearranging, or nothing that Lending sees.
LEMMA BlocksRefine ==
  ASSUME SizesAreNumbers, UsersAreNoPlaces, BlockInv, [Blocks!Next]_(Blocks!block_vars)
  PROVE  [Blocks!Lender!Next]_(Blocks!Lender!lending_vars)
<1> DEFINE f == [i \in Item |-> Blocks!HolderOf(i)]
<1>1. CASE UNCHANGED Blocks!block_vars
  <2>1. f' = f
    BY <1>1 DEF Blocks!block_vars, Blocks!HolderOf, Blocks!Range
  <2> QED BY <2>1 DEF Blocks!Lender!lending_vars
<1>2. CASE Blocks!Next
  <2>1. BlockInv' /\ held \in [User -> SUBSET Item] /\ Holds(f, held)
    BY <1>2, BlocksNextKeeps, BlocksHeld DEF BlockInv, Owned
  <2>2. Owned(pool, heap, held)'
    BY <2>1 DEF BlockInv
  <2>3. Holds(f, held)'
    BY <2>2, BlocksHeldAfter
  <2>4. PICK h, g : h = f /\ g = f'
    OBVIOUS
  <2>5. Holds(h, held) /\ Holds(g, held')
    BY <2>1, <2>3, <2>4 DEF Holds
  <2>6. g \in [Item -> User \cup Idle]
    BY <2>5 DEF Holds
  <2> HIDE DEF f
  <2>7. CASE \E u \in User, i \in Item :
               (\A v \in User : i \notin held[v]) /\ held' = [held EXCEPT ![u] = @ \cup {i}]
    <3>1. PICK u \in User, i \in Item :
            (\A v \in User : i \notin held[v]) /\ held' = [held EXCEPT ![u] = @ \cup {i}]
      BY <2>7
    <3>2. h[i] \in Idle /\ g[i] = u /\ OthersStay(h, g, i)
      BY <2>1, <2>5, <3>1, LentOut
    <3>3. Blocks!Lender!Lend(u, i)
      BY <2>4, <2>6, <3>2 DEF f, Blocks!Lender!Lend, Blocks!Lender!OthersStay, OthersStay, Idle,
         Blocks!Lender!Idle, Blocks!Lender!Shelf, Blocks!Lender!System
    <3> QED BY <3>3 DEF Blocks!Lender!Next
  <2>8. CASE \E u \in User : \E i \in held[u] : held' = [held EXCEPT ![u] = @ \ {i}]
    <3>1. PICK u \in User : \E i \in held[u] : held' = [held EXCEPT ![u] = @ \ {i}]
      BY <2>8
    <3>2. PICK i \in held[u] : held' = [held EXCEPT ![u] = @ \ {i}]
      BY <3>1
    <3>3. i \in Item /\ Holds(g, [held EXCEPT ![u] = @ \ {i}])
      BY <2>1, <2>5, <3>2
    <3>4. h[i] = u /\ g[i] \in Idle /\ OthersStay(h, g, i)
      BY <2>1, <2>5, <3>3, GivenBack
    <3>5. Blocks!Lender!GiveBack(u, i)
      BY <2>4, <2>6, <3>3, <3>4 DEF f, Blocks!Lender!GiveBack, Blocks!Lender!OthersStay, OthersStay, Idle,
         Blocks!Lender!Idle, Blocks!Lender!Shelf, Blocks!Lender!System
    <3> QED BY <3>3, <3>5 DEF Blocks!Lender!Next
  <2>9. CASE held' = held
    <3>1. \A j \in Item : IF h[j] \in Idle THEN g[j] \in Idle ELSE g[j] = h[j]
      BY <2>1, <2>5, <2>9, Unlent
    <3>2. Blocks!Lender!Rearrange
      BY <2>4, <2>6, <3>1 DEF f, Blocks!Lender!Rearrange, Idle,
         Blocks!Lender!Idle, Blocks!Lender!Shelf, Blocks!Lender!System
    <3> QED BY <3>2 DEF Blocks!Lender!Next
  <2> QED BY <1>2, <2>7, <2>8, <2>9, BlocksNextKeeps
<1> QED BY <1>1, <1>2

LEMMA BlocksStartLent ==
  ASSUME SizesAreNumbers, Blocks!Init
  PROVE  Blocks!Lender!Init
<1>1. Holds([i \in Item |-> Blocks!HolderOf(i)], held)
  BY BlocksStart, BlocksHeld DEF BlockInv
<1>2. \A i \in Item : \A u \in User : i \notin held[u]
  BY DEF Blocks!Init
<1> QED BY <1>1, <1>2 DEF Holds, Idle, Blocks!Lender!Init, Blocks!Lender!Idle, Blocks!Lender!Shelf,
        Blocks!Lender!System

-------------------------------------------------------------------------------
(* The object pool                                                         *)

\* What a call of the pool is about when it is about no object.
CallsAreNoItems == Item \cap {"nothing", "making"} = {}

ResetIsKnown == HasReset \in BOOLEAN /\ Initial \in Nat

\* The objects that users have, those on their way back included.
Taken(d, c) == [u \in User |-> d[u] \cup ({c[u]} \cap Item)]

Calls == [User -> Item \cup {"nothing", "making"}]

\* No user has an object that is on its way back.
Apart(d, c) == \A u \in User : c[u] \notin d[u]

\* What earlier users left is in objects that are used, if there is a reset function.
OnlyUsedAreDirty(d, w) == w \subseteq Item /\ (HasReset => \A i \in w : \E u \in User : i \in d[u])

Taking(p, h, d, c) ==
  d \in [User -> SUBSET Item] /\ c \in Calls /\ Owned(p, h, Taken(d, c)) /\ Apart(d, c)

ObjectInv == Taking(shelf, made, lent, call) /\ OnlyUsedAreDirty(lent, dirty) /\ open \in BOOLEAN

LEMMA ObjectsCardinality == \A S : Objects!Cardinality(S) = Cardinality(S)
BY Zenon DEF Objects!Cardinality, Cardinality

LEMMA ObjectsHeld ==
  ASSUME CallsAreNoItems, Taking(shelf, made, lent, call)
  PROVE  Holds([i \in Item |-> Objects!HolderOf(i)], lent)
<1> DEFINE users(i) == {u \in User : i \in lent[u]}
           e == Taken(lent, call)
<1>0. Objects!Range(shelf) = Entries(shelf)
  BY DEF Objects!Range, Entries
<1>1. /\ \A u \in User : e[u] = lent[u] \cup ({call[u]} \cap Item)
      /\ \A u \in User : e[u] \subseteq made \ Entries(shelf)
      /\ \A u, v \in User : \A i \in e[u] \cap e[v] : u = v
      /\ \A i \in made \ Entries(shelf) : \E u \in User : i \in e[u]
      /\ Entries(shelf) \subseteq made
      /\ \A u \in User : call[u] \notin lent[u]
  BY DEF Taking, Taken, Owned, Apart, Entries
<1> HIDE DEF e
<1>2. ASSUME NEW i \in Item, NEW u \in User, i \in lent[u]
      PROVE  Objects!HolderOf(i) = u
  <2>1. /\ i \in made /\ i \notin Entries(shelf) /\ \A v \in User : i \in lent[v] => v = u
        /\ ~ \E v \in User : call[v] = i
    BY <1>1, <1>2
  <2>2. Cardinality(users(i)) = 1 /\ (CHOOSE v \in users(i) : TRUE) = u
    BY <1>2, <2>1, OneUser
  <2>3. users(i) # {}
    BY <1>2
  <2> QED BY <1>0, <2>1, <2>2, <2>3, ObjectsCardinality DEF Objects!HolderOf
<1>3. ASSUME NEW i \in Item, \A u \in User : i \notin lent[u]
      PROVE  Objects!HolderOf(i) \in Idle
  <2>1. users(i) = {}
    BY <1>3
  <2>2. i \in made <=> (i \in Entries(shelf) \/ \E u \in User : call[u] = i)
    BY <1>1, <1>3
  <2>3. Cardinality(users(i)) = 0
    BY <2>1, FS_EmptySet
  <2> QED BY <1>0, <2>1, <2>2, <2>3, ObjectsCardinality DEF Objects!HolderOf, Idle
<1> QED BY <1>2, <1>3 DEF Holds

LEMMA ObjectsHeldAfter ==
  CallsAreNoItems /\ Taking(shelf, made, lent, call)' => Holds([i \in Item |-> Objects!HolderOf(i)], lent)'
<1>1. CallsAreNoItems /\ Taking(shelf, made, lent, call) => Holds([i \in Item |-> Objects!HolderOf(i)], lent)
  BY ObjectsHeld
<1>2. CallsAreNoItems => CallsAreNoItems'
  BY DEF CallsAreNoItems
<1> QED BY <1>1, <1>2, PTL

\* From d and c to e and b, u gets the objects S and is about w; both make T.
Changes(d, c, e, b, u, S, w, T) ==
  /\ d \in [User -> SUBSET Item] /\ c \in Calls /\ Apart(d, c)
  /\ S \subseteq Item /\ w \in Item \cup {"nothing", "making"} /\ w \notin S
  /\ e = [d EXCEPT ![u] = S] /\ b = [c EXCEPT ![u] = w]
  /\ T = S \cup ({w} \cap Item)

Adds(d, e, u, i) == e = [d EXCEPT ![u] = @ \cup {i}]
Drops(d, e, u, i) == e = [d EXCEPT ![u] = @ \ {i}]

LEMMA TakenChanges ==
  ASSUME NEW d, NEW c, NEW e, NEW b, NEW u \in User, NEW S, NEW w, NEW T, Changes(d, c, e, b, u, S, w, T)
  PROVE  /\ e \in [User -> SUBSET Item] /\ b \in Calls /\ Apart(e, b)
         /\ T = Taken(d, c)[u] => Taken(e, b) = Taken(d, c)
         /\ \A i : T = Taken(d, c)[u] \cup {i} => Adds(Taken(d, c), Taken(e, b), u, i)
         /\ \A i : T = Taken(d, c)[u] \ {i} => Drops(Taken(d, c), Taken(e, b), u, i)
<1>1. e \in [User -> SUBSET Item] /\ e[u] = S /\ \A v \in User : v # u => e[v] = d[v]
  BY DEF Changes
<1>2. b \in Calls /\ b[u] = w /\ \A v \in User : v # u => b[v] = c[v]
  BY DEF Calls, Changes
<1> DEFINE earlier == Taken(d, c)
           after == Taken(e, b)
<1>3. /\ earlier = [v \in User |-> earlier[v]] /\ after = [v \in User |-> after[v]]
      /\ after[u] = T /\ \A v \in User : v # u => after[v] = earlier[v]
  BY <1>1, <1>2 DEF Taken, Changes
<1>4. Apart(e, b)
  BY <1>1, <1>2 DEF Apart, Changes
<1> HIDE DEF earlier, after
<1>5. T = earlier[u] => after = earlier
  BY <1>3
<1>6. ASSUME NEW i, T = earlier[u] \cup {i} PROVE Adds(earlier, after, u, i)
  BY <1>3, <1>6 DEF Adds
<1>7. ASSUME NEW i, T = earlier[u] \ {i} PROVE Drops(earlier, after, u, i)
  BY <1>3, <1>7 DEF Drops
<1> QED BY <1>1, <1>2, <1>4, <1>5, <1>6, <1>7 DEF earlier, after

LEMMA TakenAt ==
  ASSUME NEW d, NEW c, NEW u \in User
  PROVE  Taken(d, c)[u] = d[u] \cup ({c[u]} \cap Item)
BY DEF Taken

\* What a step does to the objects that users have, and to what is in them.
Lends == \E u \in User, i \in Item :
  /\ \A v \in User : i \notin lent[v]
  /\ lent' = [lent EXCEPT ![u] = @ \cup {i}]
  /\ dirty' = dirty

TakesBack == \E u \in User : \E i \in lent[u] :
  /\ lent' = [lent EXCEPT ![u] = @ \ {i}]
  /\ HasReset => dirty' = dirty \ {i}

Uses == \E u \in User : \E i \in lent[u] :
  dirty' = dirty \cup {i} /\ UNCHANGED <<shelf, made, lent, call>>

Keeps == lent' = lent /\ (HasReset => dirty' = dirty)

\* The object at the front, or one that make_unique() has made, goes to u.
LEMMA AcquireKeeps ==
  ASSUME CallsAreNoItems, ObjectInv, NEW u \in User, Objects!Acquire(u)
  PROVE  ObjectInv' /\ (Lends \/ Keeps)
<1>0. /\ lent \in [User -> SUBSET Item] /\ call \in Calls /\ Owned(shelf, made, Taken(lent, call))
      /\ Apart(lent, call) /\ open \in BOOLEAN /\ OnlyUsedAreDirty(lent, dirty)
      /\ shelf \in Seq(made) /\ made \subseteq Item
  BY DEF ObjectInv, Taking, Owned
<1>1. call[u] = "nothing" /\ UNCHANGED <<made, dirty, open>> /\ "nothing" \notin Item /\ "making" \notin Item
  BY DEF Objects!Acquire, Objects!Nothing, CallsAreNoItems
<1>2. CASE shelf = <<>>
  <2>1. call' = [call EXCEPT ![u] = "making"] /\ UNCHANGED <<shelf, lent>>
    BY <1>2 DEF Objects!Acquire, Objects!Enter, Objects!Making
  <2>2. lent' = [lent EXCEPT ![u] = lent[u]]
    BY <1>0, <2>1
  <2>3. Taken(lent, call)[u] = lent[u] \cup ({"making"} \cap Item) /\ "making" \notin lent[u]
    BY <1>0, <1>1, TakenAt
  <2>4. call' \in Calls /\ Apart(lent', call') /\ Taken(lent', call') = Taken(lent, call)
    <3>1. Changes(lent, call, lent', call', u, lent[u], "making", Taken(lent, call)[u])
      BY <1>0, <1>1, <2>1, <2>2, <2>3 DEF Changes
    <3> QED BY <3>1, TakenChanges
  <2>5. Taking(shelf', made', lent', call')
    BY <1>0, <1>1, <2>1, <2>4 DEF Taking
  <2> QED BY <1>0, <1>1, <2>1, <2>5 DEF ObjectInv, Keeps
<1>3. CASE shelf # <<>>
  <2>1. /\ lent' = [lent EXCEPT ![u] = lent[u] \cup {Head(shelf)}] /\ shelf' = Tail(shelf)
        /\ call' = call
    BY <1>3 DEF Objects!Acquire, Objects!Hold, Objects!PopFront
  <2>2. Head(shelf) \in Entries(shelf) /\ Head(shelf) \in made
    BY <1>0, <1>3, TailFacts DEF Entries
  <2>3. \A v \in User : Head(shelf) \notin Taken(lent, call)[v]
    BY <1>0, <2>2 DEF Owned
  <2>4. Head(shelf) \in Item /\ \A v \in User : Head(shelf) \notin lent[v]
    BY <1>0, <2>2, <2>3 DEF Taken
  <2>5. call' = [call EXCEPT ![u] = "nothing"]
    BY <1>0, <1>1, <2>1 DEF Calls
  <2>6. lent[u] \cup {Head(shelf)} \in SUBSET Item /\ "nothing" \notin lent[u] \cup {Head(shelf)}
    BY <1>0, <1>1, <2>4
  <2>7. lent[u] \cup {Head(shelf)} \cup ({"nothing"} \cap Item) = Taken(lent, call)[u] \cup {Head(shelf)}
    BY <1>1, TakenAt
  <2>8. /\ lent' \in [User -> SUBSET Item] /\ call' \in Calls /\ Apart(lent', call')
        /\ Adds(Taken(lent, call), Taken(lent', call'), u, Head(shelf))
    <3>1. Changes(lent, call, lent', call', u, lent[u] \cup {Head(shelf)}, "nothing",
                  Taken(lent, call)[u] \cup {Head(shelf)})
      BY <1>0, <1>1, <2>1, <2>5, <2>6, <2>7 DEF Changes
    <3> QED BY <3>1, TakenChanges
  <2>9. Owned(shelf', made', Taken(lent', call'))
    <3>1. Owned(Tail(shelf), made, [Taken(lent, call) EXCEPT ![u] = @ \cup {Head(shelf)}])
      BY <1>0, <1>3, OwnedLent
    <3> QED BY <1>1, <2>1, <2>8, <3>1 DEF Adds
  <2>10. OnlyUsedAreDirty(lent', dirty')
    BY <1>0, <1>1, <2>1 DEF OnlyUsedAreDirty
  <2> QED BY <1>0, <1>1, <2>1, <2>4, <2>8, <2>9, <2>10 DEF ObjectInv, Taking, Lends
<1> QED BY <1>2, <1>3

LEMMA OwnedMade ==
  ASSUME NEW p, NEW h, NEW d, Owned(p, h, d), NEW u \in User, NEW i \in Item \ h
  PROVE  Owned(p, h \cup {i}, [d EXCEPT ![u] = @ \cup {i}])
<1> DEFINE e == [d EXCEPT ![u] = @ \cup {i}]
<1>1. /\ h \subseteq Item /\ p \in Seq(h) /\ Distinct(p) /\ d \in [User -> SUBSET Item]
      /\ Entries(p) \subseteq h /\ \A v \in User : d[v] \subseteq h
  BY DEF Owned, Entries
<1>2. e \in [User -> SUBSET Item] /\ e[u] = d[u] \cup {i} /\ \A v \in User : v # u => e[v] = d[v]
  BY <1>1
<1> HIDE DEF e
<1>3. p \in Seq(h \cup {i})
  <2>1. \A j \in 1 .. Len(p) : p[j] \in h \cup {i}
    BY <1>1
  <2> QED BY <1>1, <2>1
<1>4. \A v \in User : e[v] \subseteq (h \cup {i}) \ Entries(p)
  BY <1>1, <1>2 DEF Owned
<1>5. \A v, w \in User : \A j \in e[v] \cap e[w] : v = w
  BY <1>1, <1>2 DEF Owned
<1>6. \A j \in (h \cup {i}) \ Entries(p) : \E v \in User : j \in e[v]
  BY <1>1, <1>2 DEF Owned
<1> QED BY <1>1, <1>2, <1>3, <1>4, <1>5, <1>6 DEF Owned, e

LEMMA MakeKeeps ==
  ASSUME CallsAreNoItems, ObjectInv, NEW u \in User, Objects!Make(u)
  PROVE  ObjectInv' /\ (Lends \/ Keeps)
<1>0. /\ lent \in [User -> SUBSET Item] /\ call \in Calls /\ Owned(shelf, made, Taken(lent, call))
      /\ Apart(lent, call) /\ open \in BOOLEAN /\ OnlyUsedAreDirty(lent, dirty)
      /\ shelf \in Seq(made) /\ made \subseteq Item
  BY DEF ObjectInv, Taking, Owned
<1>1. /\ call[u] = "making" /\ call' = [call EXCEPT ![u] = "nothing"] /\ UNCHANGED <<shelf, dirty, open>>
      /\ "nothing" \notin Item /\ "making" \notin Item
  BY DEF Objects!Make, Objects!Nothing, Objects!Making, Objects!Enter, CallsAreNoItems
<1>2. CASE UNCHANGED <<made, lent>>
  <2>1. lent' = [lent EXCEPT ![u] = lent[u]]
    BY <1>0, <1>2
  <2>2. Taken(lent, call)[u] = lent[u] \cup ({"nothing"} \cap Item) /\ "nothing" \notin lent[u]
    BY <1>0, <1>1, TakenAt
  <2>3. call' \in Calls /\ Apart(lent', call') /\ Taken(lent', call') = Taken(lent, call)
    <3>1. Changes(lent, call, lent', call', u, lent[u], "nothing", Taken(lent, call)[u])
      BY <1>0, <1>1, <2>1, <2>2 DEF Changes
    <3> QED BY <3>1, TakenChanges
  <2>4. Taking(shelf', made', lent', call')
    BY <1>0, <1>1, <1>2, <2>3 DEF Taking
  <2> QED BY <1>0, <1>1, <1>2, <2>4 DEF ObjectInv, Keeps
<1>3. CASE \E i \in Item \ made : made' = made \cup {i} /\ lent' = [lent EXCEPT ![u] = @ \cup {i}]
  <2>1. PICK i \in Item \ made : made' = made \cup {i} /\ lent' = [lent EXCEPT ![u] = lent[u] \cup {i}]
    BY <1>3
  <2>2. \A v \in User : i \notin Taken(lent, call)[v]
    BY <1>0, <2>1 DEF Owned
  <2>3. \A v \in User : i \notin lent[v]
    BY <1>0, <2>1, <2>2 DEF Taken
  <2>4. lent[u] \cup {i} \in SUBSET Item /\ "nothing" \notin lent[u] \cup {i}
    BY <1>0, <1>1, <2>1
  <2>5. lent[u] \cup {i} \cup ({"nothing"} \cap Item) = Taken(lent, call)[u] \cup {i}
    BY <1>1, TakenAt
  <2>6. /\ lent' \in [User -> SUBSET Item] /\ call' \in Calls /\ Apart(lent', call')
        /\ Adds(Taken(lent, call), Taken(lent', call'), u, i)
    <3>1. Changes(lent, call, lent', call', u, lent[u] \cup {i}, "nothing", Taken(lent, call)[u] \cup {i})
      BY <1>0, <1>1, <2>1, <2>4, <2>5 DEF Changes
    <3> QED BY <3>1, TakenChanges
  <2>7. Owned(shelf', made', Taken(lent', call'))
    <3>1. Owned(shelf, made \cup {i}, [Taken(lent, call) EXCEPT ![u] = @ \cup {i}])
      BY <1>0, <2>1, OwnedMade
    <3> QED BY <1>1, <2>1, <2>6, <3>1 DEF Adds
  <2>8. OnlyUsedAreDirty(lent', dirty')
    BY <1>0, <1>1, <2>1 DEF OnlyUsedAreDirty
  <2> QED BY <1>0, <1>1, <2>1, <2>3, <2>6, <2>7, <2>8 DEF ObjectInv, Taking, Lends
<1> QED BY <1>2, <1>3 DEF Objects!Make, Objects!Hold

\* A pointer goes: its object is reset and on its way to the shelf, or deleted.
LEMMA ReleaseKeeps ==
  ASSUME CallsAreNoItems, ResetIsKnown, ObjectInv, NEW u \in User, Objects!Release(u) \/ Objects!ResetFails(u)
  PROVE  ObjectInv' /\ TakesBack
<1>0. /\ lent \in [User -> SUBSET Item] /\ call \in Calls /\ Owned(shelf, made, Taken(lent, call))
      /\ Apart(lent, call) /\ open \in BOOLEAN /\ OnlyUsedAreDirty(lent, dirty)
      /\ shelf \in Seq(made) /\ made \subseteq Item
  BY DEF ObjectInv, Taking, Owned
<1>1. call[u] = "nothing" /\ UNCHANGED <<shelf, open>> /\ "nothing" \notin Item
  BY DEF Objects!Release, Objects!ResetFails, Objects!Nothing, CallsAreNoItems
<1>2. PICK i \in lent[u] :
        /\ lent' = [lent EXCEPT ![u] = lent[u] \ {i}]
        /\ HasReset => dirty' = dirty \ {i}
        /\ ~HasReset => dirty' \subseteq dirty
        /\ \/ call' = [call EXCEPT ![u] = i] /\ made' = made
           \/ made' = made \ {i} /\ call' = call
  <2>1. CASE Objects!Release(u)
    BY <2>1 DEF Objects!Release, Objects!Cleaned, Objects!Enter, ResetIsKnown
  <2>2. CASE Objects!ResetFails(u)
    BY <2>2 DEF Objects!ResetFails
  <2> QED BY <2>1, <2>2
<1>3. i \in Item /\ lent[u] \subseteq Item /\ Taken(lent, call)[u] = lent[u] \cup ({"nothing"} \cap Item)
  BY <1>0, <1>1, TakenAt
<1>4. Taking(shelf', made', lent', call')
  <2>1. CASE call' = [call EXCEPT ![u] = i] /\ made' = made
    <3>0. PICK S : S = lent[u] \ {i}
      OBVIOUS
    <3>1. Changes(lent, call, lent', call', u, S, i, Taken(lent, call)[u])
      BY <1>0, <1>1, <1>2, <1>3, <2>1, <3>0 DEF Changes
    <3>2. /\ lent' \in [User -> SUBSET Item] /\ call' \in Calls /\ Apart(lent', call')
          /\ Taken(lent', call') = Taken(lent, call)
      BY <3>1, TakenChanges
    <3> QED BY <1>0, <1>1, <2>1, <3>2 DEF Taking
  <2>2. CASE made' = made \ {i} /\ call' = call
    <3>1. call' = [call EXCEPT ![u] = "nothing"]
      BY <1>0, <1>1, <2>2 DEF Calls
    <3>2. Changes(lent, call, lent', call', u, lent[u] \ {i}, "nothing", Taken(lent, call)[u] \ {i})
      BY <1>0, <1>1, <1>2, <1>3, <3>1 DEF Changes
    <3>3. /\ lent' \in [User -> SUBSET Item] /\ call' \in Calls /\ Apart(lent', call')
          /\ Drops(Taken(lent, call), Taken(lent', call'), u, i)
      BY <3>2, TakenChanges
    <3>4. i \in Taken(lent, call)[u]
      BY <1>3
    <3>5. Owned(shelf, made \ {i}, [Taken(lent, call) EXCEPT ![u] = @ \ {i}])
      BY <1>0, <3>4, OwnedBack
    <3> QED BY <1>1, <2>2, <3>3, <3>5 DEF Taking, Drops
  <2> QED BY <1>2, <2>1, <2>2
<1>5. OnlyUsedAreDirty(lent', dirty')
  <2>1. \A v \in User : \A j \in lent[v] : j # i => j \in lent'[v]
    BY <1>0, <1>2
  <2> QED BY <1>0, <1>2, <2>1 DEF OnlyUsedAreDirty, ResetIsKnown
<1> QED BY <1>0, <1>1, <1>2, <1>4, <1>5 DEF ObjectInv, TakesBack

\* The object on its way arrives.
LEMMA PushKeeps ==
  ASSUME CallsAreNoItems, ObjectInv, NEW u \in User, Objects!Push(u)
  PROVE  ObjectInv' /\ Keeps
<1>0. /\ lent \in [User -> SUBSET Item] /\ call \in Calls /\ Owned(shelf, made, Taken(lent, call))
      /\ Apart(lent, call) /\ open \in BOOLEAN /\ OnlyUsedAreDirty(lent, dirty)
  BY DEF ObjectInv, Taking
<1>1. PICK i \in Item : i = call[u]
  BY DEF Objects!Push
<1>2. /\ shelf' = Append(shelf, i) /\ call' = [call EXCEPT ![u] = "nothing"]
      /\ UNCHANGED <<made, lent, dirty, open>> /\ "nothing" \notin Item
  BY <1>1 DEF Objects!Push, Objects!Enter, Objects!Nothing, CallsAreNoItems
<1>3. Taken(lent, call)[u] = lent[u] \cup {i} /\ i \notin lent[u] /\ lent[u] \subseteq Item
  BY <1>0, <1>1, TakenAt DEF Apart
<1>4. lent' = [lent EXCEPT ![u] = lent[u]]
  BY <1>0, <1>2
<1>5. Changes(lent, call, lent', call', u, lent[u], "nothing", Taken(lent, call)[u] \ {i})
  BY <1>0, <1>2, <1>3, <1>4 DEF Changes
<1>6. /\ lent' \in [User -> SUBSET Item] /\ call' \in Calls /\ Apart(lent', call')
      /\ Drops(Taken(lent, call), Taken(lent', call'), u, i)
  BY <1>5, TakenChanges
<1>7. i \in Taken(lent, call)[u]
  BY <1>3
<1>8. Owned(Append(shelf, i), made, [Taken(lent, call) EXCEPT ![u] = @ \ {i}])
  BY <1>0, <1>7, OwnedBack
<1>9. Owned(shelf', made', Taken(lent', call'))
  BY <1>2, <1>6, <1>8 DEF Drops
<1> QED BY <1>0, <1>2, <1>6, <1>9 DEF ObjectInv, Taking, Keeps

LEMMA UseKeeps ==
  ASSUME ObjectInv, NEW u \in User, Objects!Use(u)
  PROVE  ObjectInv' /\ Uses
<1>1. PICK i \in lent[u] : dirty' = dirty \cup {i}
  BY DEF Objects!Use
<1>2. UNCHANGED <<shelf, made, lent, call, open>>
  BY DEF Objects!Use
<1>3. lent \in [User -> SUBSET Item]
  BY DEF ObjectInv, Taking
<1>4. OnlyUsedAreDirty(lent', dirty')
  BY <1>1, <1>2, <1>3 DEF ObjectInv, OnlyUsedAreDirty
<1> QED BY <1>1, <1>2, <1>4 DEF ObjectInv, Taking, Uses

LEMMA DestroyKeeps ==
  ASSUME ObjectInv, Objects!Destroy
  PROVE  ObjectInv' /\ Keeps
<1>0. /\ lent \in [User -> SUBSET Item] /\ call \in Calls /\ Owned(shelf, made, Taken(lent, call))
      /\ Apart(lent, call) /\ OnlyUsedAreDirty(lent, dirty)
  BY DEF ObjectInv, Taking
<1>1. /\ shelf' = <<>> /\ made' = made \ Objects!Range(shelf) /\ dirty' = dirty \ Objects!Range(shelf)
      /\ UNCHANGED <<lent, call>> /\ open' = FALSE /\ \A u \in User : lent[u] = {}
  BY DEF Objects!Destroy
<1>2. Objects!Range(shelf) = Entries(shelf)
  BY DEF Objects!Range, Entries
<1>3. Owned(<<>>, made \ Entries(shelf), Taken(lent, call))
  BY <1>0, OwnedLess
<1>4. HasReset => dirty = {}
  BY <1>0, <1>1 DEF OnlyUsedAreDirty
<1>5. OnlyUsedAreDirty(lent', dirty')
  BY <1>0, <1>1 DEF OnlyUsedAreDirty
<1> QED BY <1>0, <1>1, <1>2, <1>3, <1>4, <1>5 DEF ObjectInv, Taking, Keeps

LEMMA ObjectsNextKeeps ==
  ASSUME CallsAreNoItems, ResetIsKnown, ObjectInv, Objects!Next
  PROVE  ObjectInv' /\ (Lends \/ TakesBack \/ Uses \/ Keeps)
BY AcquireKeeps, MakeKeeps, ReleaseKeeps, PushKeeps, UseKeeps, DestroyKeeps DEF Objects!Next

LEMMA ObjectsKeep ==
  CallsAreNoItems /\ ResetIsKnown /\ ObjectInv /\ [Objects!Next]_(Objects!object_vars) => ObjectInv'
<1> SUFFICES ASSUME CallsAreNoItems, ResetIsKnown, ObjectInv, [Objects!Next]_(Objects!object_vars)
             PROVE  ObjectInv'
  OBVIOUS
<1>1. CASE UNCHANGED Objects!object_vars
  BY <1>1 DEF Objects!object_vars, ObjectInv, Taking
<1>2. CASE Objects!Next
  BY <1>2, ObjectsNextKeeps
<1> QED BY <1>1, <1>2

LEMMA ObjectsStart ==
  ASSUME CallsAreNoItems, ResetIsKnown, Objects!Init
  PROVE  ObjectInv
<1>1. /\ shelf \in [1 .. Initial -> Item] /\ \A i, j \in 1 .. Initial : shelf[i] = shelf[j] => i = j
      /\ made = Objects!Range(shelf) /\ lent = [u \in User |-> {}] /\ call = [u \in User |-> "nothing"]
      /\ dirty = {} /\ open = TRUE
  BY DEF Objects!Init, Objects!Nothing
<1>2. DOMAIN shelf = 1 .. Initial /\ shelf \in Seq(Item) /\ Len(shelf) = Initial
  BY <1>1 DEF ResetIsKnown
<1>3. made = Entries(shelf)
  BY <1>1 DEF Objects!Range, Entries
<1>4. made \subseteq Item /\ \A i \in 1 .. Initial : shelf[i] \in made
  BY <1>1, <1>2, <1>3 DEF Entries
<1>5. shelf \in Seq(made) /\ Distinct(shelf)
  BY <1>1, <1>2, <1>4 DEF Distinct, ResetIsKnown
<1>6. \A u \in User : Taken(lent, call)[u] = {}
  BY <1>1 DEF Taken, CallsAreNoItems
<1>7. Taken(lent, call) \in [User -> SUBSET Item]
  BY <1>1 DEF Taken
<1>8. Owned(shelf, made, Taken(lent, call))
  BY <1>3, <1>4, <1>5, <1>6, <1>7 DEF Owned
<1> QED BY <1>1, <1>8 DEF ObjectInv, Taking, Calls, Apart, OnlyUsedAreDirty

\* Every step is lending, using, giving back or rearranging, or nothing that Lending sees.
LEMMA ObjectsRefine ==
  ASSUME CallsAreNoItems, ResetIsKnown, UsersAreNoPlaces, ObjectInv, [Objects!Next]_(Objects!object_vars)
  PROVE  [Objects!Lender!Next]_(Objects!Lender!lending_vars)
<1> DEFINE f == [i \in Item |-> Objects!HolderOf(i)]
           fresh == IF HasReset THEN Item \ dirty ELSE Item
<1>1. CASE UNCHANGED Objects!object_vars
  <2>1. f' = f
    BY <1>1 DEF Objects!object_vars, Objects!HolderOf, Objects!Range
  <2>2. fresh' = fresh
    BY <1>1 DEF Objects!object_vars
  <2> QED BY <2>1, <2>2 DEF Objects!Lender!lending_vars
<1>2. CASE Objects!Next
  <2>1. ObjectInv' /\ lent \in [User -> SUBSET Item] /\ Holds(f, lent) /\ dirty \subseteq Item
        /\ HasReset \in BOOLEAN
    BY <1>2, ObjectsNextKeeps, ObjectsHeld DEF ObjectInv, Taking, OnlyUsedAreDirty, ResetIsKnown
  <2>2. Taking(shelf, made, lent, call)'
    BY <2>1 DEF ObjectInv
  <2>3. Holds(f, lent)'
    BY <2>2, ObjectsHeldAfter
  <2>4. PICK h, g, C, D : h = f /\ g = f' /\ C = fresh /\ D = fresh'
    OBVIOUS
  <2>5. Holds(h, lent) /\ Holds(g, lent')
    BY <2>1, <2>3, <2>4 DEF Holds
  <2>6. g \in [Item -> User \cup Idle]
    BY <2>5 DEF Holds
  <2>7. /\ C = IF HasReset THEN Item \ dirty ELSE Item
        /\ D = IF HasReset THEN Item \ dirty' ELSE Item
    BY <2>4
  <2> HIDE DEF f, fresh
  <2>8. CASE Lends
    <3>1. PICK u \in User, i \in Item :
            (\A v \in User : i \notin lent[v]) /\ lent' = [lent EXCEPT ![u] = @ \cup {i}] /\ dirty' = dirty
      BY <2>8 DEF Lends
    <3>2. Holds(g, [lent EXCEPT ![u] = @ \cup {i}])
      BY <2>5, <3>1
    <3>3. h[i] \in Idle /\ g[i] = u /\ OthersStay(h, g, i)
      BY <2>1, <2>5, <3>1, <3>2, LentOut
    <3>4. i \in D /\ C \subseteq D
      BY <2>7, <3>1, <2>1 DEF ObjectInv, OnlyUsedAreDirty
    <3>5. Objects!Lender!Lend(u, i)
      BY <2>4, <2>6, <3>3, <3>4 DEF f, fresh, Objects!Lender!Lend, Objects!Lender!OthersStay, OthersStay, Idle,
         Objects!Lender!Idle, Objects!Lender!Shelf, Objects!Lender!System
    <3> QED BY <3>5 DEF Objects!Lender!Next
  <2>9. CASE TakesBack
    <3>1. PICK u \in User : \E i \in lent[u] :
            lent' = [lent EXCEPT ![u] = @ \ {i}] /\ (HasReset => dirty' = dirty \ {i})
      BY <2>9 DEF TakesBack
    <3>2. PICK i \in lent[u] :
            lent' = [lent EXCEPT ![u] = @ \ {i}] /\ (HasReset => dirty' = dirty \ {i})
      BY <3>1
    <3>3. i \in Item /\ Holds(g, [lent EXCEPT ![u] = @ \ {i}])
      BY <2>1, <2>5, <3>2
    <3>4. h[i] = u /\ g[i] \in Idle /\ OthersStay(h, g, i)
      BY <2>1, <2>5, <3>3, GivenBack
    <3>5. i \in D /\ D \subseteq C \cup {i}
      BY <2>7, <3>2, <3>3, <2>1
    <3>6. Objects!Lender!GiveBack(u, i)
      BY <2>4, <2>6, <3>3, <3>4, <3>5 DEF f, fresh, Objects!Lender!GiveBack, Objects!Lender!OthersStay, OthersStay,
         Idle, Objects!Lender!Idle, Objects!Lender!Shelf, Objects!Lender!System
    <3> QED BY <3>3, <3>6 DEF Objects!Lender!Next
  <2>10. CASE Uses
    <3>1. PICK u \in User : \E i \in lent[u] : dirty' = dirty \cup {i} /\ UNCHANGED <<shelf, made, lent, call>>
      BY <2>10 DEF Uses
    <3>2. PICK i \in lent[u] : dirty' = dirty \cup {i} /\ UNCHANGED <<shelf, made, lent, call>>
      BY <3>1
    <3>3. i \in Item /\ h[i] = u
      BY <2>1, <2>5 DEF Holds
    <3>4. f' = f
      BY <3>2 DEF f, Objects!HolderOf, Objects!Range
    <3>5. CASE HasReset
      <4>1. D = C \ {i}
        BY <2>7, <3>2, <3>5
      <4>2. Objects!Lender!Use(u, i)
        BY <2>4, <3>3, <3>4, <4>1 DEF f, fresh, Objects!Lender!Use
      <4> QED BY <3>3, <4>2 DEF Objects!Lender!Next
    <3>6. CASE ~HasReset
      <4>1. fresh' = fresh
        BY <3>6 DEF fresh
      <4> QED BY <3>4, <4>1 DEF f, fresh, Objects!Lender!lending_vars
    <3> QED BY <2>1, <3>5, <3>6
  <2>11. CASE Keeps
    <3>1. \A j \in Item : IF h[j] \in Idle THEN g[j] \in Idle ELSE g[j] = h[j]
      BY <2>1, <2>5, <2>11, Unlent DEF Keeps
    <3>2. D = C
      BY <2>7, <2>11 DEF Keeps
    <3>3. Objects!Lender!Rearrange
      BY <2>4, <2>6, <3>1, <3>2 DEF f, fresh, Objects!Lender!Rearrange, Idle,
         Objects!Lender!Idle, Objects!Lender!Shelf, Objects!Lender!System
    <3> QED BY <3>3 DEF Objects!Lender!Next
  <2> QED BY <1>2, <2>8, <2>9, <2>10, <2>11, ObjectsNextKeeps
<1> QED BY <1>1, <1>2

LEMMA ObjectsStartLent ==
  ASSUME CallsAreNoItems, ResetIsKnown, UsersAreNoPlaces, Objects!Init
  PROVE  Objects!Lender!Init
<1>1. Holds([i \in Item |-> Objects!HolderOf(i)], lent)
  BY ObjectsStart, ObjectsHeld DEF ObjectInv
<1>2. \A i \in Item : \A u \in User : i \notin lent[u]
  BY DEF Objects!Init
<1>3. (IF HasReset THEN Item \ dirty ELSE Item) = Item
  BY DEF Objects!Init
<1> QED BY <1>1, <1>2, <1>3 DEF Holds, Idle, Objects!Lender!Init, Objects!Lender!Idle, Objects!Lender!Shelf,
        Objects!Lender!System

-------------------------------------------------------------------------------
(* Memoized functions                                                      *)

\* A call of the memoized function: before it stores a result, and about to.
Call ==
  [key : Key, at : {"find", "compute"}, asked : Nat] \cup [key : Key, at : {"store"}, result : Value]

MemoTyped ==
  /\ cache \subseteq Key \X Value
  /\ stack \in [Thread -> Seq(Call)]
  /\ answers \in [Key -> SUBSET Value] /\ returned \in [Key -> SUBSET Value]

\* A call stores only what the original function returned for its key.
StoresReturned ==
  \A t \in Thread : \A i \in DOMAIN stack[t] :
    stack[t][i].at = "store" => stack[t][i].result \in returned[stack[t][i].key]

\* A key has one result, which is the one that was answered.
OneResult ==
  \A k \in Key :
    /\ \A r, s \in Memo!Found(k) : r = s
    /\ Memo!Found(k) = answers[k]
    /\ Memo!Found(k) \subseteq returned[k]

MemoInv == MemoTyped /\ StoresReturned /\ OneResult

LEMMA MemoStarts == Memo!Init => MemoInv
BY DEF Memo!Init, MemoInv, MemoTyped, StoresReturned, OneResult, Memo!Found, Call

\* The innermost call of a thread, and what is around it.
LEMMA TopFacts ==
  ASSUME NEW s \in Seq(Call), s # <<>>
  PROVE  /\ Memo!Last(s) \in Call
         /\ Memo!Last(s) = s[Len(s)] /\ Len(s) \in DOMAIN s
         /\ Memo!Front(s) \in Seq(Call)
         /\ \A i \in DOMAIN Memo!Front(s) : i \in DOMAIN s /\ Memo!Front(s)[i] = s[i]
BY DEF Memo!Last, Memo!Front

LEMMA Adding ==
  ASSUME NEW r \in Seq(Call), NEW c \in Call
  PROVE  /\ Append(r, c) \in Seq(Call)
         /\ \A i \in DOMAIN Append(r, c) : (i \in DOMAIN r /\ Append(r, c)[i] = r[i]) \/ Append(r, c)[i] = c
OBVIOUS

\* A step of thread t that leaves it the calls s, of which those that are about to store
\* a result were about to before, or have one that was returned.
Leaves(t, s) ==
  /\ stack' = [stack EXCEPT ![t] = s]
  /\ \A i \in DOMAIN s : \/ i \in DOMAIN stack[t] /\ s[i] = stack[t][i]
                         \/ s[i].at # "store"
                         \/ s[i].result \in returned'[s[i].key]

NoneForgotten == \A k \in Key : returned[k] \subseteq returned'[k]

LEMMA StackStep ==
  ASSUME MemoTyped, StoresReturned, NoneForgotten, NEW t \in Thread, NEW s \in Seq(Call), Leaves(t, s)
  PROVE  stack' \in [Thread -> Seq(Call)] /\ StoresReturned'
<1>1. stack \in [Thread -> Seq(Call)] /\ stack' \in [Thread -> Seq(Call)]
  BY DEF MemoTyped, Leaves
<1>2. ASSUME NEW u \in Thread, NEW i \in DOMAIN stack'[u], stack'[u][i].at = "store"
      PROVE  stack'[u][i].result \in returned'[stack'[u][i].key]
  <2>1. CASE u # t
    <3>1. stack'[u] = stack[u]
      BY <1>1, <2>1 DEF Leaves
    <3>2. stack[u][i] \in Call
      BY <1>1, <1>2, <3>1
    <3>3. stack[u][i].key \in Key
      BY <3>2 DEF Call
    <3> QED BY <1>2, <3>1, <3>3 DEF StoresReturned, NoneForgotten
  <2>2. CASE u = t
    <3>1. stack'[t] = s
      BY <1>1 DEF Leaves
    <3>2. s[i] \in Call /\ s[i].key \in Key
      BY <1>2, <2>2, <3>1 DEF Call
    <3> QED BY <1>2, <2>2, <3>1, <3>2 DEF StoresReturned, NoneForgotten, Leaves
  <2> QED BY <2>1, <2>2
<1> QED BY <1>1, <1>2 DEF StoresReturned

\* Nothing but the calls of a thread changes.
LEMMA MemoKept ==
  ASSUME MemoInv, UNCHANGED <<cache, answers, returned>>, stack' \in [Thread -> Seq(Call)],
         StoresReturned'
  PROVE  MemoInv'
BY DEF MemoInv, MemoTyped, OneResult, Memo!Found

\* A call returns r, which is the result of its key from now on.
LEMMA Returning ==
  ASSUME MemoInv, NEW t \in Thread, stack[t] # <<>>, NEW r \in Value, Memo!Return(t, r),
         UNCHANGED returned,
         \/ cache' = cache /\ r \in Memo!Found(Memo!Top(t).key)
         \/ /\ cache' = cache \cup {<<Memo!Top(t).key, r>>} /\ Memo!Found(Memo!Top(t).key) = {}
            /\ r \in returned[Memo!Top(t).key]
  PROVE  MemoInv'
<1> DEFINE c == Memo!Last(stack[t])
<1>0. /\ stack[t] \in Seq(Call) /\ stack \in [Thread -> Seq(Call)]
      /\ answers \in [Key -> SUBSET Value] /\ returned \in [Key -> SUBSET Value]
      /\ cache \subseteq Key \X Value
  BY DEF MemoInv, MemoTyped
<1>1. c \in Call /\ c.key \in Key /\ Memo!Front(stack[t]) \in Seq(Call)
      /\ \A i \in DOMAIN Memo!Front(stack[t]) :
           i \in DOMAIN stack[t] /\ Memo!Front(stack[t])[i] = stack[t][i]
  <2>1. c \in Call
    BY <1>0, TopFacts
  <2>2. c.key \in Key
    BY <2>1 DEF Call
  <2> QED BY <1>0, <2>1, <2>2, TopFacts
<1>2. /\ Memo!Top(t) = c
      /\ stack' = [stack EXCEPT ![t] = Memo!Front(stack[t])]
      /\ answers' = [answers EXCEPT ![c.key] = @ \cup {r}]
  BY <1>0 DEF Memo!Return, Memo!Pop, Memo!Top
<1> HIDE DEF c
<1>3. stack' \in [Thread -> Seq(Call)] /\ StoresReturned'
  <2>1. Leaves(t, Memo!Front(stack[t])) /\ NoneForgotten
    BY <1>1, <1>2 DEF Leaves, NoneForgotten
  <2> QED BY <1>1, <2>1, StackStep DEF MemoInv
<1>4. answers' \in [Key -> SUBSET Value]
  BY <1>0, <1>1, <1>2
<1>5. cache' \subseteq Key \X Value
  BY <1>0, <1>1, <1>2
<1>6. ASSUME NEW k \in Key
      PROVE  /\ \A q, s \in Memo!Found(k)' : q = s
             /\ Memo!Found(k)' = answers'[k]
             /\ Memo!Found(k)' \subseteq returned'[k]
  <2>0. /\ \A q, s \in Memo!Found(k) : q = s
        /\ Memo!Found(k) = answers[k]
        /\ Memo!Found(k) \subseteq returned[k]
    BY DEF MemoInv, OneResult
  <2>1. Memo!Found(k)' = IF k = c.key THEN Memo!Found(k) \cup {r} ELSE Memo!Found(k)
    BY <1>2 DEF Memo!Found
  <2>2. answers'[k] = IF k = c.key THEN answers[k] \cup {r} ELSE answers[k]
    BY <1>0, <1>1, <1>2
  <2>3. k = c.key => Memo!Found(k) \subseteq {r} /\ r \in returned[k]
    BY <1>2, <2>0
  <2> QED BY <2>0, <2>1, <2>2, <2>3
<1> QED BY <1>0, <1>3, <1>4, <1>5, <1>6 DEF MemoInv, MemoTyped, OneResult

LEMMA MemoSteps ==
  ASSUME Memo!MemoizeAssumption, MemoInv, [Memo!Next]_(Memo!vars)
  PROVE  MemoInv'
<1>0. /\ stack \in [Thread -> Seq(Call)] /\ returned \in [Key -> SUBSET Value]
      /\ cache \subseteq Key \X Value
      /\ MemoTyped /\ StoresReturned
  BY DEF MemoInv, MemoTyped
<1>1. ASSUME UNCHANGED Memo!vars PROVE MemoInv'
  BY <1>1 DEF Memo!vars, MemoInv, MemoTyped, StoresReturned, OneResult, Memo!Found
<1>2. ASSUME NEW t \in Thread, Memo!Call(t) PROVE MemoInv'
  <2>1. PICK k \in Key : stack' = [stack EXCEPT ![t] = Append(@, Memo!Frame(k))]
    BY <1>2 DEF Memo!Call, Memo!Push
  <2>2. Memo!Frame(k) \in Call /\ Memo!Frame(k).at # "store"
    BY DEF Memo!Frame, Call
  <2> DEFINE s == Append(stack[t], Memo!Frame(k))
  <2>3. /\ s \in Seq(Call) /\ stack' = [stack EXCEPT ![t] = s]
        /\ \A i \in DOMAIN s : (i \in DOMAIN stack[t] /\ s[i] = stack[t][i]) \/ s[i] = Memo!Frame(k)
    BY <1>0, <2>1, <2>2, Adding
  <2> HIDE DEF s
  <2>4. UNCHANGED <<cache, answers, returned>>
    BY <1>2 DEF Memo!Call
  <2>5. stack' \in [Thread -> Seq(Call)] /\ StoresReturned'
    <3>1. Leaves(t, s) /\ NoneForgotten
      BY <2>2, <2>3, <2>4 DEF Leaves, NoneForgotten
    <3> QED BY <1>0, <2>3, <3>1, StackStep
  <2> QED BY <2>4, <2>5, MemoKept
<1> DEFINE In(t) == stack[t] # <<>>
           c(t) == Memo!Last(stack[t])
           f(t) == Memo!Front(stack[t])
<1>3. ASSUME NEW t \in Thread, In(t)
      PROVE  /\ c(t) \in Call /\ c(t).key \in Key /\ c(t) = stack[t][Len(stack[t])]
             /\ Len(stack[t]) \in DOMAIN stack[t] /\ f(t) \in Seq(Call)
             /\ \A i \in DOMAIN f(t) : i \in DOMAIN stack[t] /\ f(t)[i] = stack[t][i]
  <2>1. c(t) \in Call
    BY <1>0, <1>3, TopFacts
  <2>2. c(t).key \in Key
    BY <2>1 DEF Call
  <2> QED BY <1>0, <1>3, <2>2, TopFacts
<1>4. \A t \in Thread : \A where : Memo!At(t, where) => In(t) /\ c(t).at = where /\ Memo!Top(t) = c(t)
  BY DEF Memo!At, Memo!Top
<1>5. ASSUME NEW t \in Thread, NEW d \in Call, In(t), UNCHANGED <<cache, answers>>, Memo!SetTop(t, d),
             returned' \in [Key -> SUBSET Value],
             \A k \in Key : returned[k] \subseteq returned'[k],
             d.at = "store" => d.result \in returned'[d.key]
      PROVE  MemoInv'
  <2> DEFINE s == Append(f(t), d)
  <2>1. /\ s \in Seq(Call) /\ stack' = [stack EXCEPT ![t] = s]
        /\ \A i \in DOMAIN s : (i \in DOMAIN f(t) /\ s[i] = f(t)[i]) \/ s[i] = d
    BY <1>0, <1>3, <1>5, Adding DEF Memo!SetTop
  <2>2. \A i \in DOMAIN s : (i \in DOMAIN stack[t] /\ s[i] = stack[t][i]) \/ s[i] = d
    BY <1>3, <1>5, <2>1
  <2> HIDE DEF s
  <2>3. stack' \in [Thread -> Seq(Call)] /\ StoresReturned'
    <3>1. Leaves(t, s) /\ NoneForgotten
      BY <1>5, <2>1, <2>2 DEF Leaves, NoneForgotten
    <3> QED BY <1>0, <2>1, <3>1, StackStep
  <2> QED BY <1>5, <2>3 DEF MemoInv, MemoTyped, OneResult, Memo!Found
<1>6. ASSUME NEW t \in Thread, Memo!FindHit(t) PROVE MemoInv'
  <2>1. PICK r \in Memo!Found(Memo!Top(t).key) : Memo!Return(t, r)
    BY <1>6 DEF Memo!FindHit
  <2>2. r \in Value
    BY <2>1 DEF Memo!Found
  <2>3. In(t) /\ UNCHANGED <<cache, returned>>
    BY <1>4, <1>6 DEF Memo!FindHit
  <2> QED BY <2>1, <2>2, <2>3, Returning
<1>7. ASSUME NEW t \in Thread, Memo!FindMiss(t) PROVE MemoInv'
  <2>1. In(t) /\ c(t).at = "find" /\ Memo!SetTop(t, [c(t) EXCEPT !.at = "compute"])
        /\ UNCHANGED <<cache, answers, returned>>
    BY <1>4, <1>7 DEF Memo!FindMiss
  <2>2. [c(t) EXCEPT !.at = "compute"] \in Call /\ [c(t) EXCEPT !.at = "compute"].at = "compute"
    BY <1>3, <2>1 DEF Call
  <2> HIDE DEF c, In
  <2> QED BY <1>0, <1>5, <2>1, <2>2
<1>8. ASSUME NEW t \in Thread, Memo!Recur(t) PROVE MemoInv'
  <2>1. /\ In(t) /\ c(t).at = "compute" /\ c(t).asked < Len(Needs[c(t).key])
        /\ stack' = [stack EXCEPT ![t] = Append(Append(f(t), [c(t) EXCEPT !.asked = @ + 1]),
                                                Memo!Frame(Needs[c(t).key][c(t).asked + 1]))]
        /\ UNCHANGED <<cache, answers, returned>>
    BY <1>0, <1>4, <1>8 DEF Memo!Recur
  <2>2. c(t).asked \in Nat /\ c(t).key \in Key
    BY <1>3, <2>1 DEF Call
  <2> DEFINE d == [c(t) EXCEPT !.asked = @ + 1]
             e == Memo!Frame(Needs[c(t).key][c(t).asked + 1])
  <2>3. d \in Call /\ d.at = "compute"
    BY <1>3, <2>1 DEF Call
  <2>4. e \in Call /\ e.at = "find"
    <3>1. Needs[c(t).key] \in Seq(Key)
      BY <2>2 DEF Memo!MemoizeAssumption
    <3>2. Needs[c(t).key][c(t).asked + 1] \in Key
      BY <2>1, <2>2, <3>1
    <3> QED BY <3>2 DEF Memo!Frame, Call
  <2> HIDE DEF d, e
  <2> DEFINE q == Append(f(t), d)
             s == Append(q, e)
  <2>5. /\ q \in Seq(Call)
        /\ \A i \in DOMAIN q : (i \in DOMAIN f(t) /\ q[i] = f(t)[i]) \/ q[i] = d
    BY <1>3, <2>1, <2>3, Adding
  <2>6. stack' = [stack EXCEPT ![t] = s]
    BY <2>1 DEF d, e
  <2> HIDE DEF q
  <2>7. /\ s \in Seq(Call)
        /\ \A i \in DOMAIN s : (i \in DOMAIN q /\ s[i] = q[i]) \/ s[i] = e
    BY <2>4, <2>5, Adding
  <2> HIDE DEF s, f
  <2>8. \A i \in DOMAIN s : (i \in DOMAIN stack[t] /\ s[i] = stack[t][i]) \/ s[i] \in {d, e}
    BY <1>3, <2>1, <2>5, <2>7
  <2> HIDE DEF In, c
  <2>9. stack' \in [Thread -> Seq(Call)] /\ StoresReturned'
    <3>1. Leaves(t, s) /\ NoneForgotten
      BY <2>1, <2>3, <2>4, <2>6, <2>8 DEF Leaves, NoneForgotten
    <3> QED BY <1>0, <2>7, <3>1, StackStep
  <2> QED BY <2>1, <2>9, MemoKept
<1>9. ASSUME NEW t \in Thread, Memo!Compute(t) PROVE MemoInv'
  <2>1. In(t) /\ Memo!Top(t) = c(t) /\ UNCHANGED <<cache, answers>>
    BY <1>4, <1>9 DEF Memo!Compute
  <2>2. PICK r \in Value :
          /\ Memo!SetTop(t, [key |-> c(t).key, at |-> "store", result |-> r])
          /\ returned' = [returned EXCEPT ![c(t).key] = @ \cup {r}]
    BY <1>9, <2>1 DEF Memo!Compute
  <2> DEFINE d == [key |-> c(t).key, at |-> "store", result |-> r]
  <2>3. c(t).key \in Key
    BY <1>3, <2>1
  <2>4. d \in Call /\ d.key = c(t).key /\ d.result = r
    BY <2>3 DEF Call
  <2>5. /\ returned' \in [Key -> SUBSET Value] /\ r \in returned'[c(t).key]
        /\ \A k \in Key : returned[k] \subseteq returned'[k]
    BY <1>0, <2>2, <2>3
  <2>6. Memo!SetTop(t, d)
    BY <2>2
  <2> HIDE DEF d, c, In
  <2> QED BY <1>5, <2>1, <2>4, <2>5, <2>6
<1>10. ASSUME NEW t \in Thread, Memo!Throw(t) PROVE MemoInv'
  <2>1. In(t) /\ stack' = [stack EXCEPT ![t] = f(t)] /\ UNCHANGED <<cache, answers, returned>>
    BY <1>0, <1>4, <1>10 DEF Memo!Throw, Memo!Pop
  <2> HIDE DEF f, In, c
  <2>2. stack' \in [Thread -> Seq(Call)] /\ StoresReturned'
    <3>1. Leaves(t, f(t)) /\ NoneForgotten
      BY <1>3, <2>1 DEF Leaves, NoneForgotten
    <3> QED BY <1>0, <1>3, <2>1, <3>1, StackStep
  <2> QED BY <2>1, <2>2, MemoKept
<1>11. ASSUME NEW t \in Thread, Memo!StoreFirst(t) PROVE MemoInv'
  <2>1. /\ In(t) /\ c(t).at = "store" /\ Memo!Top(t) = c(t)
        /\ Memo!Found(c(t).key) = {} /\ cache' = cache \cup {<<c(t).key, c(t).result>>}
        /\ Memo!Return(t, c(t).result) /\ UNCHANGED returned
    BY <1>4, <1>11 DEF Memo!StoreFirst
  <2>2. c(t).result \in Value
    BY <1>3, <2>1 DEF Call
  <2>3. c(t).result \in returned[c(t).key]
    BY <1>0, <1>3, <2>1 DEF StoresReturned
  <2> HIDE DEF c
  <2> QED BY <2>1, <2>2, <2>3, Returning
<1>12. ASSUME NEW t \in Thread, Memo!StoreSecond(t) PROVE MemoInv'
  <2>1. PICK r \in Memo!Found(Memo!Top(t).key) : Memo!Return(t, r)
    BY <1>12 DEF Memo!StoreSecond
  <2>2. r \in Value
    BY <2>1 DEF Memo!Found
  <2>3. In(t) /\ UNCHANGED <<cache, returned>>
    BY <1>4, <1>12 DEF Memo!StoreSecond
  <2> QED BY <2>1, <2>2, <2>3, Returning
<1> QED BY <1>1, <1>2, <1>6, <1>7, <1>8, <1>9, <1>10, <1>11, <1>12 DEF Memo!Next, Memo!Step

LEMMA MemoCardinality == \A S : Memo!Cardinality(S) = Cardinality(S)
BY Zenon DEF Memo!Cardinality, Cardinality

LEMMA MemoAnswers == MemoInv => Memo!OneAnswerPerKey
<1> SUFFICES ASSUME MemoInv, NEW k \in Key
             PROVE  /\ Cardinality(answers[k]) <= 1
                    /\ Memo!Found(k) = answers[k]
                    /\ Memo!Found(k) \subseteq returned[k]
  BY MemoCardinality DEF Memo!OneAnswerPerKey
<1>1. \A r, s \in answers[k] : r = s
  BY DEF MemoInv, OneResult
<1>2. CASE answers[k] = {}
  BY <1>2, FS_EmptySet DEF MemoInv, OneResult
<1>3. CASE answers[k] # {}
  <2>1. PICK r : r \in answers[k]
    BY <1>3
  <2>2. answers[k] = {r}
    BY <1>1, <2>1
  <2>3. Cardinality(answers[k]) = 1
    BY <2>2, FS_Singleton
  <2> QED BY <2>3 DEF MemoInv, OneResult
<1> QED BY <1>2, <1>3

LEMMA MemoIsTyped == MemoInv => Memo!TypeOK
<1> SUFFICES ASSUME MemoInv PROVE Memo!TypeOK
  OBVIOUS
<1>1. cache \subseteq Key \X Value /\ stack \in [Thread -> Seq(Call)]
  BY DEF MemoInv, MemoTyped
<1>2. ASSUME NEW t \in Thread, NEW i \in DOMAIN stack[t]
      PROVE  stack[t][i].key \in Key /\ stack[t][i].at \in {"find", "compute", "store"}
  <2>1. stack[t][i] \in Call
    BY <1>1
  <2> QED BY <2>1 DEF Call
<1> QED BY <1>1, <1>2 DEF Memo!TypeOK

-------------------------------------------------------------------------------
(* The frames of a dataset                                                 *)

LEMMA FramesWithout == \A s, X : Frames!Without(s, X) = Without(s, X)
BY Zenon DEF Frames!Without, Without

LEMMA FramesCardinality == \A S : Frames!Cardinality(S) = Cardinality(S)
BY Zenon DEF Frames!Cardinality, Cardinality

LEMMA DistinctCount ==
  ASSUME NEW S, NEW s \in Seq(S), Distinct(s)
  PROVE  IsFiniteSet(Entries(s)) /\ Cardinality(Entries(s)) = Len(s)
<1>1. /\ Len(s) \in Nat /\ DOMAIN s = 1 .. Len(s)
  OBVIOUS
<1>2. s \in Bijection(1 .. Len(s), Entries(s))
  BY <1>1 DEF Bijection, Injection, Surjection, IsInjective, Distinct, Entries
<1>3. IsFiniteSet(1 .. Len(s)) /\ Cardinality(1 .. Len(s)) = Len(s)
  BY <1>1, FS_Interval
<1> QED BY <1>2, <1>3, FS_Bijection DEF ExistsBijection

LEMMA PrefixBegins ==
  ASSUME NEW S, NEW s \in Seq(S), NEW t \in Seq(S)
  PROVE  Begins(s, t) <=> Frames!IsPrefix(s, t)
BY DEF Begins, Frames!IsPrefix
\* Moving an entry to the front keeps what a list has, but for that entry, and keeps one
\* list the beginning of another.
LEMMA ToFrontFacts ==
  ASSUME NEW S, NEW s \in Seq(S), NEW x \in S
  PROVE  /\ Frames!ToFront(s, x) \in Seq(S)
         /\ Entries(Frames!ToFront(s, x)) = Entries(s) \cup {x}
         /\ Distinct(s) => Distinct(Frames!ToFront(s, x))
<1> DEFINE w == Without(s, {x})
           t == Frames!ToFront(s, x)
<1>1. w \in Seq(S) /\ Entries(w) = Entries(s) \ {x} /\ (Distinct(s) => Distinct(w))
  BY WithoutFacts, WithoutEntries
<1>2. t = <<x>> \o w
  BY FramesWithout DEF Frames!ToFront
<1> HIDE DEF w, t
<1>3. /\ t \in Seq(S) /\ Len(w) \in Nat /\ Len(t) = Len(w) + 1 /\ t[1] = x
      /\ \A i \in 1 .. Len(w) : t[i + 1] = w[i]
      /\ DOMAIN t = 1 .. Len(w) + 1 /\ DOMAIN w = 1 .. Len(w)
  BY <1>1, <1>2
<1>4. \A i \in 1 .. Len(w) + 1 : i = 1 \/ (i - 1 \in 1 .. Len(w) /\ t[i] = w[i - 1])
  <2> TAKE i \in 1 .. Len(w) + 1
  <2>1. i = 1 \/ (i - 1 \in 1 .. Len(w) /\ (i - 1) + 1 = i)
    BY <1>3
  <2> QED BY <1>3, <2>1
<1>5. Entries(t) = Entries(w) \cup {x}
  <2>1. ASSUME NEW y \in Entries(t) PROVE y \in Entries(w) \cup {x}
    <3>1. PICK i \in 1 .. Len(w) + 1 : y = t[i]
      BY <1>3, <2>1 DEF Entries
    <3>2. i = 1 \/ (i - 1 \in 1 .. Len(w) /\ t[i] = w[i - 1])
      BY <1>4
    <3>3. CASE i = 1
      BY <1>3, <3>1, <3>3
    <3>4. CASE i - 1 \in 1 .. Len(w) /\ t[i] = w[i - 1]
      BY <1>3, <3>1, <3>4 DEF Entries
    <3> QED BY <3>2, <3>3, <3>4
  <2>2. ASSUME NEW y \in Entries(w) PROVE y \in Entries(t)
    <3>1. PICK i \in 1 .. Len(w) : y = w[i]
      BY <1>3 DEF Entries
    <3>2. i + 1 \in 1 .. Len(w) + 1 /\ y = t[i + 1]
      BY <1>3, <3>1
    <3> QED BY <1>3, <3>2 DEF Entries
  <2>3. x \in Entries(t)
    <3>1. 1 \in 1 .. Len(w) + 1
      BY <1>3
    <3> QED BY <1>3, <3>1 DEF Entries
  <2> QED BY <2>1, <2>2, <2>3
<1>6. ASSUME Distinct(s), NEW i \in 1 .. Len(w) + 1, NEW j \in 1 .. Len(w) + 1, t[i] = t[j]
      PROVE  i = j
  <2>1. \A k \in 1 .. Len(w) : w[k] # x
    BY <1>1, <1>3 DEF Entries
  <2>2. \A k, l \in 1 .. Len(w) : w[k] = w[l] => k = l
    BY <1>1, <1>3, <1>6 DEF Distinct
  <2> QED BY <1>3, <1>4, <1>6, <2>1, <2>2
<1>7. Entries(t) = Entries(s) \cup {x}
  BY <1>1, <1>5
<1>8. Distinct(s) => Distinct(t)
  BY <1>3, <1>6 DEF Distinct
<1> QED BY <1>3, <1>7, <1>8 DEF t

LEMMA ToFrontBegins ==
  ASSUME NEW S, NEW s \in Seq(S), NEW t \in Seq(S), Begins(s, t), NEW x \in S
  PROVE  Begins(Frames!ToFront(s, x), Frames!ToFront(t, x))
<1> DEFINE u == Without(s, {x})
           v == Without(t, {x})
<1>1. u \in Seq(S) /\ v \in Seq(S) /\ Begins(u, v)
  BY WithoutFacts, WithoutBegins
<1>2. Frames!ToFront(s, x) = <<x>> \o u /\ Frames!ToFront(t, x) = <<x>> \o v
  BY FramesWithout DEF Frames!ToFront
<1> HIDE DEF u, v
<1>3. Begins(<<x>> \o u, <<x>> \o v)
  <2>1. /\ Len(<<x>> \o u) = 1 + Len(u) /\ Len(<<x>> \o v) = 1 + Len(v)
        /\ Len(u) \in Nat /\ Len(v) \in Nat /\ Len(u) <= Len(v)
    BY <1>1 DEF Begins
  <2>2. ASSUME NEW i \in 1 .. 1 + Len(u)
        PROVE  (<<x>> \o u)[i] = (<<x>> \o v)[i]
    <3>1. CASE i = 1
      BY <1>1, <3>1
    <3>2. CASE i # 1
      <4>1. (<<x>> \o u)[i] = u[i - 1] /\ (<<x>> \o v)[i] = v[i - 1]
        BY <1>1, <2>1, <3>2
      <4>2. u[i - 1] = v[i - 1]
        BY <1>1, <2>1, <3>2 DEF Begins
      <4> QED BY <4>1, <4>2
    <3> QED BY <3>1, <3>2
  <2> DEFINE a == <<x>> \o u
             b == <<x>> \o v
  <2>3. Len(a) <= Len(b) /\ \A i \in 1 .. Len(a) : a[i] = b[i]
    <3>1. Len(a) <= Len(b)
      BY <2>1
    <3>2. 1 .. Len(a) = 1 .. 1 + Len(u)
      BY <2>1
    <3> HIDE DEF a
    <3>3. ASSUME NEW i \in 1 .. Len(a) PROVE a[i] = b[i]
      BY <2>2, <3>2, <3>3 DEF a
    <3> QED BY <3>1, <3>3
  <2> HIDE DEF a, b
  <2>4. Begins(a, b)
    BY <2>3 DEF Begins
  <2> QED BY <2>4 DEF a, b
<1> QED BY <1>2, <1>3

LEMMA BeginsFacts ==
  ASSUME NEW S, NEW s \in Seq(S), NEW t \in Seq(S), Begins(s, t)
  PROVE  /\ Distinct(t) => Distinct(s)
         /\ \A u \in Seq(S) : Begins(t, u) => Begins(s, u)
<1>1. /\ Len(s) \in Nat /\ Len(t) \in Nat /\ Len(s) <= Len(t) /\ \A i \in 1 .. Len(s) : s[i] = t[i]
      /\ DOMAIN s = 1 .. Len(s) /\ DOMAIN t = 1 .. Len(t)
  BY DEF Begins
<1>2. 1 .. Len(s) \subseteq 1 .. Len(t)
  BY <1>1
<1>3. Distinct(t) => Distinct(s)
  BY <1>1, <1>2 DEF Distinct
<1>4. ASSUME NEW u \in Seq(S), Begins(t, u) PROVE Begins(s, u)
  <2>1. Len(u) \in Nat
    OBVIOUS
  <2> QED BY <1>1, <1>2, <1>4, <2>1 DEF Begins
<1> QED BY <1>3, <1>4

\* What a list is after the loop that evicts, and that the cache is what it names.
LEMMA Evicted ==
  ASSUME NEW S, NEW list \in Seq(S), Distinct(list), NEW n \in Nat, Frames!Evicting(Entries(list), list, n)
  PROVE  /\ lru_list' \in Seq(S) /\ Begins(lru_list', list) /\ Entries(lru_list') = frames'
         /\ IF Len(list) > n THEN Len(lru_list') = n ELSE lru_list' = list
<1>1. Frames!Cardinality(Entries(list)) = Len(list)
  BY DistinctCount, FramesCardinality
<1>2. CASE Len(list) > n
  <2> DEFINE k == SubSeq(list, 1, n)
  <2>1. /\ Len(list) \in Nat /\ k \in Seq(S) /\ Len(k) = n /\ DOMAIN k = 1 .. n
        /\ \A i \in 1 .. n : k[i] = list[i]
    BY <1>2
  <2> HIDE DEF k
  <2>2. lru_list' = k /\ frames' = Entries(list) \ (Frames!ToSet(list) \ Frames!ToSet(k))
    BY <1>1, <1>2 DEF Frames!Evicting, Frames!Kept, k
  <2>3. Frames!ToSet(list) = Entries(list) /\ Frames!ToSet(k) = Entries(k)
    BY DEF Frames!ToSet, Entries
  <2>4. Entries(k) \subseteq Entries(list)
    BY <1>2, <2>1 DEF Entries
  <2>5. Begins(k, list)
    BY <1>2, <2>1 DEF Begins
  <2> QED BY <1>2, <2>1, <2>2, <2>3, <2>4, <2>5
<1>3. CASE ~(Len(list) > n)
  <2>1. lru_list' = list /\ frames' = Entries(list)
    BY <1>1, <1>3 DEF Frames!Evicting
  <2>2. Begins(list, list)
    BY DEF Begins
  <2> QED BY <1>3, <2>1, <2>2
<1> QED BY <1>2, <1>3
\* The list is the beginning of the history, which has no frame twice, and names what
\* the cache has.
ListIsLatest ==
  /\ Distinct(recent) /\ Begins(lru_list, recent)
  /\ Entries(lru_list) = frames /\ Len(lru_list) <= max_cache_size

\* What a reader puts into the cache was read from a file.
ReadsGood ==
  \A r \in Reader :
    /\ pc[r] \in {"find", "load"} => index[r] < NFrames
    /\ pc[r] \in {"update", "insert", "answer", "find again", "move"} => index[r] \in Frames!Good

\* A loaded frame is lost only while the cache is full.
LostWhenFull ==
  \A r \in Reader :
    pc[r] \in {"answer", "find again"} /\ index[r] \notin frames => Len(lru_list) = max_cache_size

\* What a reader has found stays until it has copied it, unless another one races with it.
MovesItsFrame ==
  Frames!Racing \/ \A r \in Reader : pc[r] = "move" => index[r] \in frames

FramesInv == Frames!TypeOK /\ ListIsLatest /\ ReadsGood /\ LostWhenFull /\ MovesItsFrame

LEMMA FramesStart == Frames!CacheAssumption /\ Frames!Init => FramesInv
<1> SUFFICES ASSUME Frames!CacheAssumption, Frames!Init PROVE FramesInv
  OBVIOUS
<1>1. NFrames \in Nat /\ DefaultSize \in Nat
  BY DEF Frames!CacheAssumption
<1>2. /\ frames = {} /\ lru_list = <<>> /\ recent = <<>> /\ max_cache_size = DefaultSize
      /\ strict \in BOOLEAN /\ pc = [r \in Reader |-> "idle"] /\ index = [r \in Reader |-> 0]
      /\ answer = [r \in Reader |-> "none"]
  BY DEF Frames!Init
<1>3. ListIsLatest
  BY <1>1, <1>2 DEF ListIsLatest, Distinct, Begins, Entries
<1>4. 0 \in Frames!Index
  BY <1>1 DEF Frames!Index
<1>5. Frames!TypeOK
  BY <1>2, <1>4 DEF Frames!TypeOK
<1> QED BY <1>2, <1>3, <1>5 DEF FramesInv, ReadsGood, LostWhenFull, MovesItsFrame

\* A reader uses frame x, which was in the cache or is put into it: what remains of the
\* list with x in front is the list, as much of it as the cache holds.
LEMMA UsedOrAdded ==
  ASSUME Frames!CacheAssumption, FramesInv, NEW x \in Frames!Good,
         recent' = Frames!ToFront(recent, x), UNCHANGED max_cache_size,
         Frames!Evicting(frames \cup {x}, Frames!ToFront(lru_list, x), max_cache_size)
  PROVE  /\ ListIsLatest' /\ recent' \in Seq(Frames!Good) /\ lru_list' \in Seq(Frames!Good)
         /\ frames' \subseteq Frames!Good
         /\ IF Cardinality(frames \cup {x}) > max_cache_size
            THEN Len(lru_list') = max_cache_size
            ELSE lru_list' = Frames!ToFront(lru_list, x) /\ frames' = frames \cup {x}
<1> DEFINE G == Frames!Good
           list == Frames!ToFront(lru_list, x)
<1>1. /\ max_cache_size \in Nat /\ lru_list \in Seq(G) /\ recent \in Seq(G)
      /\ Distinct(recent) /\ Begins(lru_list, recent) /\ Entries(lru_list) = frames
  BY DEF FramesInv, Frames!TypeOK, Frames!CacheAssumption, ListIsLatest
<1>2. x \in G
  OBVIOUS
<1> HIDE DEF G
<1>3. recent' \in Seq(G) /\ Distinct(recent')
  BY <1>1, <1>2, ToFrontFacts
<1>4. list \in Seq(G) /\ Entries(list) = frames \cup {x} /\ Begins(list, recent')
  BY <1>1, <1>2, ToFrontFacts, ToFrontBegins
<1>5. Distinct(list)
  BY <1>1, <1>2, ToFrontFacts, BeginsFacts
<1> HIDE DEF list
<1>6. Frames!Evicting(Entries(list), list, max_cache_size)
  BY <1>4 DEF list
<1>7. /\ lru_list' \in Seq(G) /\ Begins(lru_list', list) /\ Entries(lru_list') = frames'
      /\ IF Len(list) > max_cache_size THEN Len(lru_list') = max_cache_size ELSE lru_list' = list
  BY <1>1, <1>4, <1>5, <1>6, Evicted
<1>8. Begins(lru_list', recent')
  BY <1>3, <1>4, <1>7, BeginsFacts
<1>9. Len(list) = Cardinality(frames \cup {x})
  BY <1>4, <1>5, DistinctCount
<1>10. Len(list) \in Nat /\ Len(lru_list') <= max_cache_size'
  BY <1>1, <1>4, <1>7
<1>11. \A i \in DOMAIN lru_list' : lru_list'[i] \in G
  BY <1>7
<1>12. frames' \subseteq G
  BY <1>7, <1>11 DEF Entries
<1>13. ~(Len(list) > max_cache_size) => frames' = frames \cup {x}
  BY <1>4, <1>7
<1> QED BY <1>3, <1>7, <1>8, <1>9, <1>10, <1>12, <1>13 DEF ListIsLatest, G, list
\* The readers' own variables stay typed.
ReadersTyped ==
  /\ pc \in [Reader -> {"idle", "lookup", "find", "load", "update", "insert", "answer",
                        "find again", "move"}]
  /\ index \in [Reader -> Frames!Index]
  /\ answer \in [Reader -> {"none", "frame", "nullopt", "throws"}]

LEMMA CallsFacts ==
  /\ Frames!Calls("lookup") = "find" /\ Frames!Calls("answer") = "find again"
  /\ Frames!Calls("update") = "insert"
BY DEF Frames!Calls

LEMMA ReadersStayTyped ==
  ASSUME Frames!TypeOK, Frames!Next
  PROVE  ReadersTyped'
<1>1. ReadersTyped
  BY DEF Frames!TypeOK, ReadersTyped
<1>2. ASSUME NEW r \in Reader, NEW what \in {"none", "frame", "nullopt", "throws"}, Frames!Answer(r, what),
             UNCHANGED index
      PROVE  ReadersTyped'
  BY <1>1, <1>2 DEF Frames!Answer, Frames!Goto, ReadersTyped
<1>3. ASSUME NEW r \in Reader, NEW label \in {"find", "load", "update", "insert", "answer", "find again", "move"},
             Frames!Goto(r, label), UNCHANGED <<index, answer>>
      PROVE  ReadersTyped'
  BY <1>1, <1>3 DEF Frames!Goto, ReadersTyped
<1>4. ASSUME NEW r \in Reader, Frames!Read(r) PROVE ReadersTyped'
  <2>1. PICK i \in Frames!Index : index' = [index EXCEPT ![r] = i]
    BY <1>4 DEF Frames!Read
  <2> QED BY <1>1, <1>4, <2>1 DEF Frames!Read, Frames!Goto, ReadersTyped
<1>5. ASSUME NEW r \in Reader, Frames!OutOfRange(r) \/ Frames!LoadFails(r) PROVE ReadersTyped'
  <2>1. Frames!Refuse(r) /\ UNCHANGED index
    BY <1>5 DEF Frames!OutOfRange, Frames!LoadFails
  <2>2. \E what \in {"nullopt", "throws"} : Frames!Answer(r, what)
    BY <2>1 DEF Frames!Refuse
  <2> QED BY <1>2, <2>1, <2>2
<1>6. ASSUME NEW r \in Reader, Frames!Hit(r) \/ Frames!Gone(r) PROVE ReadersTyped'
  <2>1. (\E what \in {"frame", "nullopt"} : Frames!Answer(r, what)) /\ UNCHANGED index
    BY <1>6 DEF Frames!Hit, Frames!Gone
  <2> QED BY <1>2, <2>1
<1>7. ASSUME NEW r \in Reader,
             \/ Frames!Enter(r) \/ Frames!Found(r)
             \/ Frames!Miss(r) \/ Frames!Load(r) \/ Frames!UpdateCache(r)
      PROVE  ReadersTyped'
  <2> DEFINE Labels == {"find", "load", "update", "insert", "answer", "find again", "move"}
  <2>1. CASE Frames!Enter(r)
    <3>1. Frames!Calls(pc[r]) \in Labels /\ Frames!Goto(r, Frames!Calls(pc[r]))
      BY <2>1, CallsFacts DEF Frames!Enter
    <3> QED BY <1>3, <2>1, <3>1 DEF Frames!Enter
  <2>2. CASE Frames!Found(r) \/ Frames!Miss(r) \/ Frames!Load(r) \/ Frames!UpdateCache(r)
    <3>1. (\E label \in Labels : Frames!Goto(r, label)) /\ UNCHANGED <<index, answer>>
      BY <2>2 DEF Frames!Found, Frames!Miss, Frames!Load, Frames!UpdateCache
    <3> QED BY <1>3, <3>1
  <2> QED BY <1>7, <2>1, <2>2
<1>8. ASSUME Frames!SetCacheSize \/ Frames!ClearCache PROVE ReadersTyped'
  BY <1>1, <1>8 DEF Frames!SetCacheSize, Frames!ClearCache, ReadersTyped
<1> QED BY <1>4, <1>5, <1>6, <1>7, <1>8 DEF Frames!Next, Frames!ReadStep

\* A reader that goes on as the code does brings only good frames to the cache.
LEMMA ReadsStayGood ==
  ASSUME Frames!CacheAssumption, Frames!TypeOK, ReadsGood, Frames!Next
  PROVE  ReadsGood'
<1>1. /\ ReadersTyped /\ DOMAIN pc = Reader /\ DOMAIN index = Reader
      /\ index \in [Reader -> Frames!Index] /\ NFrames \in Nat /\ frames \subseteq Frames!Good
  BY DEF Frames!TypeOK, Frames!CacheAssumption, ReadersTyped
<1> DEFINE Good(q, label, i) ==
             /\ label \in {"find", "load"} => i < NFrames
             /\ label \in {"update", "insert", "answer", "find again", "move"} => i \in Frames!Good
<1>2. \A q \in Reader : Good(q, pc[q], index[q])
  BY DEF ReadsGood
<1>3. ASSUME NEW r \in Reader, Frames!ReadStep(r), NEW q \in Reader, q # r
      PROVE  Good(q, pc'[q], index'[q])
  <2>1. pc'[q] = pc[q] /\ index'[q] = index[q]
    BY <1>1, <1>3 DEF Frames!ReadStep, Frames!Read, Frames!OutOfRange, Frames!Enter, Frames!Found,
       Frames!Hit, Frames!Miss, Frames!LoadFails, Frames!Load, Frames!UpdateCache, Frames!Gone, Frames!Refuse, Frames!Answer, Frames!Goto
  <2> QED BY <1>2, <2>1
<1>4. ASSUME NEW r \in Reader, Frames!ReadStep(r)
      PROVE  Good(r, pc'[r], index'[r])
  <2>1. CASE Frames!Read(r) \/ Frames!OutOfRange(r) \/ Frames!Hit(r) \/ Frames!LoadFails(r) \/ Frames!Gone(r)
    <3>1. pc'[r] \in {"idle", "lookup"}
      BY <1>1, <2>1 DEF Frames!Read, Frames!OutOfRange, Frames!Hit, Frames!LoadFails, Frames!Gone,
         Frames!Refuse, Frames!Answer, Frames!Goto
    <3> QED BY <3>1
  <2>2. CASE Frames!Miss(r)
    BY <1>1, <1>2, <2>2 DEF Frames!Miss, Frames!Goto
  <2>3. CASE Frames!Load(r)
    <3>1. pc'[r] = "update" /\ index'[r] = index[r] /\ index[r] < NFrames /\ index[r] \notin Corrupt
      BY <1>1, <1>2, <2>3 DEF Frames!Load, Frames!Goto, Frames!Readable
    <3>2. index[r] \in 0 .. NFrames
      BY <1>1 DEF Frames!Index
    <3>3. index[r] \in Frames!Good
      BY <1>1, <3>1, <3>2 DEF Frames!Good
    <3> QED BY <3>1, <3>3
  <2>4. CASE Frames!UpdateCache(r)
    BY <1>1, <1>2, <2>4 DEF Frames!UpdateCache, Frames!Goto
  <2>5. CASE Frames!Enter(r)
    <3>1. /\ index'[r] = index[r] /\ pc'[r] = Frames!Calls(pc[r])
          /\ pc[r] \in {"lookup", "answer", "update"} /\ (pc[r] = "lookup" => index[r] < NFrames)
      BY <1>1, <2>5 DEF Frames!Enter, Frames!Goto
    <3> QED BY <1>2, <3>1, CallsFacts
  <2>6. CASE Frames!Found(r)
    BY <1>1, <2>6 DEF Frames!Found, Frames!Goto
  <2> QED BY <1>4, <2>1, <2>2, <2>3, <2>4, <2>5, <2>6 DEF Frames!ReadStep
<1>5. ASSUME Frames!SetCacheSize \/ Frames!ClearCache PROVE ReadsGood'
  BY <1>5 DEF Frames!SetCacheSize, Frames!ClearCache, ReadsGood
<1>6. ASSUME NEW r \in Reader, Frames!ReadStep(r) PROVE ReadsGood'
  <2>1. \A q \in Reader : Good(q, pc'[q], index'[q])
    <3> HIDE DEF Good
    <3> QED BY <1>3, <1>4, <1>6
  <2> QED BY <2>1 DEF ReadsGood
<1> QED BY <1>5, <1>6 DEF Frames!Next

\* Where nobody races, a reader that has found a frame is alone with those that look
\* theirs up or are elsewhere: nobody takes the frame away.
LEMMA MovesStay ==
  ASSUME Frames!TypeOK, MovesItsFrame, Frames!Next
  PROVE  MovesItsFrame'
<1>1. /\ DOMAIN pc = Reader /\ ~Frames!Racing /\ \A q \in Reader : pc[q] = "move" => index[q] \in frames
  BY DEF Frames!TypeOK, MovesItsFrame, Frames!Next
<1>2. ASSUME NEW r \in Reader, Frames!ReadStep(r), NEW q \in Reader, pc'[q] = "move"
      PROVE  index'[q] \in frames'
  <2>1. CASE Frames!UpdateCache(r)
    <3>1. pc[r] = "insert" /\ pc[q] = "move" /\ q # r
      BY <1>1, <1>2, <2>1 DEF Frames!UpdateCache, Frames!Goto
    <3>2. {pc[r], pc[q]} \subseteq {"move", "insert"}
      BY <3>1
    <3> QED BY <1>1, <3>1, <3>2 DEF Frames!Racing
  <2>2. CASE Frames!Found(r)
    BY <1>1, <1>2, <2>2 DEF Frames!Found, Frames!Goto, Frames!cache_vars
  <2>3. CASE Frames!Enter(r)
    <3>1. pc'[r] # "move" /\ frames' = frames /\ index' = index
      BY <1>1, <2>3, CallsFacts DEF Frames!Enter, Frames!Goto, Frames!cache_vars
    <3> QED BY <1>1, <1>2, <2>3, <3>1 DEF Frames!Enter, Frames!Goto
  <2>4. CASE Frames!Read(r) \/ Frames!OutOfRange(r) \/ Frames!Hit(r) \/ Frames!Miss(r) \/ Frames!LoadFails(r)
             \/ Frames!Load(r) \/ Frames!Gone(r)
    <3>1. pc'[r] # "move" /\ frames' = frames /\ \A u \in Reader \ {r} : pc'[u] = pc[u] /\ index'[u] = index[u]
      BY <1>1, <2>4 DEF Frames!TypeOK, Frames!Read, Frames!OutOfRange, Frames!Hit, Frames!Miss, Frames!LoadFails,
         Frames!Load, Frames!Gone, Frames!Refuse, Frames!Answer, Frames!Goto, Frames!cache_vars
    <3> QED BY <1>1, <1>2, <3>1
  <2> QED BY <1>2, <2>1, <2>2, <2>3, <2>4 DEF Frames!ReadStep
<1>3. ASSUME Frames!SetCacheSize \/ Frames!ClearCache, NEW q \in Reader PROVE pc'[q] # "move"
  BY <1>3 DEF Frames!SetCacheSize, Frames!ClearCache, Frames!Quiet
<1> QED BY <1>2, <1>3 DEF Frames!Next, MovesItsFrame

\* The frames that are kept are as before, and every reader that waits for its answer was
\* waiting for it.
LEMMA FramesKept ==
  ASSUME FramesInv, UNCHANGED <<frames, lru_list, recent, max_cache_size, strict>>,
         ReadersTyped', ReadsGood', MovesItsFrame',
         \A r \in Reader :
           pc'[r] \in {"answer", "find again"} => pc[r] \in {"answer", "find again"} /\ index'[r] = index[r]
  PROVE  FramesInv'
<1>1. Frames!TypeOK'
  BY DEF FramesInv, Frames!TypeOK, ReadersTyped, Frames!Index, Frames!Good
<1>2. ListIsLatest' /\ LostWhenFull'
  BY DEF FramesInv, ListIsLatest, LostWhenFull, Distinct, Begins, Entries
<1> QED BY <1>1, <1>2 DEF FramesInv
LEMMA FramesSteps ==
  ASSUME Frames!CacheAssumption, FramesInv, [Frames!Next]_(Frames!vars)
  PROVE  FramesInv'
<1> DEFINE G == Frames!Good
<1>0. /\ max_cache_size \in Nat /\ lru_list \in Seq(G) /\ recent \in Seq(G) /\ Distinct(recent)
      /\ frames \subseteq G
      /\ Begins(lru_list, recent) /\ Entries(lru_list) = frames /\ Len(lru_list) <= max_cache_size
      /\ Frames!TypeOK
  BY DEF FramesInv, Frames!TypeOK, Frames!CacheAssumption, ListIsLatest
<1>6. ReadersTyped /\ DOMAIN pc = Reader /\ DOMAIN index = Reader /\ ReadsGood /\ MovesItsFrame
  BY DEF FramesInv, Frames!TypeOK, ReadersTyped
<1>1. Distinct(lru_list)
  BY <1>0, BeginsFacts
<1>2. IsFiniteSet(frames) /\ Cardinality(frames) = Len(lru_list)
  BY <1>0, <1>1, DistinctCount
<1>3. Len(lru_list) \in Nat
  BY <1>0
<1>4. ASSUME UNCHANGED Frames!vars PROVE FramesInv'
  <2>1. ReadersTyped' /\ ReadsGood' /\ MovesItsFrame'
    BY <1>4, <1>6 DEF Frames!vars, Frames!cache_vars, ReadersTyped, ReadsGood, MovesItsFrame,
       Frames!Racing
  <2> QED BY <1>4, <2>1, FramesKept DEF Frames!vars, Frames!cache_vars, Frames!config_vars
<1>5. ASSUME Frames!Next PROVE FramesInv'
  <2>0. ReadersTyped' /\ ReadsGood' /\ MovesItsFrame'
    BY <1>0, <1>5, <1>6, ReadersStayTyped, ReadsStayGood, MovesStay
  <2>1. ASSUME NEW r \in Reader,
               \/ Frames!Read(r) \/ Frames!OutOfRange(r) \/ Frames!Enter(r) \/ Frames!Found(r)
               \/ Frames!Miss(r) \/ Frames!LoadFails(r) \/ Frames!Load(r) \/ Frames!Gone(r)
        PROVE  FramesInv'
    <3>1. UNCHANGED <<frames, lru_list, recent, max_cache_size, strict>>
      BY <2>1 DEF Frames!Read, Frames!OutOfRange, Frames!Enter, Frames!Found, Frames!Miss, Frames!LoadFails,
         Frames!Load, Frames!Gone, Frames!cache_vars, Frames!config_vars
    <3>2. ASSUME NEW q \in Reader, pc'[q] \in {"answer", "find again"}
          PROVE  pc[q] \in {"answer", "find again"} /\ index'[q] = index[q]
      <4>1. CASE Frames!Enter(r)
        <5>1. index' = index /\ pc' = [pc EXCEPT ![r] = Frames!Calls(pc[r])] /\ pc[r] \in {"lookup", "answer", "update"}
          BY <4>1 DEF Frames!Enter, Frames!Goto
        <5> QED BY <1>6, <3>2, <5>1, CallsFacts
      <4>2. CASE ~Frames!Enter(r)
        BY <1>6, <2>1, <3>2, <4>2 DEF Frames!Read, Frames!OutOfRange, Frames!Found, Frames!Miss, Frames!LoadFails,
           Frames!Load, Frames!Gone, Frames!Refuse, Frames!Answer, Frames!Goto
      <4> QED BY <4>1, <4>2
    <3> QED BY <2>0, <3>1, <3>2, FramesKept
  \* What one frame in use, x, leaves: only the reader r, if any, is not where it was.
  <2>2. ASSUME NEW r \in Reader, NEW x \in G, x = index[r],
               recent' = Frames!ToFront(recent, x), UNCHANGED <<max_cache_size, strict, index>>,
               Frames!Evicting(frames \cup {x}, Frames!ToFront(lru_list, x), max_cache_size),
               \A q \in Reader :
                 pc'[q] \in {"answer", "find again"} => pc[q] \in {"answer", "find again"} \/ q = r
        PROVE  FramesInv'
    <3>1. /\ ListIsLatest' /\ recent' \in Seq(G) /\ lru_list' \in Seq(G) /\ frames' \subseteq G
          /\ IF Cardinality(frames \cup {x}) > max_cache_size
             THEN Len(lru_list') = max_cache_size
             ELSE lru_list' = Frames!ToFront(lru_list, x) /\ frames' = frames \cup {x}
      BY <2>2, UsedOrAdded
    <3>2. Frames!TypeOK'
      BY <1>0, <2>0, <2>2, <3>1 DEF Frames!TypeOK, ReadersTyped, Frames!Index, Frames!Good
    <3>3. ASSUME NEW q \in Reader, pc'[q] \in {"answer", "find again"}, index'[q] \notin frames'
          PROVE  Len(lru_list') = max_cache_size'
      <4>1. CASE Cardinality(frames \cup {x}) > max_cache_size
        BY <2>2, <3>1, <4>1
      <4>2. CASE ~(Cardinality(frames \cup {x}) > max_cache_size)
        <5>1. frames' = frames \cup {x} /\ lru_list' = Frames!ToFront(lru_list, x)
          BY <3>1, <4>2
        <5>2. index[q] \notin frames /\ q # r
          BY <2>2, <3>3, <5>1
        <5>3. Len(lru_list) = max_cache_size
          BY <2>2, <3>3, <5>2 DEF FramesInv, LostWhenFull
        <5>4. Len(lru_list') = Cardinality(frames \cup {x})
          <6> DEFINE l == Frames!ToFront(lru_list, x)
          <6>0. lru_list \in Seq(G) /\ Entries(lru_list) = frames /\ x \in G
            BY <1>0
          <6> HIDE DEF G
          <6>1. l \in Seq(G) /\ Entries(l) = frames \cup {x} /\ Distinct(l)
            BY <1>1, <6>0, ToFrontFacts
          <6> HIDE DEF l
          <6>2. Cardinality(frames \cup {x}) = Len(l)
            BY <6>1, DistinctCount
          <6> QED BY <5>1, <6>2 DEF l
        <5>5. Cardinality(frames \cup {x}) \in {Cardinality(frames), Cardinality(frames) + 1}
          BY <1>2, FS_AddElement
        <5>6. max_cache_size \in Nat /\ max_cache_size' = max_cache_size /\ Cardinality(frames) = max_cache_size
          BY <1>0, <1>2, <2>2, <5>3
        <5> QED BY <4>2, <5>4, <5>5, <5>6
      <4> QED BY <4>1, <4>2
    <3> QED BY <2>0, <3>1, <3>2, <3>3 DEF FramesInv, LostWhenFull
  <2>3. ASSUME NEW r \in Reader, Frames!Hit(r) PROVE FramesInv'
    <3>1. /\ index[r] \in frames /\ frames' = frames /\ lru_list' = Frames!ToFront(lru_list, index[r])
          /\ recent' = Frames!ToFront(recent, index[r])
          /\ UNCHANGED <<max_cache_size, strict, index>>
      BY <1>5, <1>6, <2>3 DEF Frames!Hit, Frames!Used, Frames!config_vars, MovesItsFrame, Frames!Next
    <3>2. frames \cup {index[r]} = frames /\ index[r] \in G
      BY <1>0, <3>1
    <3>3. Frames!Evicting(frames \cup {index[r]}, Frames!ToFront(lru_list, index[r]), max_cache_size)
      <4>1. ~(Frames!Cardinality(frames) > max_cache_size)
        <5>1. Frames!Cardinality(frames) = Cardinality(frames)
          BY FramesCardinality
        <5> QED BY <1>0, <1>2, <1>3, <5>1
      <4> QED BY <3>1, <3>2, <4>1 DEF Frames!Evicting
    <3>4. \A q \in Reader :
            pc'[q] \in {"answer", "find again"} => pc[q] \in {"answer", "find again"} \/ q = r
      BY <1>6, <2>3 DEF Frames!Hit, Frames!Answer, Frames!Goto
    <3> QED BY <2>2, <3>1, <3>2, <3>3, <3>4
  <2>4. ASSUME NEW r \in Reader, Frames!UpdateCache(r) PROVE FramesInv'
    <3>1. /\ pc[r] = "insert" /\ recent' = Frames!ToFront(recent, index[r])
          /\ Frames!Evicting(frames \cup {index[r]}, Frames!ToFront(lru_list, index[r]), max_cache_size)
          /\ UNCHANGED <<max_cache_size, strict, index>>
      BY <2>4 DEF Frames!UpdateCache, Frames!config_vars
    <3>2. index[r] \in G
      BY <1>6, <3>1 DEF ReadsGood
    <3>3. \A q \in Reader :
            pc'[q] \in {"answer", "find again"} => pc[q] \in {"answer", "find again"} \/ q = r
      BY <1>6, <2>4 DEF Frames!UpdateCache, Frames!Goto
    <3> HIDE DEF G
    <3> QED BY <2>2, <3>1, <3>2, <3>3
  <2>5. ASSUME Frames!SetCacheSize PROVE FramesInv'
    <3>1. PICK n \in CacheSizes : max_cache_size' = n /\ Frames!Evicting(frames, lru_list, n)
      BY <2>5 DEF Frames!SetCacheSize
    <3>2. n \in Nat
      BY DEF Frames!CacheAssumption
    <3>3. /\ UNCHANGED <<recent, strict, pc, index, answer>> /\ \A r \in Reader : pc[r] = "idle"
      BY <2>5 DEF Frames!SetCacheSize, Frames!Quiet
    <3>4. /\ lru_list' \in Seq(G) /\ Begins(lru_list', lru_list) /\ Entries(lru_list') = frames'
          /\ IF Len(lru_list) > n THEN Len(lru_list') = n ELSE lru_list' = lru_list
      BY <1>0, <1>1, <3>1, <3>2, Evicted
    <3>5. Begins(lru_list', recent) /\ Len(lru_list') <= n
      <4> HIDE DEF G
      <4> QED BY <1>0, <1>3, <3>2, <3>4, BeginsFacts
    <3>6. frames' \subseteq G
      <4>1. \A i \in DOMAIN lru_list' : lru_list'[i] \in G
        BY <3>4
      <4> QED BY <3>4, <4>1 DEF Entries
    <3>7. ListIsLatest'
      BY <1>0, <3>1, <3>3, <3>4, <3>5 DEF ListIsLatest, Distinct
    <3>8. Frames!TypeOK'
      BY <1>0, <2>0, <3>1, <3>3, <3>4, <3>6 DEF Frames!TypeOK, ReadersTyped, Frames!Index, Frames!Good
    <3> QED BY <2>0, <3>3, <3>7, <3>8 DEF FramesInv, LostWhenFull
  <2>6. ASSUME Frames!ClearCache PROVE FramesInv'
    <3>1. /\ frames' = {} /\ lru_list' = <<>> /\ recent' = <<>>
          /\ UNCHANGED <<max_cache_size, strict, pc, index, answer>> /\ \A r \in Reader : pc[r] = "idle"
      BY <2>6 DEF Frames!ClearCache, Frames!Quiet, Frames!config_vars
    <3>2. ListIsLatest'
      BY <1>0, <3>1 DEF ListIsLatest, Distinct, Begins, Entries
    <3>3. Frames!TypeOK'
      <4>1. frames' \subseteq Frames!Good' /\ lru_list' \in Seq(Frames!Good') /\ recent' \in Seq(Frames!Good')
        BY <3>1
      <4>2. /\ max_cache_size' \in CacheSizes \cup {DefaultSize} /\ strict' \in BOOLEAN
        BY <1>0, <3>1 DEF Frames!TypeOK
      <4> QED BY <2>0, <4>1, <4>2 DEF Frames!TypeOK, ReadersTyped
    <3> QED BY <2>0, <3>1, <3>2, <3>3 DEF FramesInv, LostWhenFull
  <2> QED BY <1>5, <2>1, <2>3, <2>4, <2>5, <2>6 DEF Frames!Next, Frames!ReadStep
<1> QED BY <1>4, <1>5

LEMMA FramesAnswer ==
  ASSUME Frames!CacheAssumption, FramesInv
  PROVE  Frames!ListMatchesCache /\ Frames!LatestKept /\ Frames!LostOnlyWhenOvertaken
<1> DEFINE G == Frames!Good
<1>0. /\ max_cache_size \in Nat /\ lru_list \in Seq(G) /\ recent \in Seq(G) /\ Distinct(recent)
      /\ Begins(lru_list, recent) /\ Entries(lru_list) = frames /\ Len(lru_list) <= max_cache_size
      /\ Frames!TypeOK /\ MovesItsFrame
  BY DEF FramesInv, Frames!TypeOK, Frames!CacheAssumption, ListIsLatest
<1>1. Frames!ToSet(lru_list) = frames
  BY <1>0 DEF Frames!ToSet, Entries
<1> HIDE DEF G
<1>2. Distinct(lru_list)
  BY <1>0, BeginsFacts
<1>3. Frames!Cardinality(frames) = Len(lru_list)
  BY <1>0, <1>2, DistinctCount, FramesCardinality
<1>4. Frames!ListMatchesCache
  BY <1>0, <1>1, <1>3 DEF Frames!ListMatchesCache, MovesItsFrame
<1>5. Frames!LatestKept
  BY <1>0, PrefixBegins DEF Frames!LatestKept
<1>6. ASSUME NEW r \in Reader, pc[r] \in {"answer", "find again"}, index[r] \notin frames
      PROVE  index[r] \notin Frames!ToSet(SubSeq(recent, 1, max_cache_size))
  <2>1. Len(lru_list) = max_cache_size
    BY <1>6 DEF FramesInv, LostWhenFull
  <2> DEFINE first == SubSeq(recent, 1, max_cache_size)
  <2>2. /\ Len(recent) \in Nat /\ max_cache_size <= Len(recent)
        /\ DOMAIN first = 1 .. max_cache_size /\ \A i \in 1 .. max_cache_size : first[i] = lru_list[i]
        /\ DOMAIN lru_list = 1 .. max_cache_size
    BY <1>0, <2>1 DEF Begins
  <2> HIDE DEF first
  <2>3. Frames!ToSet(first) = Entries(lru_list)
    BY <2>2 DEF Frames!ToSet, Entries
  <2> QED BY <1>0, <1>6, <2>3 DEF first
<1> QED BY <1>4, <1>5, <1>6 DEF Frames!LostOnlyWhenOvertaken

-------------------------------------------------------------------------------
(* Nearest-neighbour objects that extractors share                         *)

\* No pointer is no extractor, object or cloud.
NoneIsNothing == NoPointer \notin Extractor \cup Knn \cup Cloud

IndexTyped ==
  /\ m_cloud \in [Extractor -> Cloud \cup {NoPointer}]
  /\ m_knn \in [Extractor -> Knn \cup {NoPointer}]
  /\ m_data \in [Knn -> Cloud \cup {NoPointer}] /\ m_kdtree \in [Knn -> Cloud \cup {NoPointer}]
  /\ m_use_runtime_metric \in [Knn -> BOOLEAN]
  /\ alone \subseteq Extractor /\ ordered \subseteq Extractor

\* A tree that is asked was built from the data.
TreeIsCurrent ==
  \A k \in Knn :
    k \in KdTrees /\ ~m_use_runtime_metric[k] /\ m_data[k] \notin {NoPointer, EmptyCloud}
      => m_kdtree[k] = m_data[k]

\* What an extractor may count on.
CountsOn(u) == u \in alone /\ (Kind[u] = "normals" \/ (Kind[u] = "keypoints" /\ u \in ordered))

AloneHasObject == \A u \in alone : m_knn[u] \in Knn

\* An extractor that counts on its object finds its own cloud there.
OwnCloudInside ==
  \A u \in Extractor : CountsOn(u) /\ m_cloud[u] # NoPointer => m_data[m_knn[u]] = m_cloud[u]

IndexInv ==
  IndexTyped /\ TreeIsCurrent /\ AloneHasObject /\ OwnCloudInside /\ Trees!AsksAboutItsCloud

LEMMA AnswerIsTree ==
  ASSUME IndexTyped, TreeIsCurrent, NEW k \in Knn
  PROVE  Trees!Answer(m_data, m_kdtree, k) = Trees!Tree(m_data[k])
BY DEF TreeIsCurrent, Trees!Answer, Trees!Tree, IndexTyped

\* Putting a cloud into an object.
LEMMA Filling ==
  ASSUME IndexTyped, TreeIsCurrent, NEW k \in Knn, NEW cloud \in Cloud \cup {NoPointer}, Trees!Fill(k, cloud)
  PROVE  /\ m_data' \in [Knn -> Cloud \cup {NoPointer}] /\ m_kdtree' \in [Knn -> Cloud \cup {NoPointer}]
         /\ m_use_runtime_metric' \in [Knn -> BOOLEAN]
         /\ TreeIsCurrent' /\ m_data'[k] = cloud
         /\ \A j \in Knn : j # k => m_data'[j] = m_data[j]
<1>1. /\ m_data' = [m_data EXCEPT ![k] = cloud]
      /\ m_kdtree' = [m_kdtree EXCEPT
           ![k] = IF k \in KdTrees /\ ~m_use_runtime_metric[k] THEN Trees!Tree(cloud) ELSE @]
      /\ m_use_runtime_metric' = m_use_runtime_metric
  BY DEF Trees!Fill
<1>2. Trees!Tree(cloud) \in Cloud \cup {NoPointer}
  BY DEF Trees!Tree
<1>3. m_data' \in [Knn -> Cloud \cup {NoPointer}] /\ m_kdtree' \in [Knn -> Cloud \cup {NoPointer}]
  BY <1>1, <1>2 DEF IndexTyped
<1>4. /\ m_data'[k] = cloud /\ \A j \in Knn : j # k => m_data'[j] = m_data[j] /\ m_kdtree'[j] = m_kdtree[j]
      /\ k \in KdTrees /\ ~m_use_runtime_metric[k] => m_kdtree'[k] = Trees!Tree(cloud)
  BY <1>1, <1>2 DEF IndexTyped
<1>5. TreeIsCurrent'
  BY <1>1, <1>4 DEF TreeIsCurrent, Trees!Tree
<1> QED BY <1>1, <1>3, <1>4, <1>5 DEF IndexTyped

LEMMA IndexStarts == Trees!Init => IndexInv
BY DEF Trees!Init, IndexInv, IndexTyped, TreeIsCurrent, AloneHasObject, OwnCloudInside, CountsOn,
   Trees!AsksAboutItsCloud, Trees!NoQuery

\* A step of one object by its owner: whoever holds it has it no longer alone.
LEMMA SetDataKeeps ==
  ASSUME NoneIsNothing, IndexInv, NEW k \in Knn, NEW cloud \in Cloud, Trees!SetData(k, cloud)
  PROVE  IndexInv'
<1>0. IndexTyped /\ TreeIsCurrent /\ cloud # NoPointer /\ NoPointer \notin Extractor
  BY DEF IndexInv, NoneIsNothing
<1>1. /\ UNCHANGED <<m_cloud, m_knn, m_normals, ordered>> /\ last' = Trees!NoQuery
      /\ alone' = {v \in alone : v = NoPointer \/ m_knn[v] # k}
  BY DEF Trees!SetData, Trees!user_vars, Trees!Disturb
<1>2. /\ m_data' \in [Knn -> Cloud \cup {NoPointer}] /\ m_kdtree' \in [Knn -> Cloud \cup {NoPointer}]
      /\ m_use_runtime_metric' \in [Knn -> BOOLEAN]
      /\ TreeIsCurrent'
      /\ \A j \in Knn : j # k => m_data'[j] = m_data[j]
  <2>1. CASE Trees!Fill(k, cloud)
    BY <1>0, <2>1, Filling
  <2>2. CASE /\ m_data' = [m_data EXCEPT ![k] = cloud]
             /\ m_kdtree' = [m_kdtree EXCEPT
                  ![k] = IF k \in KdTrees /\ ~m_use_runtime_metric[k] /\ cloud # EmptyCloud
                         THEN Trees!Tree(cloud) ELSE @]
             /\ m_use_runtime_metric' = m_use_runtime_metric
    <3>1. Trees!Tree(cloud) \in Cloud \cup {NoPointer}
      BY DEF Trees!Tree
    <3>2. m_data' \in [Knn -> Cloud \cup {NoPointer}] /\ m_kdtree' \in [Knn -> Cloud \cup {NoPointer}]
      BY <1>0, <2>2, <3>1 DEF IndexTyped
    <3>3. /\ m_data'[k] = cloud
          /\ \A j \in Knn : j # k => m_data'[j] = m_data[j] /\ m_kdtree'[j] = m_kdtree[j]
          /\ k \in KdTrees /\ ~m_use_runtime_metric[k] /\ cloud # EmptyCloud => m_kdtree'[k] = Trees!Tree(cloud)
      BY <1>0, <2>2, <3>1 DEF IndexTyped
    <3>4. TreeIsCurrent'
      BY <1>0, <2>2, <3>3 DEF TreeIsCurrent, Trees!Tree
    <3> QED BY <1>0, <2>2, <3>2, <3>3, <3>4 DEF IndexTyped
  <2> QED BY <2>1, <2>2 DEF Trees!SetData
<1>3. IndexTyped'
  BY <1>0, <1>1, <1>2 DEF IndexTyped
<1>4. \A v \in alone' : v \in alone /\ m_knn[v] # k
  BY <1>0, <1>1 DEF IndexTyped
<1>5. AloneHasObject'
  BY <1>1, <1>4 DEF IndexInv, AloneHasObject
<1>6. OwnCloudInside'
  BY <1>1, <1>2, <1>4 DEF IndexInv, OwnCloudInside, CountsOn, AloneHasObject
<1>7. Trees!AsksAboutItsCloud'
  BY <1>1 DEF Trees!AsksAboutItsCloud, Trees!NoQuery
<1> QED BY <1>2, <1>3, <1>5, <1>6, <1>7 DEF IndexInv

LEMMA SetMetricKeeps ==
  ASSUME IndexInv, NEW k \in Knn, Trees!SetMetric(k) \/ Trees!SetRuntimeMetric(k)
  PROVE  IndexInv'
<1>0. IndexTyped /\ TreeIsCurrent
  BY DEF IndexInv
<1>1. UNCHANGED <<m_cloud, m_knn, m_normals, m_data, alone, ordered>> /\ last' = Trees!NoQuery
  BY DEF Trees!SetMetric, Trees!SetRuntimeMetric, Trees!user_vars, Trees!ghost_vars
<1>2. /\ m_kdtree' \in [Knn -> Cloud \cup {NoPointer}] /\ m_use_runtime_metric' \in [Knn -> BOOLEAN]
      /\ TreeIsCurrent'
  <2>1. CASE Trees!SetRuntimeMetric(k)
    <3>1. m_kdtree' = m_kdtree /\ m_use_runtime_metric' = [m_use_runtime_metric EXCEPT ![k] = TRUE]
      BY <2>1 DEF Trees!SetRuntimeMetric
    <3> QED BY <1>0, <1>1, <3>1 DEF IndexTyped, TreeIsCurrent
  <2>2. CASE Trees!SetMetric(k)
    <3>1. /\ m_use_runtime_metric' = [m_use_runtime_metric EXCEPT ![k] = FALSE]
          /\ m_kdtree' = [m_kdtree EXCEPT
               ![k] = IF k \in KdTrees /\ m_data[k] \notin {NoPointer, EmptyCloud}
                      THEN Trees!Tree(m_data[k]) ELSE @]
      BY <2>2 DEF Trees!SetMetric
    <3>2. Trees!Tree(m_data[k]) \in Cloud \cup {NoPointer}
      BY <1>0 DEF Trees!Tree, IndexTyped
    <3>3. m_kdtree' \in [Knn -> Cloud \cup {NoPointer}] /\ m_use_runtime_metric' \in [Knn -> BOOLEAN]
      BY <1>0, <3>1, <3>2 DEF IndexTyped
    <3>4. /\ \A j \in Knn : j # k => m_kdtree'[j] = m_kdtree[j] /\ m_use_runtime_metric'[j] = m_use_runtime_metric[j]
          /\ k \in KdTrees /\ m_data[k] \notin {NoPointer, EmptyCloud} => m_kdtree'[k] = Trees!Tree(m_data[k])
      BY <1>0, <3>1, <3>2 DEF IndexTyped
    <3> QED BY <1>0, <1>1, <3>3, <3>4 DEF TreeIsCurrent, Trees!Tree
  <2> QED BY <2>1, <2>2
<1>3. AloneHasObject' /\ OwnCloudInside'
  BY <1>1 DEF IndexInv, AloneHasObject, OwnCloudInside, CountsOn
<1> QED BY <1>0, <1>1, <1>2, <1>3 DEF IndexInv, IndexTyped, Trees!AsksAboutItsCloud, Trees!NoQuery
LEMMA SetInputKeeps ==
  ASSUME NoneIsNothing, IndexInv, NEW u \in Extractor, NEW cloud \in Cloud, Trees!SetInput(u, cloud)
  PROVE  IndexInv'
<1>0. IndexTyped /\ TreeIsCurrent /\ AloneHasObject
  BY DEF IndexInv
<1>1. /\ m_cloud' = [m_cloud EXCEPT ![u] = cloud] /\ ordered' = ordered \ {u}
      /\ last' = Trees!NoQuery /\ UNCHANGED <<m_knn, m_normals>>
  BY DEF Trees!SetInput
<1>2. /\ m_cloud' \in [Extractor -> Cloud \cup {NoPointer}] /\ m_cloud'[u] = cloud
      /\ \A v \in Extractor : v # u => m_cloud'[v] = m_cloud[v]
  BY <1>0, <1>1 DEF IndexTyped
<1>3. Trees!AsksAboutItsCloud'
  BY <1>1 DEF Trees!AsksAboutItsCloud, Trees!NoQuery
<1>4. CASE Kind[u] = "normals" /\ m_knn[u] # NoPointer
  <2> DEFINE k == m_knn[u]
  <2>1. k \in Knn /\ Trees!Fill(k, cloud) /\ alone' = {v \in alone : v = u \/ m_knn[v] # k}
    BY <1>0, <1>4 DEF Trees!SetInput, Trees!Disturb, IndexTyped
  <2>2. /\ m_data' \in [Knn -> Cloud \cup {NoPointer}] /\ m_kdtree' \in [Knn -> Cloud \cup {NoPointer}]
        /\ m_use_runtime_metric' \in [Knn -> BOOLEAN]
        /\ TreeIsCurrent' /\ m_data'[k] = cloud
        /\ \A j \in Knn : j # k => m_data'[j] = m_data[j]
    BY <1>0, <2>1, Filling
  <2>3. \A v \in alone' : v \in alone /\ (v = u \/ m_knn[v] # k)
    BY <2>1
  <2>4. IndexTyped' /\ AloneHasObject'
    BY <1>0, <1>1, <1>2, <2>2, <2>3 DEF IndexTyped, AloneHasObject
  <2>5. OwnCloudInside'
    BY <1>0, <1>1, <1>2, <2>2, <2>3 DEF IndexInv, OwnCloudInside, CountsOn, AloneHasObject
  <2> QED BY <1>3, <2>2, <2>4, <2>5 DEF IndexInv
<1>5. CASE ~(Kind[u] = "normals" /\ m_knn[u] # NoPointer)
  <2>1. UNCHANGED <<m_data, m_kdtree, m_use_runtime_metric, alone>>
    BY <1>5 DEF Trees!SetInput, Trees!knn_vars
  <2>2. ~CountsOn(u)'
    <3>1. u \in alone => m_knn[u] # NoPointer
      BY <1>0 DEF AloneHasObject, NoneIsNothing
    <3> QED BY <1>1, <1>5, <2>1, <3>1 DEF CountsOn
  <2>3. OwnCloudInside'
    BY <1>1, <1>2, <2>1, <2>2 DEF IndexInv, OwnCloudInside, CountsOn
  <2>4. IndexTyped' /\ TreeIsCurrent' /\ AloneHasObject'
    BY <1>0, <1>1, <1>2, <2>1 DEF IndexTyped, TreeIsCurrent, AloneHasObject
  <2> QED BY <1>3, <2>3, <2>4 DEF IndexInv
<1> QED BY <1>4, <1>5

LEMMA SetKnnKeeps ==
  ASSUME NoneIsNothing, IndexInv, NEW u \in Extractor, NEW k \in Knn, Trees!SetKnn(u, k)
  PROVE  IndexInv'
<1>0. IndexTyped /\ TreeIsCurrent /\ AloneHasObject
  BY DEF IndexInv
<1>1. /\ m_knn' = [m_knn EXCEPT ![u] = k] /\ last' = Trees!NoQuery /\ UNCHANGED <<m_cloud, m_normals>>
      /\ alone' = {v \in alone : m_knn[v] # k} \cup {u}
      /\ ordered' = IF m_cloud[u] = NoPointer THEN ordered \ {u} ELSE ordered \cup {u}
  BY DEF Trees!SetKnn
<1>2. /\ m_knn' \in [Extractor -> Knn \cup {NoPointer}] /\ m_knn'[u] = k
      /\ \A v \in Extractor : v # u => m_knn'[v] = m_knn[v]
  BY <1>0, <1>1 DEF IndexTyped
<1>3. /\ m_data' \in [Knn -> Cloud \cup {NoPointer}] /\ m_kdtree' \in [Knn -> Cloud \cup {NoPointer}]
      /\ m_use_runtime_metric' \in [Knn -> BOOLEAN] /\ TreeIsCurrent'
      /\ Kind[u] # "context" /\ m_cloud[u] # NoPointer => m_data'[k] = m_cloud[u]
      /\ \A j \in Knn : j # k => m_data'[j] = m_data[j]
  <2>1. CASE Kind[u] # "context" /\ m_cloud[u] # NoPointer
    <3>1. Trees!Fill(k, m_cloud[u]) /\ m_cloud[u] \in Cloud \cup {NoPointer}
      BY <1>0, <2>1 DEF Trees!SetKnn, IndexTyped
    <3> QED BY <1>0, <3>1, Filling
  <2>2. CASE ~(Kind[u] # "context" /\ m_cloud[u] # NoPointer)
    <3>1. UNCHANGED <<m_data, m_kdtree, m_use_runtime_metric>>
      BY <2>2 DEF Trees!SetKnn, Trees!knn_vars
    <3> QED BY <1>0, <2>2, <3>1 DEF IndexTyped, TreeIsCurrent
  <2> QED BY <2>1, <2>2
<1>4. \A v \in alone' : v = u \/ (v \in alone /\ m_knn[v] # k)
  BY <1>1
<1>5. IndexTyped'
  <2>1. alone' \subseteq Extractor /\ ordered' \subseteq Extractor
    BY <1>0, <1>1 DEF IndexTyped
  <2> QED BY <1>0, <1>1, <1>2, <1>3, <2>1 DEF IndexTyped
<1>6. AloneHasObject'
  BY <1>0, <1>2, <1>4 DEF IndexTyped, AloneHasObject
<1>7. OwnCloudInside'
  <2> SUFFICES ASSUME NEW v \in Extractor, CountsOn(v)', m_cloud[v] # NoPointer
               PROVE  m_data'[m_knn'[v]] = m_cloud[v]
    BY <1>1 DEF OwnCloudInside
  <2>1. CASE v = u
    BY <1>2, <1>3, <2>1 DEF CountsOn
  <2>2. CASE v # u
    <3>1. v \in alone /\ m_knn[v] # k /\ m_knn[v] \in Knn /\ m_knn'[v] = m_knn[v]
      BY <1>0, <1>2, <1>4, <2>2 DEF CountsOn, AloneHasObject
    <3>2. CountsOn(v)
      BY <1>1, <2>2, <3>1 DEF CountsOn
    <3> QED BY <1>3, <3>1, <3>2 DEF IndexInv, OwnCloudInside
  <2> QED BY <2>1, <2>2
<1> QED BY <1>1, <1>3, <1>5, <1>6, <1>7 DEF IndexInv, Trees!AsksAboutItsCloud, Trees!NoQuery

\* A query of the cloud that was set.
LEMMA ExtractKeeps ==
  ASSUME IndexInv, NEW u \in Extractor, Trees!Extract(u)
  PROVE  IndexInv'
<1>0. IndexTyped /\ TreeIsCurrent
  BY DEF IndexInv
<1>1. /\ Kind[u] \in {"keypoints", "normals"} /\ m_cloud[u] # NoPointer /\ m_knn[u] # NoPointer
      /\ last' = [about |-> m_cloud[u], answer |-> Trees!Answer(m_data, m_kdtree, m_knn[u]),
                  owed |-> u \in alone /\ (Kind[u] = "normals" \/ u \in ordered)]
      /\ UNCHANGED <<m_cloud, m_knn, m_normals, m_data, m_kdtree, m_use_runtime_metric, alone, ordered>>
  BY DEF Trees!Extract, Trees!user_vars, Trees!knn_vars, Trees!ghost_vars
<1>2. m_knn[u] \in Knn
  BY <1>0, <1>1 DEF IndexTyped
<1>3. last'.owed => last'.answer = Trees!Tree(last'.about)
  <2>1. /\ last'.about = m_cloud[u] /\ last'.answer = Trees!Tree(m_data[m_knn[u]])
        /\ last'.owed = (u \in alone /\ (Kind[u] = "normals" \/ u \in ordered))
    BY <1>0, <1>1, <1>2, AnswerIsTree
  <2>2. last'.owed => CountsOn(u)
    BY <1>1, <2>1 DEF CountsOn
  <2> QED BY <1>1, <2>1, <2>2 DEF IndexInv, OwnCloudInside
<1>4. Trees!AsksAboutItsCloud'
  BY <1>3 DEF Trees!AsksAboutItsCloud, Trees!Tree
<1> QED BY <1>1, <1>4 DEF IndexInv, IndexTyped, TreeIsCurrent, AloneHasObject, OwnCloudInside, CountsOn

\* A descriptor that computes its normals fills the object with the cloud it is asked about.
LEMMA ComputeKeeps ==
  ASSUME NoneIsNothing, IndexInv, NEW u \in Extractor, NEW cloud \in Cloud, Trees!Compute(u, cloud)
  PROVE  IndexInv'
<1>0. IndexTyped /\ TreeIsCurrent /\ AloneHasObject
  BY DEF IndexInv
<1>1. /\ Kind[u] \in {"local", "context"} /\ m_knn[u] # NoPointer
      /\ last' = [about |-> cloud, answer |-> Trees!Answer(m_data', m_kdtree', m_knn[u]),
                  owed |-> ~m_normals[u]]
      /\ UNCHANGED <<m_cloud, m_knn, m_normals, ordered>>
  BY DEF Trees!Compute, Trees!user_vars
<1> DEFINE k == m_knn[u]
<1>2. k \in Knn
  BY <1>0, <1>1 DEF IndexTyped
<1>3. CASE m_normals[u]
  <2>1. UNCHANGED <<m_data, m_kdtree, m_use_runtime_metric, alone>>
    BY <1>3 DEF Trees!Compute, Trees!knn_vars
  <2>2. ~last'.owed
    BY <1>1, <1>3
  <2>3. Trees!AsksAboutItsCloud'
    BY <2>2 DEF Trees!AsksAboutItsCloud
  <2> QED BY <1>0, <1>1, <2>1, <2>3
        DEF IndexInv, IndexTyped, TreeIsCurrent, AloneHasObject, OwnCloudInside, CountsOn
<1>4. CASE ~m_normals[u]
  <2>1. Trees!Fill(k, cloud) /\ alone' = {v \in alone : v = u \/ m_knn[v] # k}
    BY <1>4 DEF Trees!Compute, Trees!Disturb
  <2> HIDE DEF k
  <2>2. /\ m_data' \in [Knn -> Cloud \cup {NoPointer}] /\ m_kdtree' \in [Knn -> Cloud \cup {NoPointer}]
        /\ m_use_runtime_metric' \in [Knn -> BOOLEAN]
        /\ TreeIsCurrent' /\ m_data'[k] = cloud
        /\ \A j \in Knn : j # k => m_data'[j] = m_data[j]
    BY <1>0, <1>2, <2>1, Filling
  <2>3. \A v \in alone' : v \in alone /\ (v = u \/ m_knn[v] # k)
    BY <2>1
  <2>4. IndexTyped' /\ AloneHasObject'
    BY <1>0, <1>1, <2>2, <2>3 DEF IndexTyped, AloneHasObject
  <2>5. OwnCloudInside'
    BY <1>0, <1>1, <2>2, <2>3 DEF IndexInv, OwnCloudInside, CountsOn, AloneHasObject
  <2>6. Trees!Answer(m_data', m_kdtree', k) = Trees!Tree(cloud)
    BY <1>0, <1>2, <2>1, <2>2 DEF Trees!Answer, Trees!Tree, Trees!Fill, IndexTyped
  <2>7. last'.answer = Trees!Tree(cloud) /\ last'.about = cloud
    BY <1>1, <2>6 DEF k
  <2>8. Trees!AsksAboutItsCloud'
    BY <2>7 DEF Trees!AsksAboutItsCloud, Trees!Tree
  <2> QED BY <2>2, <2>4, <2>5, <2>8 DEF IndexInv
<1> QED BY <1>3, <1>4

LEMMA IndexKeeps ==
  ASSUME NoneIsNothing, IndexInv, [Trees!Next]_(Trees!vars)
  PROVE  IndexInv'
<1>1. ASSUME UNCHANGED Trees!vars PROVE IndexInv'
  BY <1>1 DEF Trees!vars, Trees!user_vars, Trees!knn_vars, Trees!ghost_vars, IndexInv, IndexTyped,
     TreeIsCurrent, AloneHasObject, OwnCloudInside, CountsOn, Trees!AsksAboutItsCloud, Trees!Tree
<1>2. ASSUME NEW u \in Extractor, Trees!SetNormals(u) PROVE IndexInv'
  <2>1. /\ m_normals' = [m_normals EXCEPT ![u] = TRUE] /\ last' = Trees!NoQuery
        /\ UNCHANGED <<m_cloud, m_knn, m_data, m_kdtree, m_use_runtime_metric, alone, ordered>>
    BY <1>2 DEF Trees!SetNormals, Trees!knn_vars, Trees!ghost_vars
  <2> QED BY <2>1 DEF IndexInv, IndexTyped, TreeIsCurrent, AloneHasObject, OwnCloudInside, CountsOn,
          Trees!AsksAboutItsCloud, Trees!NoQuery
<1> QED BY <1>1, <1>2, SetInputKeeps, ComputeKeeps, SetKnnKeeps, ExtractKeeps, SetDataKeeps,
        SetMetricKeeps DEF Trees!Next

-------------------------------------------------------------------------------
(* The sorters                                                             *)

\* Without sub-sorters every weighted sum is 0.
LEMMA NoWeights ==
  ASSUME NEW w, DOMAIN w = {}, NEW asked, NEW list
  PROVE  Ranks!Weighted(w, asked, list) = Ranks!Zeros(list)
<1>1. \A i \in DOMAIN list :
        Ranks!FoldFunction(LAMBDA k, sum : sum + (w[k] * asked[k][i]) \div 12, 0, [k \in DOMAIN w |-> k]) = 0
  <2> SUFFICES ASSUME NEW i \in DOMAIN list
               PROVE  Ranks!FoldFunction(LAMBDA k, sum : sum + (w[k] * asked[k][i]) \div 12, 0,
                                         [k \in DOMAIN w |-> k]) = 0
    OBVIOUS
  <2> QED BY DEF Ranks!FoldFunction, Ranks!FoldFunctionOnSet, Ranks!MapThenFoldSet
<1> QED BY <1>1 DEF Ranks!Weighted, Ranks!Zeros
\* The scores that a sorter computes of a list.
FreshOf(s, list) ==
  IF s = "sub" THEN Ranks!SubScores(list)
  ELSE {Ranks!Combined(asked, list) : asked \in Ranks!Asked(list)}

LEMMA FreshIs == \A s : Ranks!Fresh(s) = FreshOf(s, m_correspondences[s])
BY DEF Ranks!Fresh, FreshOf

Ranking(s, scores, indices) ==
  scores \in FreshOf(s, m_correspondences[s]) /\ indices \in Ranks!Rankings(scores)

OnSorters(f) == f = [s \in Ranks!Sorter |-> f[s]]

SorterTyped ==
  /\ OnSorters(m_correspondences) /\ OnSorters(m_clouds)
  /\ OnSorters(m_scores) /\ OnSorters(m_indices) /\ m_cached \in [Ranks!Sorter -> BOOLEAN]
  /\ \E S : weights \in Seq(S)

\* A sorter that has a ranking and was not overtaken by a change of its sub-sorter.
Current(s) == Ranks!Accepts(s) /\ ~(s = "combined" /\ behind)

\* What is kept is what would be computed.
KeptIsFresh ==
  \A s \in Ranks!Sorter : m_cached[s] /\ Current(s) => Ranking(s, m_scores[s], m_indices[s])

LastIsFresh ==
  /\ ranked # Ranks!None => ranked.sorter \in Ranks!Sorter
  /\ ranked # Ranks!None /\ Current(ranked.sorter) => Ranking(ranked.sorter, ranked.scores, ranked.indices)

SorterInv == SorterTyped /\ KeptIsFresh /\ LastIsFresh

LEMMA SortersStart == Ranks!Init => SorterInv
<1> SUFFICES ASSUME Ranks!Init PROVE SorterInv
  OBVIOUS
<1>1. weights \in Seq({}) /\ ranked = Ranks!None
  BY DEF Ranks!Init
<1>2. /\ m_correspondences = [s \in Ranks!Sorter |-> <<>>] /\ m_clouds = [s \in Ranks!Sorter |-> FALSE]
      /\ m_cached = [s \in Ranks!Sorter |-> FALSE]
      /\ m_scores = [s \in Ranks!Sorter |-> <<>>] /\ m_indices = [s \in Ranks!Sorter |-> <<>>]
  BY DEF Ranks!Init
<1>3. SorterTyped
  BY <1>1, <1>2 DEF SorterTyped, OnSorters
<1> QED BY <1>1, <1>2, <1>3 DEF SorterInv, KeptIsFresh, LastIsFresh

\* What the sub-sorter computes depends on its settings only, what the combined one
\* computes also on the weights.
SettingsStay == UNCHANGED <<kind, invert, normalize, threshold, function>>

LEMMA SameFresh ==
  ASSUME SettingsStay, NEW s, s = "sub" \/ weights' = weights, NEW list
  PROVE  FreshOf(s, list)' = FreshOf(s, list)
<1>1. Ranks!SubScores(list)' = Ranks!SubScores(list)
  BY DEF SettingsStay, Ranks!SubScores, Ranks!DistanceScores, Ranks!CustomScores
<1>2. CASE s = "sub"
  BY <1>1, <1>2 DEF FreshOf
<1>3. CASE s # "sub" /\ weights' = weights
  <2>1. Ranks!Asked(list)' = Ranks!Asked(list)
    BY <1>1, <1>3 DEF Ranks!Asked
  <2>2. \A asked : Ranks!Combined(asked, list)' = Ranks!Combined(asked, list)
    BY <1>3 DEF Ranks!Combined
  <2> QED BY <1>3, <2>1, <2>2 DEF FreshOf
<1> QED BY <1>2, <1>3
\* A setter of sorter s, which forgets its ranking: the other one must still be fresh.
SetsOnly(s) ==
  /\ OnSorters(m_correspondences') /\ OnSorters(m_clouds')
  /\ \A o \in Ranks!Sorter \ {s} : m_correspondences'[o] = m_correspondences[o] /\ m_clouds'[o] = m_clouds[o]

Forgets(s) ==
  /\ m_cached' = [m_cached EXCEPT ![s] = FALSE]
  /\ m_scores' = [m_scores EXCEPT ![s] = <<>>] /\ m_indices' = [m_indices EXCEPT ![s] = <<>>]
  /\ ranked' = Ranks!None

LEMMA SetterForgets == \A s : Ranks!SetUp(s) => Forgets(s) /\ UNCHANGED kind
BY DEF Ranks!SetUp, Ranks!Uncache, Ranks!Uncached, Forgets

LEMMA SetterKeeps ==
  ASSUME SorterInv, NEW s \in Ranks!Sorter, Forgets(s), SetsOnly(s), \E S : weights' \in Seq(S),
         \/ s = "combined" /\ SettingsStay
         \/ s = "sub" /\ weights' = weights /\ SettingsStay /\ (behind => behind')
         \/ s = "sub" /\ behind' = m_cached["combined"]
  PROVE  SorterInv'
<1>0. SorterTyped /\ KeptIsFresh
  BY DEF SorterInv
<1>1. /\ m_cached' \in [Ranks!Sorter -> BOOLEAN] /\ OnSorters(m_scores') /\ OnSorters(m_indices')
      /\ m_cached'[s] = FALSE
      /\ \A o \in Ranks!Sorter \ {s} : /\ m_cached'[o] = m_cached[o] /\ m_scores'[o] = m_scores[o]
                                       /\ m_indices'[o] = m_indices[o]
  BY <1>0 DEF Forgets, SorterTyped, OnSorters
<1>2. SorterTyped'
  BY <1>1 DEF SetsOnly, SorterTyped, OnSorters
<1>3. ASSUME NEW o \in Ranks!Sorter, m_cached'[o], Current(o)'
      PROVE  Ranking(o, m_scores[o], m_indices[o])' /\ m_scores'[o] = m_scores[o] /\ m_indices'[o] = m_indices[o]
  <2>1. o # s /\ m_cached[o] /\ m_cached[o] = m_cached'[o]
    BY <1>1, <1>3
  <2>2. m_correspondences'[o] = m_correspondences[o] /\ m_clouds'[o] = m_clouds[o]
    BY <2>1 DEF SetsOnly
  <2>3. PICK list : list = m_correspondences[o]
    OBVIOUS
  <2>4. Current(o) /\ FreshOf(o, list)' = FreshOf(o, list)
    <3>1. CASE s = "combined" /\ SettingsStay
      <4>1. o = "sub"
        BY <2>1, <3>1 DEF Ranks!Sorter
      <4>2. Current(o)
        BY <1>3, <2>2, <3>1, <4>1 DEF Current, Ranks!Accepts, Ranks!HasCorrespondences, Ranks!SubAccepts, SettingsStay
      <4> QED BY <3>1, <4>1, <4>2, SameFresh
    <3>2. CASE s = "sub" /\ weights' = weights /\ SettingsStay /\ (behind => behind')
      <4>1. o = "combined"
        BY <2>1, <3>2 DEF Ranks!Sorter
      <4>2. Current(o)
        BY <1>3, <2>2, <3>2, <4>1 DEF Current, Ranks!Accepts, Ranks!HasCorrespondences
      <4> QED BY <3>2, <4>2, SameFresh
    <3>3. CASE s = "sub" /\ behind' = m_cached["combined"]
      <4>1. o = "combined"
        BY <2>1, <3>3 DEF Ranks!Sorter
      <4> QED BY <1>3, <2>1, <3>3, <4>1 DEF Current
    <3> QED BY <3>1, <3>2, <3>3
  <2>5. m_scores[o] \in FreshOf(o, list) /\ m_indices[o] \in Ranks!Rankings(m_scores[o])
    BY <1>0, <2>1, <2>3, <2>4 DEF KeptIsFresh, Ranking
  <2>6. m_scores'[o] = m_scores[o] /\ m_indices'[o] = m_indices[o]
    BY <1>1, <2>1
  <2>7. m_correspondences'[o] = list
    BY <2>2, <2>3
  <2>8. m_scores'[o] \in FreshOf(o, list)' /\ m_indices'[o] \in Ranks!Rankings(m_scores'[o])
    BY <2>4, <2>5, <2>6
  <2>9. FreshOf(o, m_correspondences[o])' = FreshOf(o, list)'
    BY <2>7 DEF FreshOf, Ranks!SubScores, Ranks!DistanceScores, Ranks!CustomScores, Ranks!Asked, Ranks!Combined
  <2> QED BY <2>6, <2>8, <2>9 DEF Ranking
<1>4. KeptIsFresh'
  BY <1>3 DEF KeptIsFresh
<1>5. LastIsFresh'
  BY DEF Forgets, LastIsFresh
<1> QED BY <1>2, <1>4, <1>5 DEF SorterInv
\* Nothing that the sorters are asked about changes, nor how they compute.
QuestionsStay == SettingsStay /\ UNCHANGED <<m_correspondences, m_clouds, weights>>

LEMMA RankingStays ==
  ASSUME QuestionsStay, NEW s, NEW scores, NEW indices
  PROVE  Ranking(s, scores, indices)' <=> Ranking(s, scores, indices)
<1>1. PICK list : list = m_correspondences[s]
  OBVIOUS
<1>2. FreshOf(s, list)' = FreshOf(s, list)
  BY SameFresh DEF QuestionsStay
<1>3. FreshOf(s, m_correspondences[s])' = FreshOf(s, list)'
  BY <1>1 DEF QuestionsStay, FreshOf, Ranks!SubScores, Ranks!DistanceScores, Ranks!CustomScores, Ranks!Asked,
     Ranks!Combined
<1> QED BY <1>1, <1>2, <1>3 DEF Ranking

LEMMA CurrentStays ==
  ASSUME QuestionsStay, NEW s, s = "sub" \/ behind' = behind
  PROVE  Current(s)' <=> Current(s)
BY DEF QuestionsStay, SettingsStay, Current, Ranks!Accepts, Ranks!HasCorrespondences, Ranks!SubAccepts

\* A sorter computes a ranking, keeps it and answers it.
LEMMA KeptKeeps ==
  ASSUME SorterInv, NEW s \in Ranks!Sorter, NEW scores, NEW indices, Ranks!Kept(s, scores, indices),
         QuestionsStay, behind' = behind \/ s = "combined", Ranking(s, scores, indices)
  PROVE  SorterInv'
<1>0. SorterTyped /\ KeptIsFresh
  BY DEF SorterInv
<1>1. /\ m_cached' = [m_cached EXCEPT ![s] = TRUE] /\ m_scores' = [m_scores EXCEPT ![s] = scores]
      /\ m_indices' = [m_indices EXCEPT ![s] = indices]
      /\ ranked' = [sorter |-> s, scores |-> scores, indices |-> indices]
  BY DEF Ranks!Kept, Ranks!Answer
<1>2. /\ m_cached' \in [Ranks!Sorter -> BOOLEAN] /\ OnSorters(m_scores') /\ OnSorters(m_indices')
      /\ m_scores'[s] = scores /\ m_indices'[s] = indices
      /\ \A o \in Ranks!Sorter \ {s} : /\ m_cached'[o] = m_cached[o] /\ m_scores'[o] = m_scores[o]
                                       /\ m_indices'[o] = m_indices[o]
  BY <1>0, <1>1 DEF SorterTyped, OnSorters
<1>3. SorterTyped'
  BY <1>0, <1>2 DEF SorterTyped, OnSorters, QuestionsStay
<1>4. Ranking(s, scores, indices)'
  BY RankingStays
<1>5. ASSUME NEW o \in Ranks!Sorter, m_cached'[o], Current(o)'
      PROVE  Ranking(o, m_scores[o], m_indices[o])'
  <2>1. CASE o = s
    <3>1. PICK x, y : x = m_scores'[o] /\ y = m_indices'[o]
      OBVIOUS
    <3>2. Ranking(o, x, y)'
      BY <1>2, <1>4, <2>1, <3>1
    <3> QED BY <3>1, <3>2 DEF Ranking
  <2>2. CASE o # s
    <3>1. o = "sub" \/ behind' = behind
      BY <2>2 DEF Ranks!Sorter
    <3>2. Current(o) /\ m_cached[o]
      BY <1>2, <1>5, <2>2, <3>1, CurrentStays
    <3>3. PICK x, y : x = m_scores[o] /\ y = m_indices[o]
      OBVIOUS
    <3>4. Ranking(o, x, y)
      BY <1>0, <3>2, <3>3 DEF KeptIsFresh
    <3>5. Ranking(o, x, y)'
      BY <3>4, RankingStays
    <3> QED BY <1>2, <2>2, <3>3, <3>5 DEF Ranking
  <2> QED BY <2>1, <2>2
<1>6. KeptIsFresh'
  BY <1>5 DEF KeptIsFresh
<1>7. LastIsFresh'
  <2>1. ranked'.sorter = s /\ ranked'.scores = scores /\ ranked'.indices = indices
    BY <1>1
  <2> QED BY <1>4, <2>1 DEF LastIsFresh, Ranking
<1> QED BY <1>3, <1>6, <1>7 DEF SorterInv

\* A sorter refuses, or answers what it has kept.
LEMMA AnsweredKeeps ==
  ASSUME SorterInv, NEW s \in Ranks!Sorter, Ranks!Refused(s) \/ Ranks!FromCache(s)
  PROVE  SorterInv'
<1>0. SorterTyped /\ KeptIsFresh
  BY DEF SorterInv
<1>1. /\ QuestionsStay /\ UNCHANGED <<m_cached, m_scores, m_indices, behind>>
      /\ \/ ~Ranks!Accepts(s) /\ ranked' = [sorter |-> s, scores |-> <<>>, indices |-> <<>>]
         \/ /\ m_cached[s]
            /\ ranked' = [sorter |-> s, scores |-> m_scores[s], indices |-> m_indices[s]]
  BY DEF Ranks!Refused, Ranks!FromCache, Ranks!Answer, QuestionsStay, SettingsStay, Ranks!settings, Ranks!inputs,
     Ranks!cache
<1>2. SorterTyped'
  BY <1>0, <1>1 DEF SorterTyped, OnSorters, QuestionsStay
<1>3. ASSUME NEW o \in Ranks!Sorter, m_cached[o], Current(o)'
      PROVE  Ranking(o, m_scores[o], m_indices[o]) /\ Ranking(o, m_scores[o], m_indices[o])'
  <2>1. Current(o)
    BY <1>1, <1>3, CurrentStays
  <2>2. PICK x, y : x = m_scores[o] /\ y = m_indices[o]
    OBVIOUS
  <2>3. Ranking(o, x, y)
    BY <1>0, <1>3, <2>1, <2>2 DEF KeptIsFresh
  <2>4. Ranking(o, x, y)'
    BY <1>1, <2>3, RankingStays
  <2> QED BY <1>1, <2>2, <2>3, <2>4 DEF Ranking
<1>4. KeptIsFresh'
  BY <1>1, <1>3 DEF KeptIsFresh
<1>5. LastIsFresh'
  <2>1. ranked'.sorter = s
    BY <1>1
  <2>2. CASE ~Ranks!Accepts(s)
    <3>1. ~Ranks!Accepts(s)'
      BY <1>1, <2>2 DEF QuestionsStay, SettingsStay, Ranks!Accepts, Ranks!HasCorrespondences, Ranks!SubAccepts
    <3>2. ~Current(ranked.sorter)'
      BY <2>1, <3>1 DEF Current, Ranks!Accepts, Ranks!HasCorrespondences, Ranks!SubAccepts
    <3> QED BY <2>1, <3>2 DEF LastIsFresh
  <2>3. CASE Ranks!Accepts(s)
    <3>1. m_cached[s] /\ ranked'.scores = m_scores[s] /\ ranked'.indices = m_indices[s]
      BY <1>1, <2>3
    <3>2. Current(s)' => Ranking(s, m_scores[s], m_indices[s])'
      BY <1>3, <3>1
    <3>3. m_scores' = m_scores /\ m_indices' = m_indices
      BY <1>1
    <3> QED BY <2>1, <3>1, <3>2, <3>3 DEF LastIsFresh, Ranking, Current, Ranks!Accepts, Ranks!HasCorrespondences,
            Ranks!SubAccepts
  <2> QED BY <2>2, <2>3
<1> QED BY <1>2, <1>4, <1>5 DEF SorterInv
LEMMA ComputedFromSubKeeps ==
  ASSUME SorterInv, Ranks!ComputedFromSub
  PROVE  SorterInv'
<1>0. SorterTyped
  BY DEF SorterInv
<1>1. PICK list : list = m_correspondences["combined"]
  OBVIOUS
<1>2. PICK asked \in Ranks!Asked(list) :
        \E indices \in Ranks!Rankings(Ranks!Combined(asked, list)),
           its_indices \in Ranks!Rankings(asked[Len(weights)]) :
             /\ m_scores' = [s \in Ranks!Sorter |-> IF s = "sub" THEN asked[Len(weights)]
                                                    ELSE Ranks!Combined(asked, list)]
             /\ m_indices' = [s \in Ranks!Sorter |-> IF s = "sub" THEN its_indices ELSE indices]
             /\ ranked' = Ranks!Answer("combined", Ranks!Combined(asked, list), indices)
  BY <1>1 DEF Ranks!ComputedFromSub
<1> PICK x, y : x = Ranks!Combined(asked, list) /\ y = asked[Len(weights)]
  OBVIOUS
<1>3. PICK indices \in Ranks!Rankings(x), its_indices \in Ranks!Rankings(y) :
        /\ m_scores' = [s \in Ranks!Sorter |-> IF s = "sub" THEN y ELSE x]
        /\ m_indices' = [s \in Ranks!Sorter |-> IF s = "sub" THEN its_indices ELSE indices]
        /\ ranked' = Ranks!Answer("combined", x, indices)
  BY <1>2
<1>4. /\ weights # <<>> /\ SettingsStay /\ weights' = weights
      /\ m_correspondences' = [m_correspondences EXCEPT !["sub"] = list]
      /\ m_clouds' = [m_clouds EXCEPT !["sub"] = m_clouds["combined"]]
      /\ m_cached' = [s \in Ranks!Sorter |-> TRUE]
  BY <1>1 DEF Ranks!ComputedFromSub, SettingsStay, Ranks!settings
<1>5. y \in FreshOf("sub", list)
  <2>1. Len(weights) \in DOMAIN weights
    <3>1. PICK S : weights \in Seq(S)
      BY <1>0 DEF SorterTyped
    <3> QED BY <1>4, <3>1
  <2>2. asked \in [DOMAIN weights -> Ranks!SubScores(list)]
    BY <1>2 DEF Ranks!Asked
  <2> QED BY <2>1, <2>2 DEF FreshOf
<1>6. x \in FreshOf("combined", list)
  BY <1>2 DEF FreshOf
<1>7. /\ m_scores' = [s \in Ranks!Sorter |-> IF s = "sub" THEN y ELSE x]
      /\ m_indices' = [s \in Ranks!Sorter |-> IF s = "sub" THEN its_indices ELSE indices]
      /\ ranked' = [sorter |-> "combined", scores |-> x, indices |-> indices]
      /\ indices \in Ranks!Rankings(x) /\ its_indices \in Ranks!Rankings(y)
      /\ y \in FreshOf("sub", list) /\ x \in FreshOf("combined", list)
  BY <1>3, <1>5, <1>6 DEF Ranks!Answer
<1>8. y \in FreshOf("sub", list)' /\ x \in FreshOf("combined", list)'
  <2>1. FreshOf("sub", list)' = FreshOf("sub", list) /\ FreshOf("combined", list)' = FreshOf("combined", list)
    BY <1>4, SameFresh
  <2> QED BY <1>7, <2>1
<1>9. /\ m_correspondences'["sub"] = list /\ m_correspondences'["combined"] = list
      /\ OnSorters(m_correspondences') /\ OnSorters(m_clouds')
  BY <1>0, <1>1, <1>4 DEF SorterTyped, OnSorters, Ranks!Sorter
<1>10. Ranking("sub", y, its_indices)' /\ Ranking("combined", x, indices)'
  <2>1. /\ FreshOf("sub", m_correspondences["sub"])' = FreshOf("sub", list)'
        /\ FreshOf("combined", m_correspondences["combined"])' = FreshOf("combined", list)'
    BY <1>9 DEF FreshOf, Ranks!SubScores, Ranks!DistanceScores, Ranks!CustomScores, Ranks!Asked, Ranks!Combined
  <2> QED BY <1>7, <1>8, <2>1 DEF Ranking
<1>11. SorterTyped'
  BY <1>0, <1>4, <1>7, <1>9 DEF SorterTyped, OnSorters
<1>12. KeptIsFresh'
  <2>1. ASSUME NEW o \in Ranks!Sorter PROVE Ranking(o, m_scores[o], m_indices[o])'
    <3>1. CASE o = "sub"
      <4>1. m_scores'[o] = y /\ m_indices'[o] = its_indices
        BY <1>7, <3>1 DEF Ranks!Sorter
      <4> QED BY <1>10, <3>1, <4>1 DEF Ranking
    <3>2. CASE o = "combined"
      <4>1. m_scores'[o] = x /\ m_indices'[o] = indices
        BY <1>7, <3>2 DEF Ranks!Sorter
      <4> QED BY <1>10, <3>2, <4>1 DEF Ranking
    <3> QED BY <3>1, <3>2 DEF Ranks!Sorter
  <2> QED BY <2>1 DEF KeptIsFresh
<1>13. LastIsFresh'
  <2>1. ranked'.sorter = "combined" /\ ranked'.scores = x /\ ranked'.indices = indices
    BY <1>7
  <2> QED BY <1>10, <2>1 DEF LastIsFresh, Ranking, Ranks!Sorter
<1> QED BY <1>11, <1>12, <1>13 DEF SorterInv

LEMMA ComputedKeeps ==
  ASSUME SorterInv, Ranks!ComputedBySub \/ Ranks!ComputedOfNone
  PROVE  SorterInv'
<1>1. CASE Ranks!ComputedBySub
  <2>0. PICK scores \in Ranks!SubScores(m_correspondences["sub"]) :
          \E indices \in Ranks!Rankings(scores) : Ranks!Kept("sub", scores, indices)
    BY <1>1 DEF Ranks!ComputedBySub
  <2>1. PICK indices \in Ranks!Rankings(scores) : Ranks!Kept("sub", scores, indices)
    BY <2>0
  <2>2. QuestionsStay /\ behind' = behind
    BY <1>1 DEF Ranks!ComputedBySub, QuestionsStay, SettingsStay, Ranks!settings, Ranks!inputs
  <2>3. Ranking("sub", scores, indices)
    BY <2>0, <2>1 DEF Ranking, FreshOf
  <2> QED BY <2>1, <2>2, <2>3, KeptKeeps DEF Ranks!Sorter
<1>2. CASE Ranks!ComputedOfNone
  <2>1. PICK list : list = m_correspondences["combined"]
    OBVIOUS
  <2>2. PICK indices \in Ranks!Rankings(Ranks!Zeros(list)) : Ranks!Kept("combined", Ranks!Zeros(list), indices)
    BY <1>2, <2>1 DEF Ranks!ComputedOfNone
  <2>3. QuestionsStay /\ weights = <<>>
    BY <1>2 DEF Ranks!ComputedOfNone, QuestionsStay, SettingsStay, Ranks!settings, Ranks!inputs
  <2>4. Ranks!Zeros(list) \in FreshOf("combined", list)
    <3>1. DOMAIN weights = {}
      BY <2>3
    <3> DEFINE asked == [k \in {} |-> k]
    <3>2. asked \in Ranks!Asked(list)
      BY <3>1 DEF Ranks!Asked
    <3> HIDE DEF asked
    <3>3. Ranks!Combined(asked, list) = Ranks!Zeros(list)
      BY <3>1, NoWeights DEF Ranks!Combined
    <3> QED BY <3>2, <3>3 DEF FreshOf
  <2>5. Ranking("combined", Ranks!Zeros(list), indices)
    BY <2>1, <2>2, <2>4 DEF Ranking
  <2> QED BY <2>2, <2>3, <2>5, KeptKeeps DEF Ranks!Sorter
<1> QED BY <1>1, <1>2

\* Every setter forgets what it makes stale.
LEMMA SettersKeep ==
  ASSUME SorterInv,
         \/ \E s \in Ranks!Sorter : \/ Ranks!SetPointClouds(s) \/ Ranks!ClearCache(s)
                                    \/ \E list \in Lists : Ranks!SetCorrespondences(s, list)
         \/ Ranks!SetScore
         \/ \E t \in Thresholds : Ranks!SetThreshold(t)
         \/ \E f \in Functions : Ranks!SetQualityFunction(f)
         \/ \E w \in Weights : Ranks!AddSorter(w)
         \/ Ranks!ClearSorters \/ Ranks!NormalizeWeights
  PROVE  SorterInv'
<1>0. /\ OnSorters(m_correspondences) /\ OnSorters(m_clouds) /\ \E S : weights \in Seq(S)
      /\ "sub" \in Ranks!Sorter /\ "combined" \in Ranks!Sorter
  BY DEF SorterInv, SorterTyped, Ranks!Sorter
<1>1. ASSUME NEW s \in Ranks!Sorter, \/ Ranks!SetPointClouds(s) \/ Ranks!ClearCache(s)
                                    \/ \E list \in Lists : Ranks!SetCorrespondences(s, list)
      PROVE  SorterInv'
  <2>1. /\ Forgets(s) /\ SettingsStay /\ weights' = weights /\ behind' = (behind /\ s = "sub")
        /\ \/ UNCHANGED <<m_correspondences, m_clouds>>
           \/ m_clouds' = [m_clouds EXCEPT ![s] = TRUE] /\ UNCHANGED m_correspondences
           \/ (\E list \in Lists : m_correspondences' = [m_correspondences EXCEPT ![s] = list]) /\ UNCHANGED m_clouds
    BY <1>1, SetterForgets DEF Ranks!SetPointClouds, Ranks!ClearCache, Ranks!SetCorrespondences, Ranks!ChangesInputs,
       Ranks!settings, Ranks!inputs, SettingsStay, Forgets
  <2>2. SetsOnly(s)
    BY <1>0, <2>1 DEF SetsOnly, OnSorters
  <2>3. s = "combined" \/ (s = "sub" /\ (behind => behind'))
    BY <2>1 DEF Ranks!Sorter
  <2> QED BY <1>0, <2>1, <2>2, <2>3, SetterKeeps
<1>2. ASSUME \/ Ranks!SetScore \/ \E t \in Thresholds : Ranks!SetThreshold(t)
             \/ \E f \in Functions : Ranks!SetQualityFunction(f)
      PROVE  SorterInv'
  <2>1. /\ Forgets("sub") /\ weights' = weights /\ behind' = m_cached["combined"]
        /\ UNCHANGED <<m_correspondences, m_clouds>>
    BY <1>2, SetterForgets DEF Ranks!SetScore, Ranks!SetThreshold, Ranks!SetQualityFunction, Ranks!ChangesAnswers,
       Ranks!inputs
  <2>2. SetsOnly("sub")
    BY <1>0, <2>1 DEF SetsOnly, OnSorters
  <2> QED BY <1>0, <2>1, <2>2, SetterKeeps
<1>3. ASSUME (\E w \in Weights : Ranks!AddSorter(w)) \/ Ranks!ClearSorters \/ Ranks!NormalizeWeights
      PROVE  SorterInv'
  <2>1. Forgets("combined") /\ SettingsStay /\ UNCHANGED <<m_correspondences, m_clouds>>
    BY <1>3, SetterForgets DEF Ranks!AddSorter, Ranks!ClearSorters, Ranks!NormalizeWeights, SettingsStay,
       Ranks!settings, Ranks!inputs
  <2>2. SetsOnly("combined")
    BY <1>0, <2>1 DEF SetsOnly, OnSorters
  <2>3. \E S : weights' \in Seq(S)
    <3>1. PICK S : weights \in Seq(S)
      BY <1>0
    <3>2. ASSUME NEW w \in Weights, Ranks!AddSorter(w) PROVE weights' \in Seq(S \cup {w})
      <4>1. weights \in Seq(S \cup {w}) /\ w \in S \cup {w}
        BY <3>1
      <4> QED BY <3>2, <4>1 DEF Ranks!AddSorter
    <3>3. ASSUME Ranks!ClearSorters PROVE weights' \in Seq({})
      BY <3>3 DEF Ranks!ClearSorters
    <3>4. ASSUME Ranks!NormalizeWeights PROVE \E T : weights' \in Seq(T)
      <4>1. CASE Ranks!Total = 0
        BY <3>1, <3>4, <4>1 DEF Ranks!NormalizeWeights
      <4>2. CASE Ranks!Total # 0
        <5> DEFINE e(k) == (12 * weights[k]) \div Ranks!Total
        <5>1. weights' = [k \in DOMAIN weights |-> e(k)] /\ DOMAIN weights = 1 .. Len(weights) /\ Len(weights) \in Nat
          BY <3>1, <3>4, <4>2 DEF Ranks!NormalizeWeights
        <5> DEFINE T == {e(k) : k \in DOMAIN weights}
        <5>2. \A k \in 1 .. Len(weights) : e(k) \in T
          BY <5>1
        <5> HIDE DEF e, T
        <5>3. weights' \in [1 .. Len(weights) -> T]
          BY <5>1, <5>2
        <5> QED BY <5>1, <5>3
      <4> QED BY <4>1, <4>2
    <3> QED BY <1>3, <3>2, <3>3, <3>4
  <2> QED BY <1>0, <2>1, <2>2, <2>3, SetterKeeps
<1> QED BY <1>1, <1>2, <1>3

LEMMA SortersKeep ==
  ASSUME SorterInv, [Ranks!Next]_(Ranks!sorter_vars)
  PROVE  SorterInv'
<1>1. ASSUME UNCHANGED Ranks!sorter_vars PROVE SorterInv'
  <2>1. QuestionsStay /\ UNCHANGED <<m_cached, m_scores, m_indices, behind, ranked>>
    BY <1>1 DEF Ranks!sorter_vars, QuestionsStay, SettingsStay
  <2>2. SorterTyped'
    BY <2>1 DEF SorterInv, SorterTyped, OnSorters, QuestionsStay
  <2>3. ASSUME NEW o, NEW x, NEW y, Current(o)', Current(o) => Ranking(o, x, y) PROVE Ranking(o, x, y)'
    BY <2>1, <2>3, CurrentStays, RankingStays
  <2>4. KeptIsFresh'
    <3>1. ASSUME NEW o \in Ranks!Sorter, m_cached[o], Current(o)'
          PROVE  Ranking(o, m_scores[o], m_indices[o])'
      <4>1. PICK x, y : x = m_scores[o] /\ y = m_indices[o]
        OBVIOUS
      <4>2. Current(o) => Ranking(o, x, y)
        BY <3>1, <4>1 DEF SorterInv, KeptIsFresh
      <4>3. Ranking(o, x, y)'
        BY <2>3, <3>1, <4>2
      <4> QED BY <2>1, <4>1, <4>3 DEF Ranking
    <3> QED BY <2>1, <3>1 DEF KeptIsFresh
  <2>5. LastIsFresh'
    <3>1. PICK r : r = ranked
      OBVIOUS
    <3>2. /\ r # Ranks!None => r.sorter \in Ranks!Sorter
          /\ r # Ranks!None /\ Current(r.sorter) => Ranking(r.sorter, r.scores, r.indices)
      BY <3>1 DEF SorterInv, LastIsFresh
    <3>3. r # Ranks!None /\ Current(r.sorter)' => Ranking(r.sorter, r.scores, r.indices)'
      BY <2>3, <3>2
    <3>4. ranked' = r
      BY <2>1, <3>1
    <3> QED BY <3>2, <3>3, <3>4 DEF LastIsFresh, Ranking, Current, Ranks!Accepts, Ranks!HasCorrespondences
  <2> QED BY <2>2, <2>4, <2>5 DEF SorterInv
<1> QED BY <1>1, SettersKeep, AnsweredKeeps, ComputedKeeps, ComputedFromSubKeeps DEF Ranks!Next

LEMMA SortersAnswer == SorterInv => Ranks!RankingIsFresh
BY FreshIs DEF SorterInv, LastIsFresh, Current, Ranking, Ranks!RankingIsFresh

-------------------------------------------------------------------------------
(* Command line                                                            *)

\* What the token at position k was taken for; and that it was taken for anything but --ini.
TakenFor(k) == role[k][1]
WasRead(k) == TakenFor(k) \notin {"none", "ini", "file"}

\* Between the tokens that were read at i and at k stand those of --ini and no others.
ReadAfter(i, k) == i < k /\ WasRead(i) /\ \A j \in i + 1 .. k - 1 : TakenFor(j) \in {"ini", "file"}

\* The queue has the positions that are still to be read, in order, behind those that were.
Queued ==
  /\ Increasing(queue)
  /\ \A k \in DOMAIN role : k \in Entries(queue) <=> TakenFor(k) = "none"
  /\ \A i, k \in DOMAIN role : WasRead(i) /\ TakenFor(k) = "none" => i < k

\* What cannot be read fails, and a value is read after its option.
RefusedIsKnown ==
  \A k \in DOMAIN role : /\ TakenFor(k) \in {"unknown", "unexpected"} => failed
                         /\ TakenFor(k) = "help" => help
ValuesFollow ==
  \A k \in DOMAIN role : TakenFor(k) = "value" =>
    /\ Parser!IsValue(args[k])
    /\ \E i \in DOMAIN role : ReadAfter(i, k) /\ role[i] = <<"option", role[k][2]>>
OptionsHaveValues ==
  \A k \in DOMAIN role :
    TakenFor(k) = "option" /\ args[k].value = NoValue /\ Parameters[role[k][2]].type # "optional" =>
      failed \/ \E j \in DOMAIN role : ReadAfter(k, j) /\ role[j] = <<"value", role[k][2]>>

\* The arguments of a command were read from the first on, those of cmd up to next_arg.
ArgumentAt(c, n) == <<"argument", Parser!Positionals(c)[n]>>
ArgumentsInOrder ==
  /\ \A c \in Commands : \A n \in 2 .. Len(Parser!Positionals(c)) : \A k \in DOMAIN role :
       role[k] = ArgumentAt(c, n) => \E j \in 1 .. k - 1 : role[j] = ArgumentAt(c, n - 1)
  /\ \A n \in 1 .. next_arg - 1 : n <= Len(Parser!Positionals(cmd)) =>
       \E j \in DOMAIN role : role[j] = ArgumentAt(cmd, n)

\* The commands up to cmd, or to the subcommand that comes next, were named one after the
\* other, and those that were left have their arguments.
Has(c) == \A p \in Parser!Entries(Parser!Positionals(c)) : Parser!Required(p) => Parser!IsSet(p)
CommandsInOrder ==
  /\ Parser!CommandsUsed \subseteq Commands /\ cmd \in Parser!CommandsUsed
  /\ target # Parser!NoCommand => target \in Parser!CommandsUsed
  /\ \A c \in Parser!CommandsUsed \ {Root} : Parent[c] \in Parser!CommandsUsed
  /\ \A c \in Parser!CommandsUsed \ {cmd, target} : Has(c)

\* What parameter p should hold: the texts given for it, and an option without one.
GivenFor(p) == {k \in DOMAIN role : Parser!Gives(k) /\ role[k][2] = p}
MissingFor(p) ==
  {k \in DOMAIN role : role[k] = <<"option", p>> /\ args[k].value = NoValue /\ \A j \in GivenFor(p) : j < k}
InFile == IF Parser!IniFile \in DOMAIN IniFiles THEN IniFiles[Parser!IniFile] ELSE <<>>
SettingHolds(p) ==
  /\ MissingFor(p) # {} => value[p] = "nullopt"
  /\ MissingFor(p) = {} => \A k \in GivenFor(p) : (\A j \in GivenFor(p) : j <= k) =>
                             value[p] = Parser!Held(p, Parser!GivenText(k))
  /\ MissingFor(p) = {} /\ GivenFor(p) = {} =>
       value[p] = IF p \in DOMAIN InFile /\ Parser!Accepts(p, InFile[p])
                  THEN Parser!Held(p, InFile[p]) ELSE before[p]
SettingsHold == failed \/ \A p \in Parser!Parameter : SettingHolds(p)

ReadSoFar ==
  /\ Queued /\ RefusedIsKnown /\ ValuesFollow /\ OptionsHaveValues /\ ArgumentsInOrder
  /\ CommandsInOrder /\ SettingsHold

\* Before anything is read.
Nothing == cmd = Root /\ target = Parser!NoCommand /\ next_arg = 1 /\ value = before

\* When a callback has been called everything was read, and nothing was wrong.
CalledRightly == ran # <<>> => ReadSoFar /\ queue = <<>> /\ ~failed /\ ~help

ParserInv ==
  /\ Parser!TypeOK /\ next_arg \in Nat \ {0}
  /\ phase # "idle" => ran = <<>> /\ exit = -1
  /\ phase = "ini" => Nothing /\ \A k \in DOMAIN role : TakenFor(k) = "none"
  /\ phase = "load" => Nothing /\ Queued /\ \A k \in DOMAIN role : ~WasRead(k)
  /\ phase = "load" => Parser!IniFile \in DOMAIN IniFiles
  /\ phase \in {"parse", "execute"} => ReadSoFar
  /\ phase = "execute" => queue = <<>> \/ target # Parser!NoCommand
  /\ CalledRightly /\ Parser!CallbackJustified

LEMMA FileNameStays == args' = args => Parser!IniFile' = Parser!IniFile
BY DEF Parser!IniFile, Parser!IniPositions, Parser!FileName, Parser!Bare

LEMMA FileStays == args' = args => InFile' = InFile
BY FileNameStays DEF InFile

LEMMA ParserWithout == \A s, X : Parser!Without(s, X) = Without(s, X)
BY Zenon DEF Parser!Without, Without

LEMMA PositionalsAre ==
  ASSUME NEW c
  PROVE  /\ Parser!Positionals(c) \in Seq(Nat) /\ Len(Parser!Positionals(c)) \in Nat
         /\ DOMAIN Parser!Positionals(c) = 1 .. Len(Parser!Positionals(c))
         /\ Parser!Entries(Parser!Positionals(c)) =
              {p \in Parser!Of(c) : Parameters[p].kind = "argument"}
         /\ Distinct(Parser!Positionals(c))
         /\ \A n \in 1 .. Len(Parser!Positionals(c)) :
              Parser!Positionals(c)[n] \in Parser!Of(c) /\ Parameters[Parser!Positionals(c)[n]].kind = "argument"
<1> DEFINE s == [p \in Parser!Parameter |-> p]
           X == {p \in Parser!Parameter : p \notin Parser!Of(c) \/ Parameters[p].kind # "argument"}
           t == Without(s, X)
<1>1. Len(Parameters) \in Nat /\ Parser!Parameter = 1 .. Len(Parameters)
  BY ParserAssumption DEF Parser!CommandLineAssumption
<1>2. s \in Seq(Nat) /\ DOMAIN s = 1 .. Len(Parameters) /\ \A i \in DOMAIN s : s[i] = i
  BY <1>1
<1>3. Entries(s) = Parser!Parameter /\ Distinct(s)
  BY <1>1, <1>2 DEF Entries, Distinct
<1>4. t = Parser!Positionals(c)
  BY ParserWithout DEF Parser!Positionals
<1> HIDE DEF s
<1>5. t \in Seq(Nat) /\ Entries(t) = Entries(s) \ X /\ Distinct(t)
  BY <1>2, <1>3, WithoutFacts, WithoutEntries
<1>6. Entries(t) = {p \in Parser!Of(c) : Parameters[p].kind = "argument"}
  BY <1>3, <1>5 DEF Parser!Of
<1> HIDE DEF t
<1>7. Len(t) \in Nat /\ DOMAIN t = 1 .. Len(t) /\ Parser!Entries(t) = Entries(t)
  BY <1>5 DEF Parser!Entries, Entries
<1>8. \A n \in 1 .. Len(t) : t[n] \in Entries(t)
  BY <1>7 DEF Entries
<1> QED BY <1>4, <1>5, <1>6, <1>7, <1>8

\* What is held is something; for a flag "true", for an optional what is no number is nullopt.
LEMMA HeldIs ==
  ASSUME NEW p \in Parser!Parameter, NEW text
  PROVE  /\ text # NoValue => Parser!Held(p, text) # NoValue
         /\ Parameters[p].kind = "flag" => Parser!Held(p, text) = "true"
         /\ Parameters[p].kind # "flag" /\ Parameters[p].type = "optional" => Parser!Held(p, "") = "nullopt"
<1>1. "" \notin Numbers /\ NoValue \notin {"", "true", "nullopt"}
  BY ParserAssumption DEF Parser!CommandLineAssumption
<1> QED BY <1>1 DEF Parser!Held

LEMMA ParserStarts == Parser!Init => ParserInv
<1> SUFFICES ASSUME Parser!Init PROVE ParserInv
  OBVIOUS
<1>1. /\ phase = "idle" /\ args = <<>> /\ queue = <<>> /\ role = <<>> /\ cmd = Root
      /\ target = Parser!NoCommand /\ dashed = FALSE /\ next_arg = 1 /\ help = FALSE /\ failed = FALSE
      /\ value = [p \in Parser!Parameter |-> NoValue] /\ exit = -1 /\ ran = <<>> /\ runs = 0
  BY DEF Parser!Init
<1>2. Root \in Commands /\ MaxTokens \in Seq(Nat) /\ Len(MaxTokens) \in Nat
  <2>1. Root \in Commands /\ MaxTokens \in Seq(Nat)
    BY ParserAssumption DEF Parser!CommandLineAssumption
  <2> QED BY <2>1
<1>3. Parser!TypeOK
  <2>1. <<>> \in Seq(Tokens) /\ <<>> \in Seq(DOMAIN args) /\ -1 \in -1 .. 1 /\ 0 \in 0 .. Len(MaxTokens)
    BY <1>2
  <2> QED BY <1>1, <1>2, <2>1 DEF Parser!TypeOK
<1>4. ran = <<>> /\ Len(ran) <= 1 /\ exit # 0
  BY <1>1
<1> QED BY <1>1, <1>3, <1>4
     DEF ParserInv, CalledRightly, Parser!CallbackJustified

LEMMA RunKeeps == ParserInv /\ Parser!Run => ParserInv'
<1> SUFFICES ASSUME ParserInv, Parser!Run PROVE ParserInv'
  OBVIOUS
<1>1. /\ phase' = "ini" /\ runs' = runs + 1 /\ args' \in Parser!Inputs(MaxTokens[runs + 1])
      /\ runs < Len(MaxTokens) /\ queue' = <<>> /\ role' = [k \in DOMAIN args' |-> <<"none">>]
      /\ cmd' = Root /\ target' = Parser!NoCommand /\ dashed' = FALSE /\ next_arg' = 1
      /\ help' = FALSE /\ failed' = FALSE /\ exit' = -1 /\ ran' = <<>> /\ before' = value /\ value' = value
  BY DEF Parser!Run
<1>2. Root \in Commands /\ MaxTokens \in Seq(Nat) /\ Len(MaxTokens) \in Nat /\ runs \in 0 .. Len(MaxTokens)
  <2>1. Root \in Commands /\ MaxTokens \in Seq(Nat)
    BY ParserAssumption DEF Parser!CommandLineAssumption
  <2>2. runs \in 0 .. Len(MaxTokens)
    BY DEF ParserInv, Parser!TypeOK
  <2> QED BY <2>1, <2>2
<1>3. args' \in Seq(Tokens)
  <2>1. PICK n \in 0 .. MaxTokens[runs + 1] : args' \in [1 .. n -> Tokens]
    BY <1>1 DEF Parser!Inputs
  <2>2. MaxTokens[runs + 1] \in Nat
    BY <1>1, <1>2
  <2>3. n \in Nat
    BY <2>2
  <2> QED BY <2>1, <2>3
<1>4. Parser!TypeOK'
  <2>1. <<>> \in Seq(DOMAIN args') /\ -1 \in -1 .. 1 /\ runs + 1 \in 0 .. Len(MaxTokens)
    BY <1>1, <1>2
  <2>2. DOMAIN value = Parser!Parameter
    BY DEF ParserInv, Parser!TypeOK
  <2> QED BY <1>1, <1>2, <1>3, <2>1, <2>2 DEF Parser!TypeOK
<1>5. (ran = <<>> /\ exit # 0)'
  BY <1>1
<1>6. (CalledRightly /\ Parser!CallbackJustified)'
  BY <1>1, <1>4 DEF CalledRightly, Parser!CallbackJustified
<1>7. (\A k \in DOMAIN role : TakenFor(k) = "none")'
  BY <1>1 DEF TakenFor
<1> QED BY <1>1, <1>4, <1>6, <1>7 DEF ParserInv, Nothing

\* What p holds when nothing was said of it.
Unsaid(p) ==
  IF p \in DOMAIN InFile /\ Parser!Accepts(p, InFile[p]) THEN Parser!Held(p, InFile[p]) ELSE before[p]

LEMMA NothingRead ==
  ASSUME cmd' = Root, target' = Parser!NoCommand, next_arg' = 1, Queued',
         (\A k \in DOMAIN role : ~WasRead(k))',
         (failed \/ \A p \in Parser!Parameter : value[p] = Unsaid(p))'
  PROVE  ReadSoFar'
<1>0. Root \in Commands
  BY ParserAssumption DEF Parser!CommandLineAssumption
<1>1. \A k \in DOMAIN role' : role'[k][1] \in {"none", "ini", "file"}
  BY DEF WasRead, TakenFor
<1>2. RefusedIsKnown'
  BY <1>1 DEF RefusedIsKnown, TakenFor
<1>3. ValuesFollow' /\ OptionsHaveValues'
  BY <1>1 DEF ValuesFollow, OptionsHaveValues, TakenFor
<1>4. ArgumentsInOrder'
  BY <1>1 DEF ArgumentsInOrder, ArgumentAt
<1>5. Parser!CommandsUsed' = {Root}
  BY <1>1 DEF Parser!CommandsUsed
<1>6. CommandsInOrder'
  BY <1>0, <1>5 DEF CommandsInOrder
<1>7. ASSUME NEW p PROVE GivenFor(p)' = {} /\ MissingFor(p)' = {}
  <2>1. GivenFor(p)' = {}
    BY <1>1 DEF GivenFor, Parser!Gives
  <2>2. MissingFor(p)' = {}
    BY <1>1 DEF MissingFor
  <2> QED BY <2>1, <2>2
<1>8. SettingsHold'
  BY <1>7 DEF SettingsHold, SettingHolds, Unsaid
<1> QED BY <1>2, <1>3, <1>4, <1>6, <1>8 DEF ReadSoFar

LEMMA TakeIniKeeps == ParserInv /\ Parser!TakeIni => ParserInv'
<1> SUFFICES ASSUME ParserInv, Parser!TakeIni PROVE ParserInv'
  OBVIOUS
<1> DEFINE X == Parser!IniPositions
           s == [k \in DOMAIN args |-> k]
<1>1. /\ phase = "ini"
      /\ role' = [k \in DOMAIN args |-> IF k \in X THEN Parser!IniRole(k) ELSE role[k]]
      /\ queue' = Without(s, X)
      /\ phase' = IF Parser!IniFile \in DOMAIN IniFiles THEN "load" ELSE "parse"
      /\ failed' \in BOOLEAN
      /\ UNCHANGED <<args, cmd, target, dashed, next_arg, help, value, exit, ran, runs, before>>
  BY ParserWithout DEF Parser!TakeIni
<1>2. /\ Parser!TypeOK /\ next_arg \in Nat \ {0} /\ ran = <<>> /\ exit = -1
      /\ Nothing /\ \A k \in DOMAIN role : TakenFor(k) = "none"
  BY <1>1 DEF ParserInv
<1>3. Len(args) \in Nat /\ DOMAIN args = 1 .. Len(args) /\ DOMAIN role = DOMAIN args /\ args \in Seq(Tokens)
  BY <1>2 DEF Parser!TypeOK
<1>4. s \in Seq(Nat) /\ s \in Seq(DOMAIN args) /\ DOMAIN s = 1 .. Len(args) /\ \A i \in DOMAIN s : s[i] = i
  BY <1>3
<1>5. Entries(s) = DOMAIN args /\ Increasing(s)
  BY <1>3, <1>4 DEF Entries, Increasing
<1> HIDE DEF s, X
<1>6. queue' \in Seq(DOMAIN args) /\ Increasing(queue') /\ Entries(queue') = DOMAIN args \ X
  BY <1>1, <1>4, <1>5, WithoutFacts, WithoutIncreasing, WithoutEntries
<1>7. /\ DOMAIN role' = DOMAIN args
      /\ \A k \in DOMAIN args : k \in X => role'[k][1] \in {"ini", "file"}
      /\ \A k \in DOMAIN args : k \notin X => role'[k][1] = "none"
  <2>1. \A k : Parser!IniRole(k) \in {<<"file">>, <<"ini">>}
    BY DEF Parser!IniRole
  <2> QED BY <1>1, <1>2, <1>3, <2>1 DEF TakenFor
<1>8. Parser!TypeOK'
  BY <1>1, <1>2, <1>3, <1>6, <1>7 DEF Parser!TypeOK
<1>9. (CalledRightly /\ Parser!CallbackJustified)'
  BY <1>1, <1>2, <1>8 DEF CalledRightly, Parser!CallbackJustified
<1>10. Queued' /\ (\A k \in DOMAIN role : ~WasRead(k))'
  <2>1. \A k \in DOMAIN args : role'[k][1] \in {"none", "ini", "file"}
    BY <1>7
  <2>2. \A k \in DOMAIN args : k \in Entries(queue') <=> role'[k][1] = "none"
    BY <1>6, <1>7
  <2> QED BY <1>6, <1>7, <2>1, <2>2 DEF Queued, WasRead, TakenFor, Increasing, Entries
<1>11. Nothing'
  BY <1>1, <1>2 DEF Nothing
<1>12. phase' \in {"load", "parse"} /\ (phase' = "load" <=> Parser!IniFile' \in DOMAIN IniFiles)
  BY <1>1, FileNameStays
<1>13. ASSUME phase' = "parse" PROVE ReadSoFar'
  <2>1. InFile' = <<>>
    BY <1>12, <1>13 DEF InFile
  <2>2. (\A p \in Parser!Parameter : value[p] = Unsaid(p))'
    BY <1>11, <2>1 DEF Unsaid, Nothing
  <2> QED BY <1>10, <1>11, <2>2, NothingRead DEF Nothing
<1> QED BY <1>1, <1>2, <1>8, <1>9, <1>10, <1>11, <1>12, <1>13 DEF ParserInv

LEMMA ApplyIniKeeps == ParserInv /\ Parser!ApplyIni => ParserInv'
<1> SUFFICES ASSUME ParserInv, Parser!ApplyIni PROVE ParserInv'
  OBVIOUS
<1> DEFINE file == IniFiles[Parser!IniFile]
           throws == {p \in DOMAIN file : Parameters[p].type = "checked" /\ ~Parser!Accepts(p, file[p])}
<1>1. /\ phase = "load"
      /\ value' = [p \in Parser!Parameter |->
                     IF p \in DOMAIN file
                     THEN IF Parser!Accepts(p, file[p]) /\ \A q \in throws : p < q
                          THEN Parser!Held(p, file[p]) ELSE value[p]
                     ELSE value[p]]
      /\ IF throws # {} THEN phase' = "idle" /\ exit' = 1 ELSE phase' = "parse" /\ exit' = exit
      /\ UNCHANGED <<args, queue, cmd, target, dashed, next_arg, help, failed, ran, runs, role, before>>
  BY DEF Parser!ApplyIni, Parser!Exit
<1>2. /\ Parser!TypeOK /\ next_arg \in Nat \ {0} /\ ran = <<>> /\ exit = -1
      /\ Nothing /\ Queued /\ (\A k \in DOMAIN role : ~WasRead(k)) /\ Parser!IniFile \in DOMAIN IniFiles
  BY <1>1 DEF ParserInv
<1>3. Parser!TypeOK'
  <2>1. exit' \in -1 .. 1
    BY <1>1, <1>2
  <2> QED BY <1>1, <1>2, <2>1 DEF Parser!TypeOK
<1>4. (CalledRightly /\ Parser!CallbackJustified)'
  <2>1. ran' = <<>> /\ exit' # 0
    BY <1>1, <1>2
  <2> QED BY <1>3, <2>1 DEF CalledRightly, Parser!CallbackJustified
<1>5. ASSUME phase' = "parse" PROVE ReadSoFar'
  <2>1. throws = {} /\ exit' = exit
    BY <1>1, <1>5
  <2>2. InFile' = file
    BY <1>1, <1>2, FileStays DEF InFile
  <2>3. \A p \in Parser!Parameter :
          value'[p] = IF p \in DOMAIN file /\ Parser!Accepts(p, file[p]) THEN Parser!Held(p, file[p]) ELSE before[p]
    BY <1>1, <1>2, <2>1 DEF Nothing
  <2> HIDE DEF file, throws
  <2>4. (\A p \in Parser!Parameter : value[p] = Unsaid(p))'
    BY <1>1, <2>2, <2>3 DEF Unsaid
  <2>5. Queued'
    BY <1>1, <1>2 DEF Queued, TakenFor, WasRead
  <2>6. (\A k \in DOMAIN role : ~WasRead(k))'
    BY <1>1, <1>2 DEF WasRead, TakenFor
  <2> QED BY <1>1, <1>2, <2>4, <2>5, <2>6, NothingRead DEF Nothing
<1>6. phase' = "parse" => exit' = -1
  BY <1>1, <1>2
<1>7. phase' \in {"idle", "parse"} /\ ran' = <<>> /\ next_arg' \in Nat \ {0}
  BY <1>1, <1>2
<1> QED BY <1>3, <1>4, <1>5, <1>6, <1>7 DEF ParserInv

\* The tokens at the positions K are read, behind all that were read before.
Reads(K) ==
  /\ UNCHANGED <<phase, args, cmd, exit, ran, runs, before>>
  /\ K \subseteq DOMAIN role /\ DOMAIN role' = DOMAIN role
  /\ \A k \in K : TakenFor(k) = "none" /\ WasRead(k)'
  /\ \A k \in DOMAIN role \ K : role'[k] = role[k]
  /\ \A i \in DOMAIN role, k \in K : WasRead(i) => i < k

LEMMA QueueIs ==
  ASSUME Parser!TypeOK, Queued
  PROVE  /\ Len(args) \in Nat /\ DOMAIN role = 1 .. Len(args) /\ DOMAIN args = 1 .. Len(args)
         /\ Len(queue) \in Nat /\ DOMAIN queue = 1 .. Len(queue) /\ queue \in Seq(Nat)
         /\ \A i \in 1 .. Len(queue) : queue[i] \in DOMAIN role /\ queue[i] \in Nat /\ TakenFor(queue[i]) = "none"
         /\ \A i, j \in 1 .. Len(queue) : (i < j => queue[i] < queue[j]) /\ (queue[i] = queue[j] => i = j)
<1>1. args \in Seq(Tokens) /\ queue \in Seq(DOMAIN args) /\ DOMAIN role = DOMAIN args
  BY DEF Parser!TypeOK
<1>2. Len(args) \in Nat /\ DOMAIN args = 1 .. Len(args)
  BY <1>1
<1>3. Len(queue) \in Nat /\ DOMAIN queue = 1 .. Len(queue) /\ \A i \in 1 .. Len(queue) : queue[i] \in DOMAIN args
  BY <1>1
<1>4. queue \in Seq(Nat) /\ \A i \in 1 .. Len(queue) : queue[i] \in Nat
  BY <1>1, <1>2, <1>3
<1>5. \A i \in 1 .. Len(queue) : TakenFor(queue[i]) = "none"
  BY <1>1, <1>3 DEF Queued, Entries
<1>6. \A i, j \in 1 .. Len(queue) : i < j => queue[i] < queue[j]
  BY <1>3 DEF Queued, Increasing
<1>7. ASSUME NEW i \in 1 .. Len(queue), NEW j \in 1 .. Len(queue), queue[i] = queue[j] PROVE i = j
  <2>1. i < j \/ j < i \/ i = j
    BY <1>3
  <2> QED BY <1>4, <1>6, <1>7, <2>1
<1> QED BY <1>1, <1>2, <1>3, <1>4, <1>5, <1>6, <1>7

LEMMA TakeReads ==
  ASSUME Parser!TypeOK, Queued, NEW rs, NEW n \in 1 .. Len(queue), Len(rs) = n, DOMAIN rs = 1 .. n,
         \A j \in 1 .. n : rs[j][1] \notin {"none", "ini", "file"}, Parser!Take(rs)
  PROVE  /\ Reads({queue[j] : j \in 1 .. n})
         /\ \A j \in 1 .. n : role'[queue[j]] = rs[j]
         /\ queue' \in Seq(DOMAIN args) /\ Queued'
<1> DEFINE K == {queue[j] : j \in 1 .. n}
<1>1. /\ queue' = SubSeq(queue, n + 1, Len(queue))
      /\ role' = [k \in DOMAIN role |->
                    IF \E j \in 1 .. n : queue[j] = k THEN rs[CHOOSE j \in 1 .. n : queue[j] = k] ELSE role[k]]
      /\ UNCHANGED <<phase, args, cmd, exit, ran, runs, before>>
  BY DEF Parser!Take
<1>2. n \in Nat /\ n <= Len(queue) /\ 1 .. n \subseteq 1 .. Len(queue)
  BY QueueIs
<1>3. ASSUME NEW j \in 1 .. n PROVE queue[j] \in DOMAIN role /\ role'[queue[j]] = rs[j]
  <2>1. queue[j] \in DOMAIN role
    BY <1>2, QueueIs
  <2>2. (CHOOSE i \in 1 .. n : queue[i] = queue[j]) = j
    BY <1>2, QueueIs
  <2> QED BY <1>1, <2>1, <2>2
<1>4. \A k \in DOMAIN role \ K : role'[k] = role[k]
  BY <1>1
<1>5. DOMAIN role' = DOMAIN role /\ K \subseteq DOMAIN role
  <2>1. \A j \in 1 .. n : queue[j] \in DOMAIN role
    BY <1>3
  <2>2. K \subseteq DOMAIN role
    BY <2>1
  <2> QED BY <1>1, <2>2
<1>6. \A k \in K : TakenFor(k) = "none" /\ WasRead(k)'
  BY <1>2, <1>3, QueueIs DEF WasRead, TakenFor
<1>7. \A i \in DOMAIN role, k \in K : WasRead(i) => i < k
  BY <1>5, <1>6 DEF Queued
<1>8. Reads(K)
  BY <1>1, <1>4, <1>5, <1>6, <1>7 DEF Reads
<1>9. /\ queue' \in Seq(DOMAIN args) /\ DOMAIN queue' = 1 .. Len(queue) - n
      /\ \A i \in 1 .. Len(queue) - n : queue'[i] = queue[i + n] /\ i + n \in n + 1 .. Len(queue)
  <2>1. queue \in Seq(DOMAIN args)
    BY DEF Parser!TypeOK
  <2>2. n + 1 \in 1 .. Len(queue) + 1 /\ Len(queue) \in Nat
    BY <1>2, QueueIs
  <2> QED BY <1>1, <1>2, <2>1, <2>2
<1>10. Increasing(queue')
  <2>1. \A i \in 1 .. Len(queue) - n : i + n \in 1 .. Len(queue)
    BY <1>2, QueueIs
  <2>2. ASSUME NEW i \in 1 .. Len(queue) - n, NEW j \in 1 .. Len(queue) - n, i < j
        PROVE  queue'[i] < queue'[j]
    <3>1. i + n < j + n
      BY <1>2, <2>2, QueueIs
    <3> QED BY <1>9, <2>1, <3>1, QueueIs
  <2> QED BY <1>9, <2>2 DEF Increasing
<1>11. Entries(queue') = Entries(queue) \ K
  <2>1. ASSUME NEW x \in Entries(queue') PROVE x \in Entries(queue) \ K
    <3>1. PICK i \in 1 .. Len(queue) - n : x = queue[i + n]
      BY <1>9, <2>1 DEF Entries
    <3>2. i + n \in 1 .. Len(queue) /\ \A j \in 1 .. n : j # i + n
      BY <1>2, QueueIs
    <3>3. x \in Entries(queue)
      BY <3>1, <3>2, QueueIs DEF Entries
    <3>4. \A j \in 1 .. n : queue[j] # x
      BY <1>2, <3>1, <3>2, QueueIs
    <3> QED BY <3>3, <3>4
  <2>2. ASSUME NEW x \in Entries(queue) \ K PROVE x \in Entries(queue')
    <3>1. PICK i \in 1 .. Len(queue) : x = queue[i]
      BY <2>2, QueueIs DEF Entries
    <3>2. i \notin 1 .. n
      BY <2>2, <3>1
    <3>3. i - n \in 1 .. Len(queue) - n /\ (i - n) + n = i
      BY <1>2, <3>2, QueueIs
    <3>4. queue'[i - n] = x
      BY <1>9, <3>1, <3>3
    <3> QED BY <1>9, <3>3, <3>4 DEF Entries
  <2> QED BY <2>1, <2>2
<1> HIDE DEF K
<1>12. \A k \in DOMAIN role' : k \in Entries(queue') <=> TakenFor(k)' = "none"
  <2> SUFFICES ASSUME NEW k \in DOMAIN role PROVE k \in Entries(queue') <=> TakenFor(k)' = "none"
    BY <1>5
  <2>1. CASE k \in K
    BY <1>6, <1>11, <2>1 DEF WasRead
  <2>2. CASE k \notin K
    BY <1>4, <1>11, <2>2 DEF Queued, TakenFor
  <2> QED BY <2>1, <2>2
<1>13. ASSUME NEW i \in DOMAIN role, NEW k \in DOMAIN role, WasRead(i)', TakenFor(k)' = "none" PROVE i < k
  <2>1. k \notin K /\ TakenFor(k) = "none"
    BY <1>4, <1>6, <1>13 DEF WasRead, TakenFor
  <2>2. CASE i \notin K
    BY <1>4, <1>13, <2>1, <2>2 DEF Queued, WasRead, TakenFor
  <2>3. CASE i \in K
    <3>1. PICK j \in 1 .. n : i = queue[j]
      BY <2>3 DEF K
    <3>2. k \in Entries(queue)
      BY <2>1 DEF Queued
    <3>3. PICK l \in 1 .. Len(queue) : k = queue[l]
      BY <3>2, QueueIs DEF Entries
    <3>4. l \notin 1 .. n
      BY <2>1, <3>3 DEF K
    <3>5. j < l
      BY <1>2, <3>4, QueueIs
    <3> QED BY <1>2, <3>1, <3>3, <3>5, QueueIs
  <2> QED BY <2>2, <2>3
<1>14. Queued'
  BY <1>5, <1>10, <1>12, <1>13 DEF Queued
<1> QED BY <1>3, <1>8, <1>9, <1>14 DEF K

LEMMA OneRead ==
  ASSUME Parser!TypeOK, Queued, queue # <<>>, NEW r, r[1] \notin {"none", "ini", "file"}, Parser!Take(<<r>>),
         NEW a, a = queue[1]
  PROVE  /\ Reads({a}) /\ a \in DOMAIN role /\ role'[a] = r
         /\ queue' \in Seq(DOMAIN args) /\ Queued'
<1>1. Len(queue) \in Nat /\ queue \in Seq(Nat)
  BY QueueIs
<1>2. 1 \in 1 .. Len(queue) /\ 1 \in 1 .. 1
  BY <1>1
<1> DEFINE rs == <<r>>
<1>3. Len(rs) = 1 /\ DOMAIN rs = 1 .. 1 /\ rs[1] = r
  OBVIOUS
<1>4. Parser!Take(rs)
  OBVIOUS
<1> HIDE DEF rs
<1>5. \A j \in 1 .. 1 : j = 1
  OBVIOUS
<1>6. /\ Reads({queue[j] : j \in 1 .. 1}) /\ \A j \in 1 .. 1 : role'[queue[j]] = rs[j]
      /\ queue' \in Seq(DOMAIN args) /\ Queued'
  BY <1>2, <1>3, <1>4, <1>5, TakeReads
<1>7. {queue[j] : j \in 1 .. 1} = {a}
  BY <1>2, <1>5
<1>8. role'[a] = r
  BY <1>2, <1>3, <1>6
<1>9. a \in DOMAIN role
  BY <1>2, QueueIs
<1> QED BY <1>6, <1>7, <1>8, <1>9

LEMMA TwoRead ==
  ASSUME Parser!TypeOK, Queued, Len(queue) > 1,
         NEW rs, Len(rs) = 2, DOMAIN rs = 1 .. 2, \A j \in 1 .. 2 : rs[j][1] \notin {"none", "ini", "file"},
         Parser!Take(rs),
         NEW a, a = queue[1], NEW b, b = queue[2]
  PROVE  /\ Reads({a, b}) /\ a \in DOMAIN role /\ b \in DOMAIN role /\ role'[a] = rs[1] /\ role'[b] = rs[2]
         /\ queue' \in Seq(DOMAIN args) /\ Queued' /\ ReadAfter(a, b)'
<1>1. Len(queue) \in Nat /\ queue \in Seq(Nat)
  BY QueueIs
<1>2. 1 \in 1 .. Len(queue) /\ 2 \in 1 .. Len(queue) /\ 1 \in 1 .. 2 /\ 2 \in 1 .. 2
  BY <1>1
<1>5. \A j \in 1 .. 2 : j = 1 \/ j = 2
  OBVIOUS
<1>6. /\ Reads({queue[j] : j \in 1 .. 2}) /\ \A j \in 1 .. 2 : role'[queue[j]] = rs[j]
      /\ queue' \in Seq(DOMAIN args) /\ Queued'
  BY <1>2, <1>5, TakeReads
<1>7. {queue[j] : j \in 1 .. 2} = {a, b}
  BY <1>2, <1>5
<1>8. role'[a] = rs[1] /\ role'[b] = rs[2] /\ Reads({a, b})
  BY <1>2, <1>6, <1>7
<1>9. a \in DOMAIN role /\ b \in DOMAIN role /\ a < b /\ a \in Nat /\ b \in Nat
  BY <1>2, QueueIs
<1>10. ASSUME NEW j \in a + 1 .. b - 1 PROVE role'[j][1] \in {"ini", "file"}
  <2>1. j \in DOMAIN role /\ a < j /\ j < b
    BY <1>9, QueueIs
  <2>2. TakenFor(j) # "none"
    <3> SUFFICES ASSUME TakenFor(j) = "none" PROVE FALSE
      OBVIOUS
    <3>1. j \in Entries(queue)
      BY <2>1 DEF Queued
    <3>2. PICK i \in 1 .. Len(queue) : j = queue[i]
      BY <3>1, QueueIs DEF Entries
    <3>3. i = 1 \/ i = 2 \/ 2 < i
      BY <1>1
    <3>4. 2 < i => b < j
      BY <1>2, <3>2, QueueIs
    <3> QED BY <1>9, <2>1, <3>2, <3>3, <3>4
  <2>3. ~WasRead(j)
    <3>1. WasRead(j) => j < a
      BY <1>8, <2>1 DEF Reads
    <3> QED BY <1>9, <2>1, <3>1
  <2>4. role'[j] = role[j]
    BY <1>8, <1>9, <2>1 DEF Reads
  <2> QED BY <2>2, <2>3, <2>4 DEF WasRead, TakenFor
<1>11. ReadAfter(a, b)'
  <2>1. WasRead(a)'
    BY <1>8 DEF Reads
  <2> QED BY <1>9, <1>10, <2>1 DEF ReadAfter, TakenFor
<1> QED BY <1>6, <1>8, <1>9, <1>11

LEMMA ReadAfterStays ==
  ASSUME NEW K, Reads(K), Parser!TypeOK, NEW i \in DOMAIN role, NEW k \in DOMAIN role, ReadAfter(i, k)
  PROVE  ReadAfter(i, k)'
<1>1. i < k /\ WasRead(i) /\ \A j \in i + 1 .. k - 1 : TakenFor(j) \in {"ini", "file"}
  BY DEF ReadAfter
<1>2. \A j \in DOMAIN role : TakenFor(j) # "none" => role'[j] = role[j]
  BY DEF Reads
<1>3. DOMAIN role = 1 .. Len(args) /\ Len(args) \in Nat
  BY DEF Parser!TypeOK
<1>4. \A j \in i + 1 .. k - 1 : j \in DOMAIN role
  BY <1>3
<1>5. TakenFor(i) # "none"
  BY <1>1 DEF WasRead
<1> QED BY <1>1, <1>2, <1>4, <1>5 DEF ReadAfter, WasRead, TakenFor

\* A token that was read keeps its role, and one that has the role of one that was read
\* is either such a token or among those that are being read.
LEMMA RolesStay ==
  ASSUME NEW K, Reads(K)
  PROVE  /\ DOMAIN role' = DOMAIN role /\ K \subseteq DOMAIN role
         /\ \A k \in DOMAIN role : TakenFor(k) # "none" => role'[k] = role[k]
         /\ \A k \in DOMAIN role : k \in K \/ role'[k] = role[k]
         /\ \A k \in K, i \in DOMAIN role : WasRead(i) => i < k
BY DEF Reads

LEMMA RefusedStays ==
  ASSUME NEW K, Reads(K), RefusedIsKnown, failed => failed', help => help',
         \A k \in K : (TakenFor(k)' \in {"unknown", "unexpected"} => failed') /\ (TakenFor(k)' = "help" => help')
  PROVE  RefusedIsKnown'
BY RolesStay DEF RefusedIsKnown, TakenFor

LEMMA ValuesStay ==
  ASSUME NEW K, Reads(K), Parser!TypeOK, ValuesFollow,
         \A k \in K : TakenFor(k)' = "value" =>
           Parser!IsValue(args[k]) /\ \E i \in DOMAIN role : ReadAfter(i, k)' /\ role'[i] = <<"option", role'[k][2]>>
  PROVE  ValuesFollow'
<1>0. args' = args
  BY DEF Reads
<1> SUFFICES ASSUME NEW k \in DOMAIN role, TakenFor(k)' = "value"
             PROVE  Parser!IsValue(args[k]) /\ \E i \in DOMAIN role : ReadAfter(i, k)' /\ role'[i] = <<"option", role'[k][2]>>
  BY <1>0, RolesStay DEF ValuesFollow, Parser!IsValue, Parser!Word
<1>1. CASE k \notin K
  <2>1. role'[k] = role[k] /\ TakenFor(k) = "value"
    BY <1>1, RolesStay DEF TakenFor
  <2>2. PICK i \in DOMAIN role : ReadAfter(i, k) /\ role[i] = <<"option", role[k][2]>>
    BY <2>1 DEF ValuesFollow
  <2>3. ReadAfter(i, k)'
    BY <2>2, ReadAfterStays
  <2>4. role'[i] = role[i]
    BY <2>2, RolesStay DEF ReadAfter, WasRead
  <2>5. Parser!IsValue(args[k])
    BY <2>1 DEF ValuesFollow
  <2> QED BY <2>1, <2>2, <2>3, <2>4, <2>5
<1> QED BY <1>1

LEMMA OptionsStay ==
  ASSUME NEW K, Reads(K), Parser!TypeOK, OptionsHaveValues, failed => failed',
         \A k \in K :
           TakenFor(k)' = "option" /\ args[k].value = NoValue /\ Parameters[role'[k][2]].type # "optional" =>
             failed' \/ \E j \in DOMAIN role : ReadAfter(k, j)' /\ role'[j] = <<"value", role'[k][2]>>
  PROVE  OptionsHaveValues'
<1>0. args' = args
  BY DEF Reads
<1> SUFFICES ASSUME NEW k \in DOMAIN role, TakenFor(k)' = "option", args[k].value = NoValue,
                    Parameters[role'[k][2]].type # "optional", ~failed'
             PROVE  \E j \in DOMAIN role : ReadAfter(k, j)' /\ role'[j] = <<"value", role'[k][2]>>
  BY <1>0, RolesStay DEF OptionsHaveValues
<1>1. CASE k \notin K
  <2>1. role'[k] = role[k] /\ TakenFor(k) = "option"
    BY <1>1, RolesStay DEF TakenFor
  <2>2. PICK j \in DOMAIN role : ReadAfter(k, j) /\ role[j] = <<"value", role[k][2]>>
    BY <2>1 DEF OptionsHaveValues
  <2>3. ReadAfter(k, j)'
    BY <2>2, ReadAfterStays
  <2>4. role'[j] = role[j]
    BY <2>2, RolesStay DEF TakenFor
  <2> QED BY <2>1, <2>2, <2>3, <2>4
<1> QED BY <1>1

LEMMA ArgumentsStay ==
  ASSUME NEW K, Reads(K), ArgumentsInOrder, next_arg' = next_arg,
         \A k \in K : TakenFor(k)' # "argument"
  PROVE  ArgumentsInOrder'
<1>0. cmd' = cmd
  BY DEF Reads
<1>1. ASSUME NEW c, NEW n, NEW k \in DOMAIN role, role'[k] = ArgumentAt(c, n) PROVE role[k] = ArgumentAt(c, n)
  BY <1>1, RolesStay DEF ArgumentAt, TakenFor
<1>2. ASSUME NEW c, NEW n, NEW k \in DOMAIN role, role[k] = ArgumentAt(c, n) PROVE role'[k] = ArgumentAt(c, n)
  BY <1>2, RolesStay DEF ArgumentAt, TakenFor
<1>3. ASSUME NEW c \in Commands, NEW n \in 2 .. Len(Parser!Positionals(c)), NEW k \in DOMAIN role,
             role'[k] = ArgumentAt(c, n)
      PROVE  \E j \in 1 .. k - 1 : role'[j] = ArgumentAt(c, n - 1)
  <2>1. role[k] = ArgumentAt(c, n)
    BY <1>1, <1>3
  <2>2. PICK j \in 1 .. k - 1 : role[j] = ArgumentAt(c, n - 1)
    BY <2>1 DEF ArgumentsInOrder
  <2>3. j \in DOMAIN role => role'[j] = ArgumentAt(c, n - 1)
    BY <1>2, <2>2
  <2> QED BY <2>2, <2>3
<1>4. ASSUME NEW n \in 1 .. next_arg - 1, n <= Len(Parser!Positionals(cmd))
      PROVE  \E j \in DOMAIN role : role'[j] = ArgumentAt(cmd, n)
  BY <1>2, <1>4 DEF ArgumentsInOrder
<1>5. DOMAIN role' = DOMAIN role
  BY RolesStay
<1>6. (\A c \in Commands : \A n \in 2 .. Len(Parser!Positionals(c)) : \A k \in DOMAIN role :
         role[k] = ArgumentAt(c, n) => \E j \in 1 .. k - 1 : role[j] = ArgumentAt(c, n - 1))'
  BY <1>3, <1>5 DEF ArgumentAt
<1>7. (\A n \in 1 .. next_arg - 1 : n <= Len(Parser!Positionals(cmd)) =>
         \E j \in DOMAIN role : role[j] = ArgumentAt(cmd, n))'
  BY <1>0, <1>4, <1>5 DEF ArgumentAt
<1> QED BY <1>6, <1>7 DEF ArgumentsInOrder

LEMMA HasStays ==
  ASSUME \A p \in Parser!Parameter : Parser!IsSet(p) => Parser!IsSet(p)', NEW c, Has(c)
  PROVE  Has(c)'
<1>1. Parser!Entries(Parser!Positionals(c)) \subseteq Parser!Parameter
  BY PositionalsAre DEF Parser!Of
<1> QED BY <1>1 DEF Has

LEMMA CommandsUsedStay ==
  ASSUME NEW K, Reads(K), \A k \in K : TakenFor(k)' # "command"
  PROVE  Parser!CommandsUsed' = Parser!CommandsUsed
<1>1. DOMAIN role' = DOMAIN role
  BY RolesStay
<1>2. \A k \in DOMAIN role : role'[k][1] = "command" => role'[k] = role[k]
  BY RolesStay DEF TakenFor
<1>3. \A k \in DOMAIN role : role[k][1] = "command" => role'[k] = role[k]
  BY RolesStay DEF TakenFor
<1> QED BY <1>1, <1>2, <1>3 DEF Parser!CommandsUsed

LEMMA CommandsStay ==
  ASSUME NEW K, Reads(K), \A k \in K : TakenFor(k)' # "command", CommandsInOrder, target' = target,
         \A p \in Parser!Parameter : Parser!IsSet(p) => Parser!IsSet(p)'
  PROVE  CommandsInOrder'
<1>1. Parser!CommandsUsed' = Parser!CommandsUsed /\ cmd' = cmd
  BY CommandsUsedStay DEF Reads
<1>2. \A c : Has(c) => Has(c)'
  BY HasStays
<1> QED BY <1>1, <1>2 DEF CommandsInOrder

\* What was said of a parameter still counts when nothing is said of it.
LEMMA SettingStays ==
  ASSUME NEW K, Reads(K), NEW p, SettingHolds(p), value'[p] = value[p],
         \A k \in K : role'[k][2] = p =>
           ~Parser!Gives(k)' /\ (TakenFor(k)' = "option" => args[k].value # NoValue)
  PROVE  SettingHolds(p)'
<1>1. args' = args /\ before' = before
  BY DEF Reads
<1>2. \A k \in DOMAIN role : k \notin K => (Parser!Gives(k)' <=> Parser!Gives(k))
  BY <1>1, RolesStay DEF Parser!Gives
<1>3. \A k \in K : ~Parser!Gives(k) /\ TakenFor(k) = "none"
  BY DEF Reads, Parser!Gives, TakenFor
<1>4. GivenFor(p)' = GivenFor(p)
  BY <1>2, <1>3, RolesStay DEF GivenFor
<1>5. MissingFor(p)' = MissingFor(p)
  <2>1. ASSUME NEW k \in DOMAIN role
        PROVE  role'[k] = <<"option", p>> /\ args[k].value = NoValue
                 <=> role[k] = <<"option", p>> /\ args[k].value = NoValue
    <3>1. CASE k \in K
      <4>1. role[k] # <<"option", p>>
        BY <1>3, <3>1 DEF TakenFor
      <4>2. role'[k] = <<"option", p>> => role'[k][2] = p /\ TakenFor(k)' = "option"
        BY DEF TakenFor
      <4> QED BY <3>1, <4>1, <4>2
    <3>2. CASE k \notin K
      BY <3>2, RolesStay
    <3> QED BY <3>1, <3>2
  <2> QED BY <1>1, <1>4, <2>1, RolesStay DEF MissingFor
<1>6. \A k \in GivenFor(p) : Parser!GivenText(k)' = Parser!GivenText(k)
  BY <1>1, <1>3, RolesStay DEF GivenFor, Parser!GivenText
<1>7. InFile' = InFile
  BY <1>1, FileStays
<1> QED BY <1>1, <1>4, <1>5, <1>6, <1>7 DEF SettingHolds

\* The last text that is given counts.
LEMMA SettingGiven ==
  ASSUME NEW K, Reads(K), Parser!TypeOK, NEW p, NEW g \in K, \A k \in K : k <= g,
         Parser!Gives(g)', role'[g][2] = p, value'[p] = Parser!Held(p, Parser!GivenText(g)')
  PROVE  SettingHolds(p)'
<1>1. DOMAIN role = 1 .. Len(args) /\ Len(args) \in Nat
  BY DEF Parser!TypeOK
<1>2. g \in GivenFor(p)'
  BY RolesStay DEF GivenFor
<1>3. \A k \in DOMAIN role : TakenFor(k)' \notin {"none", "ini", "file"} => k <= g
  <2> SUFFICES ASSUME NEW k \in DOMAIN role, TakenFor(k)' \notin {"none", "ini", "file"}, k \notin K PROVE k <= g
    OBVIOUS
  <2>1. WasRead(k)
    BY RolesStay DEF WasRead, TakenFor
  <2>2. k < g
    BY <2>1, RolesStay
  <2> QED BY <1>1, <2>2, RolesStay
<1>4. MissingFor(p)' = {}
  <2> SUFFICES ASSUME NEW k \in MissingFor(p)' PROVE FALSE
    OBVIOUS
  <2>1. k \in DOMAIN role /\ role'[k] = <<"option", p>> /\ g < k
    BY <1>2, RolesStay DEF MissingFor
  <2>2. k <= g
    BY <1>3, <2>1 DEF TakenFor
  <2> QED BY <1>1, <2>1, <2>2, RolesStay
<1>5. ASSUME NEW k \in GivenFor(p)', g <= k PROVE k = g
  <2>1. k \in DOMAIN role /\ TakenFor(k)' \notin {"none", "ini", "file"}
    BY <1>5, RolesStay DEF GivenFor, Parser!Gives, TakenFor
  <2>2. k <= g
    BY <1>3, <2>1
  <2> QED BY <1>1, <1>5, <2>1, <2>2, RolesStay
<1> QED BY <1>2, <1>4, <1>5 DEF SettingHolds

\* An option without the text it can do without counts.
LEMMA SettingMissing ==
  ASSUME NEW p, NEW a, Reads({a}), Parser!TypeOK, role'[a] = <<"option", p>>, args[a].value = NoValue, value'[p] = "nullopt"
  PROVE  SettingHolds(p)'
<1>1. args' = args
  BY DEF Reads
<1>2. ~Parser!Gives(a)'
  BY <1>1 DEF Parser!Gives
<1>3. ASSUME NEW k \in GivenFor(p)' PROVE k < a
  <2>1. k \in DOMAIN role /\ k # a /\ role'[k][1] \in {"flag", "value", "argument", "option"}
    BY <1>2, <1>3, RolesStay DEF GivenFor, Parser!Gives
  <2>2. WasRead(k)
    BY <2>1, RolesStay DEF WasRead, TakenFor
  <2> QED BY <2>2, <2>1, RolesStay
<1>4. a \in MissingFor(p)'
  BY <1>1, <1>3, RolesStay DEF MissingFor
<1> QED BY <1>4 DEF SettingHolds

LEMMA ParserTyped ==
  ASSUME NEW K, Reads(K), Parser!TypeOK, queue' \in Seq(DOMAIN args),
         target' \in Commands \cup {Parser!NoCommand}, {dashed', help', failed'} \subseteq BOOLEAN,
         DOMAIN value' = Parser!Parameter
  PROVE  Parser!TypeOK'
BY DEF Parser!TypeOK, Reads

\* What is left to say when tokens were read.
LEMMA ReadingGoesOn ==
  ASSUME ParserInv, NEW K, Reads(K), phase = "parse", Parser!TypeOK', next_arg' \in Nat \ {0}, ReadSoFar'
  PROVE  ParserInv'
<1>1. phase' = "parse" /\ ran' = <<>> /\ exit' = -1
  BY DEF ParserInv, Reads
<1>2. (CalledRightly /\ Parser!CallbackJustified)'
  BY <1>1 DEF CalledRightly, Parser!CallbackJustified
<1> QED BY <1>1, <1>2 DEF ParserInv

LEMMA Reading ==
  ASSUME ParserInv, Parser!Parsing
  PROVE  /\ Parser!TypeOK /\ next_arg \in Nat \ {0} /\ ReadSoFar /\ Queued
         /\ phase = "parse" /\ target = Parser!NoCommand /\ queue # <<>>
         /\ queue[1] \in DOMAIN args /\ args[queue[1]] \in Tokens
         /\ cmd \in Commands /\ {dashed, help, failed} \subseteq BOOLEAN /\ DOMAIN value = Parser!Parameter
<1>1. phase = "parse" /\ target = Parser!NoCommand /\ queue # <<>>
  BY DEF Parser!Parsing
<1>2. Parser!TypeOK /\ next_arg \in Nat \ {0} /\ ReadSoFar /\ Queued
  BY <1>1 DEF ParserInv, ReadSoFar
<1>3. queue \in Seq(DOMAIN args) /\ args \in Seq(Tokens) /\ cmd \in Commands
      /\ {dashed, help, failed} \subseteq BOOLEAN /\ DOMAIN value = Parser!Parameter
  BY <1>2 DEF Parser!TypeOK
<1>4. 1 \in 1 .. Len(queue)
  BY <1>1, <1>3
<1>5. queue[1] \in DOMAIN args
  BY <1>3, <1>4
<1> QED BY <1>1, <1>2, <1>3, <1>5

LEMMA ParseIs ==
  ASSUME NEW p \in Parser!Parameter, NEW text, text # NoValue, Parser!Parse(p, text),
         DOMAIN value = Parser!Parameter, failed \in BOOLEAN
  PROVE  /\ failed' \in BOOLEAN /\ (failed => failed') /\ DOMAIN value' = Parser!Parameter
         /\ ~failed' => value'[p] = Parser!Held(p, text)
         /\ \A q \in Parser!Parameter : q # p => value'[q] = value[q]
         /\ \A q \in Parser!Parameter : Parser!IsSet(q) => Parser!IsSet(q)'
<1>1. CASE Parser!Accepts(p, text)
  <2>1. value' = [value EXCEPT ![p] = Parser!Held(p, text)] /\ failed' = failed
    BY <1>1 DEF Parser!Parse
  <2>2. Parser!Held(p, text) # NoValue
    BY HeldIs
  <2> QED BY <2>1, <2>2 DEF Parser!IsSet
<1>2. CASE ~Parser!Accepts(p, text)
  <2>1. value' = value /\ failed' = TRUE
    BY <1>2 DEF Parser!Parse
  <2> QED BY <2>1 DEF Parser!IsSet
<1> QED BY <1>1, <1>2

LEMMA TextsAreSomething ==
  ASSUME args \in Seq(Tokens), NEW k \in DOMAIN args
  PROVE  args[k].text # NoValue
<1>1. args[k] \in Tokens
  OBVIOUS
<1>2. \A t \in Tokens : t.text # NoValue
  BY ParserAssumption DEF Parser!CommandLineAssumption
<1> QED BY <1>1, <1>2

\* A token that says nothing of a parameter or a command is read.
LEMMA QuietRead ==
  ASSUME ParserInv, Parser!Parsing, NEW r, r[1] \in {"help", "terminator", "unknown", "unexpected"},
         Parser!Take(<<r>>), {dashed', help', failed'} \subseteq BOOLEAN, failed => failed', help => help',
         r[1] \in {"unknown", "unexpected"} => failed', r[1] = "help" => help',
         UNCHANGED <<value, next_arg, target>>
  PROVE  ParserInv'
<1>1. PICK a : a = queue[1]
  OBVIOUS
<1>2. /\ Parser!TypeOK /\ next_arg \in Nat \ {0} /\ ReadSoFar /\ Queued
      /\ phase = "parse" /\ target = Parser!NoCommand /\ queue # <<>> /\ DOMAIN value = Parser!Parameter
  BY Reading
<1>3. /\ Reads({a}) /\ a \in DOMAIN role /\ role'[a] = r /\ queue' \in Seq(DOMAIN args) /\ Queued'
  BY <1>1, <1>2, OneRead
<1>4. \A k \in {a} : TakenFor(k)' = r[1]
  BY <1>3 DEF TakenFor
<1>5. \A p \in Parser!Parameter : Parser!IsSet(p) => Parser!IsSet(p)'
  BY DEF Parser!IsSet
<1>6. RefusedIsKnown'
  BY <1>2, <1>3, <1>4, RefusedStays DEF ReadSoFar
<1>7. ValuesFollow' /\ OptionsHaveValues' /\ ArgumentsInOrder'
  BY <1>2, <1>3, <1>4, ValuesStay, OptionsStay, ArgumentsStay DEF ReadSoFar
<1>8. CommandsInOrder'
  BY <1>2, <1>3, <1>4, <1>5, CommandsStay DEF ReadSoFar
<1>9. SettingsHold'
  <2>1. ASSUME NEW p, SettingHolds(p) PROVE SettingHolds(p)'
    <3>1. ~Parser!Gives(a)' /\ TakenFor(a)' # "option"
      BY <1>3 DEF Parser!Gives, TakenFor
    <3>2. \A k \in {a} : role'[k][2] = p =>
            ~Parser!Gives(k)' /\ (TakenFor(k)' = "option" => args[k].value # NoValue)
      BY <3>1
    <3>3. value'[p] = value[p]
      OBVIOUS
    <3> QED BY <1>3, <2>1, <3>2, <3>3, SettingStays
  <2> QED BY <1>2, <2>1 DEF ReadSoFar, SettingsHold
<1>10. Parser!TypeOK'
  BY <1>2, <1>3, ParserTyped DEF Parser!TypeOK
<1> QED BY <1>2, <1>3, <1>6, <1>7, <1>8, <1>9, <1>10, ReadingGoesOn DEF ReadSoFar

LEMMA HelpFlagKeeps == ParserInv /\ Parser!HelpFlag => ParserInv'
<1> SUFFICES ASSUME ParserInv, Parser!HelpFlag PROVE ParserInv'
  OBVIOUS
<1> DEFINE r == <<"help">>
<1>1. /\ Parser!Parsing /\ help' = TRUE /\ Parser!Take(<<r>>)
      /\ UNCHANGED <<failed, value, dashed, next_arg, target>>
  BY DEF Parser!HelpFlag
<1>2. r[1] = "help" /\ {dashed, help, failed} \subseteq BOOLEAN
  BY <1>1, Reading
<1> HIDE DEF r
<1> QED BY <1>1, <1>2, QuietRead

LEMMA TerminatorKeeps == ParserInv /\ Parser!Terminator => ParserInv'
<1> SUFFICES ASSUME ParserInv, Parser!Terminator PROVE ParserInv'
  OBVIOUS
<1> DEFINE r == <<"terminator">>
<1>1. /\ Parser!Parsing /\ dashed' = TRUE /\ Parser!Take(<<r>>)
      /\ UNCHANGED <<failed, value, help, next_arg, target>>
  BY DEF Parser!Terminator
<1>2. r[1] = "terminator" /\ {dashed, help, failed} \subseteq BOOLEAN
  BY <1>1, Reading
<1> HIDE DEF r
<1> QED BY <1>1, <1>2, QuietRead

LEMMA RefusedKeeps == ParserInv /\ (Parser!UnknownOption \/ Parser!Unexpected) => ParserInv'
<1> SUFFICES ASSUME ParserInv, Parser!UnknownOption \/ Parser!Unexpected PROVE ParserInv'
  OBVIOUS
<1>1. PICK r \in {<<"unknown">>, <<"unexpected">>} : Parser!Parsing /\ Parser!Fails(<<r>>)
  BY DEF Parser!UnknownOption, Parser!Unexpected, Parser!IsOption, Parser!IsPositional
<1>2. /\ Parser!Take(<<r>>) /\ failed' = TRUE /\ UNCHANGED <<value, help, dashed, next_arg, target>>
  BY <1>1 DEF Parser!Fails
<1>3. r[1] \in {"unknown", "unexpected"} /\ {dashed, help, failed} \subseteq BOOLEAN
  BY <1>1, Reading
<1> QED BY <1>1, <1>2, <1>3, QuietRead

LEMMA SubcommandKeeps == ParserInv /\ Parser!Subcommand => ParserInv'
<1> SUFFICES ASSUME ParserInv, Parser!Subcommand PROVE ParserInv'
  OBVIOUS
<1>1. PICK a : a = queue[1]
  OBVIOUS
<1>2. /\ Parser!Parsing /\ args[a].text \in Parser!Children(cmd) /\ target' = args[a].text
      /\ Parser!Take(<<<<"command", args[a].text>>>>)
      /\ UNCHANGED <<failed, value, help, dashed, next_arg>>
  BY <1>1 DEF Parser!Subcommand, Parser!Here, Parser!NamesChild
<1>3. /\ Parser!TypeOK /\ next_arg \in Nat \ {0} /\ ReadSoFar /\ Queued /\ phase = "parse"
      /\ target = Parser!NoCommand /\ queue # <<>> /\ DOMAIN value = Parser!Parameter
      /\ {dashed, help, failed} \subseteq BOOLEAN
  BY <1>2, Reading
<1>4. PICK c \in Commands \ {Root} : c = args[a].text /\ Parent[c] = cmd
  BY <1>2 DEF Parser!Children
<1>5. PICK r : r = <<"command", c>>
  OBVIOUS
<1>6. /\ Reads({a}) /\ a \in DOMAIN role /\ role'[a] = r /\ queue' \in Seq(DOMAIN args) /\ Queued'
  BY <1>1, <1>2, <1>3, <1>4, <1>5, OneRead
<1>7. \A k \in {a} : TakenFor(k)' = "command"
  BY <1>5, <1>6 DEF TakenFor
<1>8. \A p \in Parser!Parameter : Parser!IsSet(p) => Parser!IsSet(p)'
  BY <1>2 DEF Parser!IsSet
<1>9. RefusedIsKnown'
  BY <1>2, <1>3, <1>6, <1>7, RefusedStays DEF ReadSoFar
<1>10. ValuesFollow' /\ OptionsHaveValues' /\ ArgumentsInOrder'
  BY <1>2, <1>3, <1>6, <1>7, ValuesStay, OptionsStay, ArgumentsStay DEF ReadSoFar
<1>11. CommandsInOrder'
  <2>1. Parser!CommandsUsed' = Parser!CommandsUsed \cup {c}
    <3>1. TakenFor(a) = "none" /\ \A k \in DOMAIN role : k = a \/ role'[k] = role[k]
      BY <1>6 DEF Reads
    <3>2. DOMAIN role' = DOMAIN role /\ role'[a][1] = "command" /\ role'[a][2] = c /\ role[a][1] # "command"
      BY <1>5, <1>6, <3>1 DEF Reads, TakenFor
    <3> QED BY <1>6, <3>1, <3>2 DEF Parser!CommandsUsed
  <2>2. cmd' = cmd /\ target' = c /\ cmd \in Parser!CommandsUsed /\ Parser!CommandsUsed \subseteq Commands
    BY <1>2, <1>3, <1>4, <1>6 DEF Reads, ReadSoFar, CommandsInOrder
  <2>3. \A d \in Parser!CommandsUsed \ {cmd} : Has(d)'
    <3>1. Parser!NoCommand \notin Commands
      BY ParserAssumption DEF Parser!CommandLineAssumption
    <3>2. \A d \in Parser!CommandsUsed \ {cmd} : Has(d)
      BY <1>3, <2>2, <3>1 DEF ReadSoFar, CommandsInOrder
    <3> QED BY <1>8, <3>2, HasStays
  <2>4. \A d \in Parser!CommandsUsed \ {Root} : Parent[d] \in Parser!CommandsUsed
    BY <1>3 DEF ReadSoFar, CommandsInOrder
  <2> QED BY <1>4, <2>1, <2>2, <2>3, <2>4 DEF CommandsInOrder
<1>12. SettingsHold'
  <2>1. ASSUME NEW p, SettingHolds(p) PROVE SettingHolds(p)'
    <3>1. ~Parser!Gives(a)' /\ TakenFor(a)' # "option"
      BY <1>5, <1>6 DEF Parser!Gives, TakenFor
    <3>2. \A k \in {a} : role'[k][2] = p =>
            ~Parser!Gives(k)' /\ (TakenFor(k)' = "option" => args[k].value # NoValue)
      BY <3>1
    <3>3. value'[p] = value[p]
      BY <1>2
    <3> QED BY <1>6, <2>1, <3>2, <3>3, SettingStays
  <2> QED BY <1>2, <1>3, <2>1 DEF ReadSoFar, SettingsHold
<1>13. Parser!TypeOK'
  BY <1>2, <1>3, <1>4, <1>6, ParserTyped
<1> QED BY <1>2, <1>3, <1>6, <1>9, <1>10, <1>11, <1>12, <1>13, ReadingGoesOn DEF ReadSoFar

\* A token that sets p, or would.
LEMMA OneSetting ==
  ASSUME ParserInv, Parser!Parsing, NEW a, a = queue[1], NEW p \in Parser!Parameter,
         NEW as \in {"flag", "option", "argument"}, Parser!Take(<<<<as, p>>>>),
         failed' \in BOOLEAN, failed => failed', UNCHANGED <<help, dashed, target>>, next_arg' \in Nat \ {0},
         DOMAIN value' = Parser!Parameter,
         \A q \in Parser!Parameter : Parser!IsSet(q) => Parser!IsSet(q)',
         \A q \in Parser!Parameter : q # p => value'[q] = value[q],
         as = "option" /\ args[a].value = NoValue /\ Parameters[p].type # "optional" => failed',
         ~failed' => value'[p] = IF as # "option" THEN Parser!Held(p, args[a].text)
                                 ELSE IF args[a].value # NoValue THEN Parser!Held(p, args[a].value) ELSE "nullopt",
         ArgumentsInOrder'
  PROVE  ParserInv'
<1>2. /\ Parser!TypeOK /\ next_arg \in Nat \ {0} /\ ReadSoFar /\ Queued
      /\ phase = "parse" /\ target = Parser!NoCommand /\ queue # <<>>
      /\ {dashed, help, failed} \subseteq BOOLEAN
  BY Reading
<1>1. PICK r : r = <<as, p>>
  OBVIOUS
<1>3. r = <<as, p>> /\ r[1] = as /\ r[2] = p
  BY <1>1
<1>4. /\ Reads({a}) /\ a \in DOMAIN role /\ role'[a] = r /\ queue' \in Seq(DOMAIN args) /\ Queued'
  BY <1>2, <1>3, OneRead
<1>5. args' = args /\ \A k \in {a} : TakenFor(k)' = as /\ role'[k][2] = p
  BY <1>3, <1>4 DEF TakenFor, Reads
<1>6. RefusedIsKnown'
  BY <1>2, <1>4, <1>5, RefusedStays DEF ReadSoFar
<1>7. ValuesFollow'
  BY <1>2, <1>4, <1>5, ValuesStay DEF ReadSoFar
<1>8. OptionsHaveValues'
  BY <1>2, <1>4, <1>5, OptionsStay DEF ReadSoFar
<1>9. CommandsInOrder'
  BY <1>2, <1>4, <1>5, CommandsStay DEF ReadSoFar
<1>10. ASSUME ~failed', NEW q \in Parser!Parameter PROVE SettingHolds(q)'
  <2>1. SettingHolds(q)
    BY <1>2, <1>10 DEF ReadSoFar, SettingsHold
  <2>2. CASE q # p
    <3>1. \A k \in {a} : role'[k][2] # q
      BY <1>5, <2>2
    <3> QED BY <1>4, <2>1, <2>2, <3>1, SettingStays
  <2>3. CASE q = p /\ (as # "option" \/ args[a].value # NoValue)
    <3>1. Parser!Gives(a)'
      BY <1>3, <1>4, <1>5, <2>3 DEF Parser!Gives
    <3>2. Parser!GivenText(a)' = IF as = "option" THEN args[a].value ELSE args[a].text
      BY <1>3, <1>4, <1>5 DEF Parser!GivenText
    <3>3. value'[p] = Parser!Held(p, Parser!GivenText(a)')
      BY <1>10, <2>3, <3>2
    <3>4. \A k \in {a} : k <= a
      BY <1>2, <1>4 DEF Parser!TypeOK
    <3> QED BY <1>2, <1>4, <1>5, <2>3, <3>1, <3>3, <3>4, SettingGiven
  <2>4. CASE q = p /\ as = "option" /\ args[a].value = NoValue
    <3>1. role'[a] = <<"option", p>> /\ value'[p] = "nullopt"
      BY <1>3, <1>4, <1>10, <2>4
    <3> QED BY <1>2, <1>4, <2>4, <3>1, SettingMissing
  <2> QED BY <2>2, <2>3, <2>4
<1>11. SettingsHold'
  BY <1>10 DEF SettingsHold
<1>12. Parser!TypeOK'
  BY <1>2, <1>4, ParserTyped
<1> QED BY <1>2, <1>4, <1>6, <1>7, <1>8, <1>9, <1>11, <1>12, ReadingGoesOn DEF ReadSoFar

LEMMA OptionReads ==
  ASSUME ParserInv, NEW as, NEW p \in Parser!Parameter, Parser!Option(as, p), NEW a, a = queue[1]
  PROVE  /\ Parser!Parsing /\ a \in DOMAIN args /\ args \in Seq(Tokens)
         /\ Parameters[p].kind = as /\ Parser!Here = args[a]
         /\ DOMAIN value = Parser!Parameter /\ {help, failed, dashed} \subseteq BOOLEAN
         /\ next_arg \in Nat \ {0}
<1>1. Parser!Parsing /\ Parameters[p].kind = as
  BY DEF Parser!Option, Parser!IsOption
<1> QED BY <1>1, Reading DEF Parser!TypeOK, Parser!Here

LEMMA NotAnArgument ==
  ASSUME ParserInv, Parser!Parsing, NEW r, r[1] \in {"flag", "option"}, Parser!Take(<<r>>), next_arg' = next_arg
  PROVE  ArgumentsInOrder'
<1>1. PICK a : a = queue[1]
  OBVIOUS
<1>2. Parser!TypeOK /\ ReadSoFar /\ Queued /\ queue # <<>>
  BY Reading
<1>3. Reads({a}) /\ role'[a] = r
  BY <1>1, <1>2, OneRead
<1>4. \A k \in {a} : TakenFor(k)' # "argument"
  BY <1>3 DEF TakenFor
<1> QED BY <1>2, <1>3, <1>4, ArgumentsStay DEF ReadSoFar

LEMMA FlagKeeps == ASSUME NEW p \in Parser!Parameter PROVE ParserInv /\ Parser!Flag(p) => ParserInv'
<1> SUFFICES ASSUME ParserInv, Parser!Flag(p) PROVE ParserInv'
  OBVIOUS
<1>1. PICK a : a = queue[1]
  OBVIOUS
<1>2. Parser!Option("flag", p)
  BY DEF Parser!Flag
<1>3. /\ Parser!Parsing /\ a \in DOMAIN args /\ args \in Seq(Tokens)
      /\ Parameters[p].kind = "flag" /\ Parser!Here = args[a]
      /\ DOMAIN value = Parser!Parameter /\ {help, failed, dashed} \subseteq BOOLEAN
      /\ next_arg \in Nat \ {0}
  BY <1>1, <1>2, OptionReads
<1>4. /\ IF args[a].value = NoValue \/ args[a].form = "short"
         THEN value' = [value EXCEPT ![p] = "true"] ELSE value' = value
      /\ failed' = (failed \/ args[a].value # NoValue)
      /\ Parser!Take(<<<<"flag", p>>>>) /\ UNCHANGED <<help, dashed, next_arg, target>>
  BY <1>3 DEF Parser!Flag
<1>5. NoValue # "true" /\ Parser!Held(p, args[a].text) = "true"
  BY <1>3, HeldIs, ParserAssumption DEF Parser!CommandLineAssumption
<1>6. /\ DOMAIN value' = Parser!Parameter /\ \A q \in Parser!Parameter : q # p => value'[q] = value[q]
      /\ ~failed' => value'[p] = Parser!Held(p, args[a].text)
  BY <1>3, <1>4, <1>5
<1>7. \A q \in Parser!Parameter : Parser!IsSet(q) => Parser!IsSet(q)'
  BY <1>3, <1>4, <1>5 DEF Parser!IsSet
<1>8. ArgumentsInOrder'
  <2>1. PICK r : r = <<"flag", p>>
    OBVIOUS
  <2>2. r[1] = "flag" /\ Parser!Take(<<r>>) /\ next_arg' = next_arg
    BY <1>4, <2>1
  <2> QED BY <1>3, <2>2, NotAnArgument
<1>9. failed' \in BOOLEAN /\ (failed => failed')
  BY <1>3, <1>4
<1> QED BY <1>1, <1>3, <1>4, <1>6, <1>7, <1>8, <1>9, OneSetting

LEMMA AttachedValueKeeps ==
  ASSUME NEW p \in Parser!Parameter PROVE ParserInv /\ Parser!AttachedValue(p) => ParserInv'
<1> SUFFICES ASSUME ParserInv, Parser!AttachedValue(p) PROVE ParserInv'
  OBVIOUS
<1>1. PICK a : a = queue[1]
  OBVIOUS
<1>2. Parser!Option("option", p)
  BY DEF Parser!AttachedValue
<1>3. /\ Parser!Parsing /\ a \in DOMAIN args /\ args \in Seq(Tokens) /\ Parser!Here = args[a]
      /\ DOMAIN value = Parser!Parameter /\ {help, failed, dashed} \subseteq BOOLEAN
      /\ next_arg \in Nat \ {0}
  BY <1>1, <1>2, OptionReads
<1>4. /\ args[a].value # NoValue /\ Parser!Parse(p, args[a].value)
      /\ Parser!Take(<<<<"option", p>>>>) /\ UNCHANGED <<help, dashed, next_arg, target>>
  BY <1>3 DEF Parser!AttachedValue
<1>5. /\ failed' \in BOOLEAN /\ (failed => failed') /\ DOMAIN value' = Parser!Parameter
      /\ ~failed' => value'[p] = Parser!Held(p, args[a].value)
      /\ \A q \in Parser!Parameter : q # p => value'[q] = value[q]
      /\ \A q \in Parser!Parameter : Parser!IsSet(q) => Parser!IsSet(q)'
  BY <1>3, <1>4, ParseIs
<1>6. ArgumentsInOrder'
  <2>1. PICK r : r = <<"option", p>>
    OBVIOUS
  <2>2. r[1] = "option" /\ Parser!Take(<<r>>) /\ next_arg' = next_arg
    BY <1>4, <2>1
  <2> QED BY <1>3, <2>2, NotAnArgument
<1> QED BY <1>1, <1>3, <1>4, <1>5, <1>6, OneSetting

LEMMA NoValueFollowsKeeps ==
  ASSUME NEW p \in Parser!Parameter PROVE ParserInv /\ Parser!NoValueFollows(p) => ParserInv'
<1> SUFFICES ASSUME ParserInv, Parser!NoValueFollows(p) PROVE ParserInv'
  OBVIOUS
<1>1. PICK a : a = queue[1]
  OBVIOUS
<1>2. Parser!Option("option", p)
  BY DEF Parser!NoValueFollows
<1>3. /\ Parser!Parsing /\ a \in DOMAIN args /\ args \in Seq(Tokens) /\ Parser!Here = args[a]
      /\ DOMAIN value = Parser!Parameter /\ {help, failed, dashed} \subseteq BOOLEAN
      /\ next_arg \in Nat \ {0} /\ Parameters[p].kind = "option"
  BY <1>1, <1>2, OptionReads
<1>4. /\ args[a].value = NoValue
      /\ IF Parameters[p].type = "optional" THEN Parser!Parse(p, "") ELSE failed' = TRUE /\ value' = value
      /\ Parser!Take(<<<<"option", p>>>>) /\ UNCHANGED <<help, dashed, next_arg, target>>
  BY <1>3 DEF Parser!NoValueFollows
<1>5. /\ failed' \in BOOLEAN /\ (failed => failed') /\ DOMAIN value' = Parser!Parameter
      /\ ~failed' => value'[p] = "nullopt" /\ Parameters[p].type = "optional"
      /\ \A q \in Parser!Parameter : q # p => value'[q] = value[q]
      /\ \A q \in Parser!Parameter : Parser!IsSet(q) => Parser!IsSet(q)'
  <2>1. CASE Parameters[p].type = "optional"
    <3>1. "" # NoValue
      BY ParserAssumption DEF Parser!CommandLineAssumption
    <3>2. Parser!Held(p, "") = "nullopt"
      BY <1>3, <2>1, HeldIs
    <3>3. Parser!Parse(p, "")
      BY <1>4, <2>1
    <3> QED BY <1>3, <2>1, <3>1, <3>2, <3>3, ParseIs
  <2>2. CASE Parameters[p].type # "optional"
    BY <1>3, <1>4, <2>2 DEF Parser!IsSet
  <2> QED BY <2>1, <2>2
<1>6. ArgumentsInOrder'
  <2>1. PICK r : r = <<"option", p>>
    OBVIOUS
  <2>2. r[1] = "option" /\ Parser!Take(<<r>>) /\ next_arg' = next_arg
    BY <1>4, <2>1
  <2> QED BY <1>3, <2>2, NotAnArgument
<1> QED BY <1>1, <1>3, <1>4, <1>5, <1>6, OneSetting

LEMMA PositionalKeeps == ParserInv /\ Parser!Positional => ParserInv'
<1> SUFFICES ASSUME ParserInv, Parser!Positional PROVE ParserInv'
  OBVIOUS
<1>1. PICK a : a = queue[1]
  OBVIOUS
<1>2. PICK p : p = Parser!Positionals(cmd)[next_arg]
  OBVIOUS
<1>3. /\ Parser!Parsing /\ next_arg <= Len(Parser!Positionals(cmd))
      /\ Parser!Parse(p, args[a].text) /\ Parser!Take(<<<<"argument", p>>>>)
      /\ next_arg' = next_arg + 1 /\ UNCHANGED <<help, dashed, target>>
  BY <1>1, <1>2 DEF Parser!Positional, Parser!IsPositional, Parser!Here
<1>4. /\ Parser!TypeOK /\ next_arg \in Nat \ {0} /\ ReadSoFar /\ Queued /\ queue # <<>>
      /\ a \in DOMAIN args /\ cmd \in Commands /\ {dashed, help, failed} \subseteq BOOLEAN
      /\ DOMAIN value = Parser!Parameter
  BY <1>1, <1>3, Reading
<1>5. next_arg \in 1 .. Len(Parser!Positionals(cmd))
  BY <1>3, <1>4, PositionalsAre
<1>6. p \in Parser!Of(cmd) /\ p \in Parser!Parameter /\ Parameters[p].command = cmd
  BY <1>2, <1>5, PositionalsAre DEF Parser!Of
<1>7. args[a].text # NoValue
  BY <1>4, TextsAreSomething DEF Parser!TypeOK
<1>8. /\ failed' \in BOOLEAN /\ (failed => failed') /\ DOMAIN value' = Parser!Parameter
      /\ ~failed' => value'[p] = Parser!Held(p, args[a].text)
      /\ \A q \in Parser!Parameter : q # p => value'[q] = value[q]
      /\ \A q \in Parser!Parameter : Parser!IsSet(q) => Parser!IsSet(q)'
  BY <1>3, <1>4, <1>6, <1>7, ParseIs
<1>9. ArgumentsInOrder'
  <2>0. PICK r : r = <<"argument", p>> /\ r[1] = "argument"
    <3>1. \E r : r = <<"argument", p>>
      OBVIOUS
    <3> QED BY <3>1
  <2>1. Reads({a}) /\ a \in DOMAIN role /\ role'[a] = r
    BY <1>1, <1>3, <1>4, <2>0, OneRead
  <2>2. cmd' = cmd /\ DOMAIN role' = DOMAIN role /\ \A k \in DOMAIN role : k = a \/ role'[k] = role[k]
    BY <2>1 DEF Reads
  <2>3. \A c, n : \A k \in DOMAIN role : role[k] = ArgumentAt(c, n) => role'[k] = ArgumentAt(c, n) /\ k < a
    <3>1. ASSUME NEW c, NEW n, NEW k \in DOMAIN role, role[k] = ArgumentAt(c, n)
          PROVE  role'[k] = ArgumentAt(c, n) /\ k < a
      <4>1. TakenFor(k) = "argument"
        BY <3>1 DEF ArgumentAt, TakenFor
      <4>2. role'[k] = role[k] /\ k < a
        BY <2>1, <4>1, RolesStay DEF WasRead
      <4> QED BY <3>1, <4>2
    <3> QED BY <3>1
  <2>4. DOMAIN role = 1 .. Len(args) /\ Len(args) \in Nat
    BY <1>4 DEF Parser!TypeOK
  <2>5. \A n \in 1 .. next_arg - 1 : n <= Len(Parser!Positionals(cmd)) =>
          \E j \in DOMAIN role : role[j] = ArgumentAt(cmd, n)
    BY <1>4 DEF ReadSoFar, ArgumentsInOrder
  <2>6. ASSUME NEW c \in Commands, NEW n \in 2 .. Len(Parser!Positionals(c)), NEW k \in DOMAIN role,
               role'[k] = ArgumentAt(c, n)
        PROVE  \E j \in 1 .. k - 1 : role'[j] = ArgumentAt(c, n - 1)
    <3>1. CASE k # a
      <4>1. role[k] = ArgumentAt(c, n)
        BY <2>2, <2>6, <3>1
      <4>2. PICK j \in 1 .. k - 1 : role[j] = ArgumentAt(c, n - 1)
        BY <1>4, <4>1 DEF ReadSoFar, ArgumentsInOrder
      <4>3. j \in DOMAIN role
        BY <2>4
      <4> QED BY <2>3, <4>2, <4>3
    <3>2. CASE k = a
      <4>0. n \in 1 .. Len(Parser!Positionals(c)) /\ n \in Nat
        BY PositionalsAre
      <4>1. Parser!Positionals(c)[n] = p
        BY <2>0, <2>1, <2>6, <3>2 DEF ArgumentAt
      <4>2. c = cmd
        BY <1>6, <4>0, <4>1, PositionalsAre DEF Parser!Of
      <4>3. n = next_arg
        BY <1>2, <1>5, <4>0, <4>1, <4>2, PositionalsAre DEF Distinct
      <4>4. n - 1 \in 1 .. next_arg - 1 /\ n - 1 <= Len(Parser!Positionals(cmd))
        BY <1>5, <4>0, <4>2, <4>3, PositionalsAre
      <4>5. PICK j \in DOMAIN role : role[j] = ArgumentAt(cmd, n - 1)
        BY <2>5, <4>4
      <4>6. role'[j] = ArgumentAt(cmd, n - 1) /\ j < a
        BY <2>3, <4>5
      <4>7. j \in 1 .. k - 1
        BY <2>4, <3>2, <4>6
      <4> QED BY <4>2, <4>6, <4>7
    <3> QED BY <3>1, <3>2
  <2>7. ASSUME NEW n \in 1 .. next_arg' - 1, n <= Len(Parser!Positionals(cmd))
        PROVE  \E j \in DOMAIN role : role'[j] = ArgumentAt(cmd, n)
    <3>1. n = next_arg \/ n \in 1 .. next_arg - 1
      BY <1>3, <1>4
    <3>2. role'[a] = ArgumentAt(cmd, next_arg)
      BY <1>2, <2>0, <2>1 DEF ArgumentAt
    <3> QED BY <2>1, <2>3, <2>5, <2>7, <3>1, <3>2
  <2>8. (\A c \in Commands : \A n \in 2 .. Len(Parser!Positionals(c)) : \A k \in DOMAIN role :
           role[k] = ArgumentAt(c, n) => \E j \in 1 .. k - 1 : role[j] = ArgumentAt(c, n - 1))'
    BY <2>2, <2>6 DEF ArgumentAt
  <2>9. (\A n \in 1 .. next_arg - 1 : n <= Len(Parser!Positionals(cmd)) =>
           \E j \in DOMAIN role : role[j] = ArgumentAt(cmd, n))'
    BY <2>2, <2>7 DEF ArgumentAt
  <2> QED BY <2>8, <2>9 DEF ArgumentsInOrder
<1>10. next_arg' \in Nat \ {0}
  BY <1>3, <1>4
<1> QED BY <1>1, <1>3, <1>4, <1>6, <1>8, <1>9, <1>10, OneSetting

LEMMA NextValueKeeps ==
  ASSUME NEW p \in Parser!Parameter PROVE ParserInv /\ Parser!NextValue(p) => ParserInv'
<1> SUFFICES ASSUME ParserInv, Parser!NextValue(p) PROVE ParserInv'
  OBVIOUS
<1>1. PICK a, b : a = queue[1] /\ b = queue[2]
  OBVIOUS
<1>2. Parser!Option("option", p)
  BY DEF Parser!NextValue
<1>3. /\ Parser!Parsing /\ a \in DOMAIN args /\ args \in Seq(Tokens)
      /\ DOMAIN value = Parser!Parameter /\ {help, failed, dashed} \subseteq BOOLEAN
      /\ next_arg \in Nat \ {0} /\ Parser!Here = args[a]
  BY <1>1, <1>2, OptionReads
<1>4. /\ args[a].value = NoValue /\ Len(queue) > 1 /\ Parser!IsValue(args[b])
      /\ Parser!Parse(p, args[b].text) /\ Parser!Take(<<<<"option", p>>, <<"value", p>>>>)
      /\ UNCHANGED <<help, dashed, next_arg, target>>
  BY <1>1, <1>3 DEF Parser!NextValue, Parser!ValueFollows, Parser!ValueTaken
<1>5. /\ Parser!TypeOK /\ ReadSoFar /\ Queued /\ phase = "parse" /\ target = Parser!NoCommand
  BY <1>3, Reading
<1>6. PICK rs : rs = <<<<"option", p>>, <<"value", p>>>>
  OBVIOUS
<1>7. rs[1] = <<"option", p>> /\ rs[2] = <<"value", p>> /\ Len(rs) = 2 /\ DOMAIN rs = 1 .. 2 /\ Parser!Take(rs)
  BY <1>4, <1>6
<1>8. \A j \in 1 .. 2 : rs[j][1] \notin {"none", "ini", "file"}
  BY <1>7
<1>9. /\ Reads({a, b}) /\ a \in DOMAIN role /\ b \in DOMAIN role /\ role'[a] = rs[1] /\ role'[b] = rs[2]
      /\ queue' \in Seq(DOMAIN args) /\ Queued' /\ ReadAfter(a, b)'
  BY <1>1, <1>4, <1>5, <1>7, <1>8, TwoRead
<1>10. args' = args /\ b \in DOMAIN args /\ args[b].text # NoValue
  BY <1>3, <1>5, <1>9, TextsAreSomething DEF Reads, Parser!TypeOK
<1>11. /\ failed' \in BOOLEAN /\ (failed => failed') /\ DOMAIN value' = Parser!Parameter
       /\ ~failed' => value'[p] = Parser!Held(p, args[b].text)
       /\ \A q \in Parser!Parameter : q # p => value'[q] = value[q]
       /\ \A q \in Parser!Parameter : Parser!IsSet(q) => Parser!IsSet(q)'
  BY <1>3, <1>4, <1>10, ParseIs
<1>12. /\ TakenFor(a)' = "option" /\ TakenFor(b)' = "value"
       /\ \A k \in {a, b} : TakenFor(k)' \in {"option", "value"} /\ role'[k][2] = p
  BY <1>7, <1>9 DEF TakenFor
<1>13. RefusedIsKnown'
  BY <1>4, <1>5, <1>9, <1>11, <1>12, RefusedStays DEF ReadSoFar
<1>14. ValuesFollow'
  <2>1. ASSUME NEW k \in {a, b}, TakenFor(k)' = "value"
        PROVE  Parser!IsValue(args[k]) /\ \E i \in DOMAIN role : ReadAfter(i, k)' /\ role'[i] = <<"option", role'[k][2]>>
    <3>1. k = b
      BY <1>12, <2>1
    <3> QED BY <1>4, <1>6, <1>9, <1>12, <3>1
  <2> QED BY <1>5, <1>9, <2>1, ValuesStay DEF ReadSoFar
<1>15. OptionsHaveValues'
  <2>1. ASSUME NEW k \in {a, b}, TakenFor(k)' = "option"
        PROVE  \E j \in DOMAIN role : ReadAfter(k, j)' /\ role'[j] = <<"value", role'[k][2]>>
    <3>1. k = a
      BY <1>12, <2>1
    <3> QED BY <1>6, <1>9, <1>12, <3>1
  <2> QED BY <1>5, <1>9, <1>11, <2>1, OptionsStay DEF ReadSoFar
<1>16. ArgumentsInOrder'
  BY <1>4, <1>5, <1>9, <1>12, ArgumentsStay DEF ReadSoFar
<1>17. CommandsInOrder'
  BY <1>4, <1>5, <1>9, <1>11, <1>12, CommandsStay DEF ReadSoFar
<1>18. ASSUME ~failed', NEW q \in Parser!Parameter PROVE SettingHolds(q)'
  <2>1. SettingHolds(q)
    BY <1>5, <1>11, <1>18 DEF ReadSoFar, SettingsHold
  <2>2. CASE q # p
    <3>1. \A k \in {a, b} : role'[k][2] # q
      BY <1>12, <2>2
    <3>2. value'[q] = value[q]
      BY <1>11, <2>2
    <3> QED BY <1>9, <2>1, <3>1, <3>2, SettingStays
  <2>3. CASE q = p
    <3>1. Parser!Gives(b)' /\ Parser!GivenText(b)' = args[b].text
      BY <1>7, <1>9, <1>10 DEF Parser!Gives, Parser!GivenText
    <3>2. \A k \in {a, b} : k <= b
      BY <1>5, <1>9 DEF Parser!TypeOK, ReadAfter
    <3>3. value'[p] = Parser!Held(p, Parser!GivenText(b)')
      BY <1>11, <1>18, <3>1
    <3> QED BY <1>5, <1>9, <1>12, <2>3, <3>1, <3>2, <3>3, SettingGiven
  <2> QED BY <2>2, <2>3
<1>19. SettingsHold'
  BY <1>18 DEF SettingsHold
<1>20. Parser!TypeOK'
  BY <1>3, <1>4, <1>5, <1>9, <1>11, ParserTyped
<1> QED BY <1>3, <1>4, <1>5, <1>9, <1>13, <1>14, <1>15, <1>16, <1>17, <1>19, <1>20, ReadingGoesOn DEF ReadSoFar

\* What is said of the tokens depends on them and on nothing else.
LEMMA ReadSoFarStays ==
  ASSUME ReadSoFar, UNCHANGED <<args, queue, help, failed, value, role, before>>,
         ArgumentsInOrder', CommandsInOrder'
  PROVE  ReadSoFar'
<1>1. Queued' /\ RefusedIsKnown'
  BY DEF ReadSoFar, Queued, RefusedIsKnown, WasRead, TakenFor
<1>2. ValuesFollow' /\ OptionsHaveValues'
  BY DEF ReadSoFar, ValuesFollow, OptionsHaveValues, ReadAfter, WasRead, TakenFor, Parser!IsValue, Parser!Word
<1>3. \A p : GivenFor(p)' = GivenFor(p)
  BY DEF GivenFor, Parser!Gives
<1>4. \A p : MissingFor(p)' = MissingFor(p)
  BY <1>3 DEF MissingFor
<1>5. InFile' = InFile
  BY FileStays
<1>6. ASSUME NEW p, SettingHolds(p) PROVE SettingHolds(p)'
  BY <1>3, <1>4, <1>5, <1>6 DEF SettingHolds, Parser!GivenText
<1>7. SettingsHold'
  BY <1>6 DEF ReadSoFar, SettingsHold
<1> QED BY <1>1, <1>2, <1>7 DEF ReadSoFar

LEMMA AllReadKeeps == ParserInv /\ Parser!AllRead => ParserInv'
<1> SUFFICES ASSUME ParserInv, Parser!AllRead PROVE ParserInv'
  OBVIOUS
<1>1. /\ phase = "parse" /\ phase' = "execute" /\ (queue = <<>> \/ target # Parser!NoCommand)
      /\ UNCHANGED <<args, queue, cmd, target, dashed, next_arg, help, failed, value, exit, ran, runs, role, before>>
  BY DEF Parser!AllRead
<1>2. Parser!TypeOK /\ next_arg \in Nat \ {0} /\ ran = <<>> /\ exit = -1 /\ ReadSoFar
  BY <1>1 DEF ParserInv
<1>3. ArgumentsInOrder'
  BY <1>1, <1>2 DEF ReadSoFar, ArgumentsInOrder, ArgumentAt
<1>4. CommandsInOrder'
  BY <1>1, <1>2 DEF ReadSoFar, CommandsInOrder, Has, Parser!CommandsUsed, Parser!IsSet
<1>5. ReadSoFar'
  BY <1>1, <1>2, <1>3, <1>4, ReadSoFarStays
<1>6. Parser!TypeOK'
  BY <1>1, <1>2 DEF Parser!TypeOK
<1>7. (CalledRightly /\ Parser!CallbackJustified)'
  BY <1>1, <1>2, <1>6 DEF CalledRightly, Parser!CallbackJustified
<1> QED BY <1>1, <1>2, <1>5, <1>6, <1>7 DEF ParserInv

LEMMA DispatchKeeps == ParserInv /\ Parser!Dispatch => ParserInv'
<1> SUFFICES ASSUME ParserInv, Parser!Dispatch PROVE ParserInv'
  OBVIOUS
<1>1. /\ phase = "execute" /\ phase' = "parse" /\ target # Parser!NoCommand /\ Parser!ReadyForSubcommand(cmd)
      /\ cmd' = target /\ target' = Parser!NoCommand /\ dashed' = FALSE /\ next_arg' = 1
      /\ UNCHANGED <<args, queue, help, failed, value, exit, ran, runs, role, before>>
  BY DEF Parser!Dispatch
<1>2. Parser!TypeOK /\ ran = <<>> /\ exit = -1 /\ ReadSoFar
  BY <1>1 DEF ParserInv
<1>3. target \in Commands
  BY <1>1, <1>2 DEF Parser!TypeOK
<1>4. ArgumentsInOrder'
  <2>1. 1 .. next_arg' - 1 = {}
    BY <1>1
  <2>2. (\A c \in Commands : \A n \in 2 .. Len(Parser!Positionals(c)) : \A k \in DOMAIN role :
           role[k] = ArgumentAt(c, n) => \E j \in 1 .. k - 1 : role[j] = ArgumentAt(c, n - 1))'
    BY <1>1, <1>2 DEF ReadSoFar, ArgumentsInOrder, ArgumentAt
  <2> QED BY <2>1, <2>2 DEF ArgumentsInOrder
<1>5. CommandsInOrder'
  <2>1. Parser!CommandsUsed' = Parser!CommandsUsed
    BY <1>1 DEF Parser!CommandsUsed
  <2>2. \A c : Has(c) => Has(c)'
    BY <1>1, HasStays DEF Parser!IsSet
  <2>3. Has(cmd)
    BY <1>1 DEF Parser!ReadyForSubcommand, Has
  <2> QED BY <1>1, <1>2, <2>1, <2>2, <2>3 DEF ReadSoFar, CommandsInOrder
<1>6. ReadSoFar'
  BY <1>1, <1>2, <1>4, <1>5, ReadSoFarStays
<1>7. Parser!TypeOK'
  BY <1>1, <1>2, <1>3 DEF Parser!TypeOK
<1>8. (CalledRightly /\ Parser!CallbackJustified)'
  BY <1>1, <1>2, <1>7 DEF CalledRightly, Parser!CallbackJustified
<1>9. next_arg' \in Nat \ {0}
  BY <1>1
<1> QED BY <1>1, <1>2, <1>6, <1>7, <1>8, <1>9 DEF ParserInv

LEMMA StopKeeps == ParserInv /\ Parser!Stop => ParserInv'
<1> SUFFICES ASSUME ParserInv, Parser!Stop PROVE ParserInv'
  OBVIOUS
<1>1. /\ phase = "execute" /\ phase' = "idle" /\ exit' \in {0, 1}
      /\ exit' = 0 => help \/ (Parser!Children(cmd) = {} /\ cmd \notin Callbacks)
      /\ UNCHANGED <<args, queue, cmd, target, dashed, next_arg, help, failed, value, ran, runs, role, before>>
  BY DEF Parser!Stop, Parser!Exit
<1>2. Parser!TypeOK /\ next_arg \in Nat \ {0} /\ ran = <<>>
  BY <1>1 DEF ParserInv
<1>3. Parser!TypeOK'
  BY <1>1, <1>2 DEF Parser!TypeOK
<1>4. CalledRightly'
  BY <1>1, <1>2 DEF CalledRightly
<1>5. Parser!CallbackJustified'
  BY <1>1, <1>2 DEF Parser!CallbackJustified, Parser!Children
<1> QED BY <1>1, <1>2, <1>3, <1>4, <1>5 DEF ParserInv

\* What is said of the settings so far is what the property says.
LEMMA SettingsWin == Parser!TypeOK /\ SettingsHold /\ ~failed => Parser!LastSettingWins
<1> SUFFICES ASSUME Parser!TypeOK, SettingsHold, ~failed, NEW p \in Parser!Parameter
             PROVE  LET given == {k \in DOMAIN role : Parser!Gives(k) /\ role[k][2] = p}
                        latest == CHOOSE k \in given : \A j \in given : j <= k
                        missing == {k \in DOMAIN role : role[k] = <<"option", p>> /\ args[k].value = NoValue
                                                        /\ \A j \in given : j < k}
                        file == IF Parser!IniFile \in DOMAIN IniFiles THEN IniFiles[Parser!IniFile] ELSE <<>>
                    IN  value[p] =
                          CASE missing # {} -> "nullopt"
                            [] missing = {} /\ given # {} -> Parser!Held(p, Parser!GivenText(latest))
                            [] missing = {} /\ given = {} /\ p \in DOMAIN file ->
                                 IF Parser!Accepts(p, file[p]) THEN Parser!Held(p, file[p]) ELSE before[p]
                            [] OTHER -> before[p]
  BY DEF Parser!LastSettingWins
<1> DEFINE given == {k \in DOMAIN role : Parser!Gives(k) /\ role[k][2] = p}
           missing == {k \in DOMAIN role : role[k] = <<"option", p>> /\ args[k].value = NoValue
                                           /\ \A j \in given : j < k}
           latest == CHOOSE k \in given : \A j \in given : j <= k
           file == IF Parser!IniFile \in DOMAIN IniFiles THEN IniFiles[Parser!IniFile] ELSE <<>>
<1>1. given = GivenFor(p) /\ missing = MissingFor(p) /\ file = InFile
  BY DEF GivenFor, MissingFor, InFile
<1>2. DOMAIN role = 1 .. Len(args) /\ Len(args) \in Nat
  BY DEF Parser!TypeOK
<1>3. given # {} => latest \in given /\ \A j \in given : j <= latest
  <2>1. given \subseteq 1 .. Len(args)
    BY <1>2
  <2> HIDE DEF given
  <2> QED BY <1>2, <2>1, LastOne
<1>4. SettingHolds(p)
  BY DEF SettingsHold
<1> HIDE DEF given, missing, latest, file
<1>5. /\ missing # {} => value[p] = "nullopt"
      /\ missing = {} /\ given # {} => value[p] = Parser!Held(p, Parser!GivenText(latest))
      /\ missing = {} /\ given = {} =>
           value[p] = IF p \in DOMAIN file /\ Parser!Accepts(p, file[p]) THEN Parser!Held(p, file[p]) ELSE before[p]
  BY <1>1, <1>3, <1>4 DEF SettingHolds
<1>6. value[p] =
        CASE missing # {} -> "nullopt"
          [] missing = {} /\ given # {} -> Parser!Held(p, Parser!GivenText(latest))
          [] missing = {} /\ given = {} /\ p \in DOMAIN file ->
               IF Parser!Accepts(p, file[p]) THEN Parser!Held(p, file[p]) ELSE before[p]
          [] OTHER -> before[p]
  BY <1>5
<1> QED BY <1>6 DEF given, missing, latest, file

LEMMA ReadBeforeIs ==
  ASSUME Parser!TypeOK, \A k \in DOMAIN role : TakenFor(k) # "none",
         NEW i \in DOMAIN role, NEW k \in DOMAIN role, ReadAfter(i, k)
  PROVE  Parser!ReadBefore(k) = i
<1> DEFINE read == {j \in 1 .. k - 1 : role[j][1] \notin {"ini", "file"}}
<1>1. DOMAIN role = 1 .. Len(args) /\ Len(args) \in Nat
  BY DEF Parser!TypeOK
<1>2. i \in read /\ \A j \in read : j <= i
  <2>1. i \in 1 .. k - 1
    BY <1>1 DEF ReadAfter
  <2>2. \A j \in read : j \notin i + 1 .. k - 1
    BY DEF ReadAfter, TakenFor
  <2> QED BY <1>1, <2>1, <2>2 DEF ReadAfter, WasRead, TakenFor
<1>3. Parser!ReadBefore(k) = CHOOSE j \in read : \A m \in read : m <= j
  BY DEF Parser!ReadBefore
<1>4. read \subseteq Int
  OBVIOUS
<1> HIDE DEF read
<1>5. ASSUME NEW j \in read, \A m \in read : m <= j PROVE j = i
  BY <1>2, <1>4, <1>5
<1> QED BY <1>2, <1>3, <1>5

\* When all has been read and nothing failed, all is accounted for.
LEMMA AllAccounted ==
  Parser!TypeOK /\ ReadSoFar /\ queue = <<>> /\ ~failed /\ ~help => Parser!TokensAccounted
<1> SUFFICES ASSUME Parser!TypeOK, ReadSoFar, queue = <<>>, ~failed, ~help PROVE Parser!TokensAccounted
  OBVIOUS
<1>1. DOMAIN role = 1 .. Len(args) /\ Len(args) \in Nat
  BY DEF Parser!TypeOK
<1>2. \A k \in DOMAIN role : TakenFor(k) # "none"
  <2>1. Entries(queue) = {}
    BY DEF Entries
  <2> QED BY <2>1 DEF ReadSoFar, Queued
<1>3. \A k \in DOMAIN role : role[k][1] \notin {"none", "unknown", "unexpected", "help"}
  BY <1>2 DEF ReadSoFar, RefusedIsKnown, TakenFor
<1>4. \A k \in DOMAIN role : role[k][1] = "value" =>
        Parser!IsValue(args[k]) /\ role[Parser!ReadBefore(k)] = <<"option", role[k][2]>>
  <2> SUFFICES ASSUME NEW k \in DOMAIN role, TakenFor(k) = "value"
               PROVE  Parser!IsValue(args[k]) /\ role[Parser!ReadBefore(k)] = <<"option", role[k][2]>>
    BY DEF TakenFor
  <2>1. PICK i \in DOMAIN role : ReadAfter(i, k) /\ role[i] = <<"option", role[k][2]>>
    BY DEF ReadSoFar, ValuesFollow
  <2>2. Parser!ReadBefore(k) = i
    BY <1>2, <2>1, ReadBeforeIs
  <2>3. Parser!IsValue(args[k])
    BY DEF ReadSoFar, ValuesFollow
  <2> QED BY <2>1, <2>2, <2>3
<1>5. \A k \in DOMAIN role :
        role[k][1] = "option" /\ args[k].value = NoValue /\ Parameters[role[k][2]].type # "optional"
          => \E j \in DOMAIN role : j > k /\ role[j] = <<"value", role[k][2]>> /\ Parser!ReadBefore(j) = k
  <2> SUFFICES ASSUME NEW k \in DOMAIN role, TakenFor(k) = "option", args[k].value = NoValue,
                      Parameters[role[k][2]].type # "optional"
               PROVE  \E j \in DOMAIN role : j > k /\ role[j] = <<"value", role[k][2]>> /\ Parser!ReadBefore(j) = k
    BY DEF TakenFor
  <2>1. PICK j \in DOMAIN role : ReadAfter(k, j) /\ role[j] = <<"value", role[k][2]>>
    BY DEF ReadSoFar, OptionsHaveValues
  <2>2. Parser!ReadBefore(j) = k
    BY <1>2, <2>1, ReadBeforeIs
  <2>3. j > k
    BY <1>1, <2>1 DEF ReadAfter
  <2> QED BY <2>1, <2>2, <2>3
<1>6. \A c \in Parser!CommandsUsed : \A n \in 2 .. Len(Parser!Positionals(c)) : \A k \in DOMAIN role :
        role[k] = <<"argument", Parser!Positionals(c)[n]>> =>
          \E j \in 1 .. k - 1 : role[j] = <<"argument", Parser!Positionals(c)[n - 1]>>
  BY DEF ReadSoFar, ArgumentsInOrder, ArgumentAt, CommandsInOrder
<1>7. \A c \in Parser!CommandsUsed \ {Root} : Parent[c] \in Parser!CommandsUsed
  BY DEF ReadSoFar, CommandsInOrder
<1> QED BY <1>3, <1>4, <1>5, <1>6, <1>7 DEF Parser!TokensAccounted

LEMMA CallbackKeeps == ParserInv /\ Parser!Callback => ParserInv'
<1> SUFFICES ASSUME ParserInv, Parser!Callback PROVE ParserInv'
  OBVIOUS
<1>1. /\ phase = "execute" /\ phase' = "idle" /\ exit' \in {0, 1} /\ ran' = Append(ran, cmd)
      /\ ~help /\ ~failed /\ target = Parser!NoCommand /\ Parser!Complete(cmd)
      /\ UNCHANGED <<args, queue, cmd, target, dashed, next_arg, help, failed, value, runs, role, before>>
  BY DEF Parser!Callback, Parser!MayGoOn, Parser!Exit
<1>2. /\ Parser!TypeOK /\ next_arg \in Nat \ {0} /\ ran = <<>> /\ ReadSoFar /\ queue = <<>>
  BY <1>1 DEF ParserInv
<1>3. ArgumentsInOrder'
  BY <1>1, <1>2 DEF ReadSoFar, ArgumentsInOrder, ArgumentAt
<1>4. CommandsInOrder'
  BY <1>1, <1>2 DEF ReadSoFar, CommandsInOrder, Has, Parser!CommandsUsed, Parser!IsSet
<1>5. ReadSoFar'
  BY <1>1, <1>2, <1>3, <1>4, ReadSoFarStays
<1>6. Parser!TypeOK'
  BY <1>1, <1>2 DEF Parser!TypeOK
<1>7. CalledRightly'
  BY <1>1, <1>2, <1>5 DEF CalledRightly
<1>8. Parser!CallbackJustified'
  <2>1. ran' = <<cmd>>
    BY <1>1, <1>2
  <2>2. Len(ran') = 1 /\ ran' # <<>> /\ ran'[1] = cmd
    BY <2>1
  <2>3. \A p \in Parser!Parameter : Parser!Required(p) /\ Parameters[p].command = cmd => Parser!IsSet(p)
    BY <1>1 DEF Parser!Complete, Parser!Of
  <2>4. \A c \in Parser!CommandsUsed : Has(c)
    <3>1. Has(cmd)
      <4>1. \A p \in Parser!Entries(Parser!Positionals(cmd)) : p \in Parser!Of(cmd)
        BY PositionalsAre
      <4> QED BY <1>1, <4>1 DEF Has, Parser!Complete
    <3>2. Parser!NoCommand \notin Commands
      BY ParserAssumption DEF Parser!CommandLineAssumption
    <3> QED BY <1>1, <1>2, <3>1, <3>2 DEF ReadSoFar, CommandsInOrder
  <2>5. Parser!CommandsUsed' = Parser!CommandsUsed /\ \A p : Parser!IsSet(p)' <=> Parser!IsSet(p)
    BY <1>1 DEF Parser!CommandsUsed, Parser!IsSet
  <2>6. (\A p \in Parser!Parameter : Parser!Required(p) /\ Parameters[p].command = ran[1] => Parser!IsSet(p))'
    BY <2>2, <2>3, <2>5
  <2>7. (\A c \in Parser!CommandsUsed : \A p \in Parser!Entries(Parser!Positionals(c)) :
           Parser!Required(p) => Parser!IsSet(p))'
    BY <2>4, <2>5 DEF Has
  <2> QED BY <1>1, <2>2, <2>6, <2>7 DEF Parser!CallbackJustified
<1> QED BY <1>1, <1>2, <1>6, <1>7, <1>8 DEF ParserInv

LEMMA ParserStays == ParserInv /\ UNCHANGED Parser!parser_vars => ParserInv'
<1> SUFFICES ASSUME ParserInv, UNCHANGED Parser!parser_vars PROVE ParserInv'
  OBVIOUS
<1>1. UNCHANGED <<phase, args, queue, cmd, target, dashed, next_arg, help, failed,
                  value, exit, ran, runs, role, before>>
  BY DEF Parser!parser_vars
<1>2. Parser!TypeOK'
  BY <1>1 DEF ParserInv, Parser!TypeOK
<1>3. ArgumentsInOrder => ArgumentsInOrder'
  BY <1>1 DEF ArgumentsInOrder, ArgumentAt
<1>4. CommandsInOrder => CommandsInOrder'
  BY <1>1 DEF CommandsInOrder, Has, Parser!CommandsUsed, Parser!IsSet
<1>5. ReadSoFar => ReadSoFar'
  BY <1>1, <1>3, <1>4, ReadSoFarStays DEF ReadSoFar
<1>6. CalledRightly'
  BY <1>1, <1>5 DEF ParserInv, CalledRightly
<1>7. Parser!CallbackJustified'
  BY <1>1 DEF ParserInv, Parser!CallbackJustified, Parser!CommandsUsed, Parser!IsSet, Parser!Children
<1>8. (Queued => Queued') /\ \A k : TakenFor(k)' = TakenFor(k)
  BY <1>1 DEF Queued, WasRead, TakenFor
<1>9. phase' = "ini" => Nothing' /\ \A k \in DOMAIN role' : TakenFor(k)' = "none"
  BY <1>1, <1>8 DEF ParserInv, Nothing
<1>10. phase' = "load" => Nothing' /\ Queued' /\ (\A k \in DOMAIN role : ~WasRead(k))' /\ Parser!IniFile' \in DOMAIN IniFiles
  BY <1>1, <1>8, FileNameStays DEF ParserInv, Nothing, WasRead
<1> QED BY <1>1, <1>2, <1>5, <1>6, <1>7, <1>9, <1>10 DEF ParserInv

LEMMA ParserKeeps == ParserInv /\ [Parser!Next]_(Parser!parser_vars) => ParserInv'
<1> SUFFICES ASSUME ParserInv, [Parser!Next]_(Parser!parser_vars) PROVE ParserInv'
  OBVIOUS
<1>1. CASE \E p \in Parser!Parameter :
             Parser!Flag(p) \/ Parser!AttachedValue(p) \/ Parser!NextValue(p) \/ Parser!NoValueFollows(p)
  BY <1>1, FlagKeeps, AttachedValueKeeps, NextValueKeeps, NoValueFollowsKeeps
<1>2. CASE Parser!Run \/ Parser!TakeIni \/ Parser!ApplyIni
  BY <1>2, RunKeeps, TakeIniKeeps, ApplyIniKeeps
<1>3. CASE Parser!HelpFlag \/ Parser!Terminator \/ Parser!Subcommand \/ Parser!UnknownOption
           \/ Parser!Positional \/ Parser!Unexpected
  BY <1>3, HelpFlagKeeps, TerminatorKeeps, SubcommandKeeps, RefusedKeeps, PositionalKeeps
<1>4. CASE Parser!AllRead \/ Parser!Stop \/ Parser!Dispatch \/ Parser!Callback
  BY <1>4, AllReadKeeps, StopKeeps, DispatchKeeps, CallbackKeeps
<1>5. CASE UNCHANGED Parser!parser_vars
  BY <1>5, ParserStays
<1> QED BY <1>1, <1>2, <1>3, <1>4, <1>5 DEF Parser!Next

LEMMA ParserAnswers == ParserInv => Parser!TokensAccounted /\ Parser!LastSettingWins
<1> SUFFICES ASSUME ParserInv PROVE Parser!TokensAccounted /\ Parser!LastSettingWins
  OBVIOUS
<1>1. CASE ran = <<>>
  BY <1>1 DEF ParserInv, Parser!TokensAccounted, Parser!LastSettingWins
<1>2. CASE ran # <<>>
  BY <1>2, AllAccounted, SettingsWin DEF ParserInv, CalledRightly, ReadSoFar
<1> QED BY <1>1, <1>2

-------------------------------------------------------------------------------
(* The components together                                                 *)

LEMMA PoolFacts == UsersAreNoPlaces /\ CallsAreNoItems /\ SizesAreNumbers /\ ResetIsKnown
BY PoolsAssumption DEF UsersAreNoPlaces, CallsAreNoItems, SizesAreNumbers, ResetIsKnown

LEMMA PointerFacts == NoneIsNothing
BY PointersAssumption DEF NoneIsNothing

\* What a step of Keepers is to the component that the behaviour is about.
LEMMA PartSteps ==
  ASSUME [KeepersNext]_keeper_vars
  PROVE  /\ part' = part
         /\ part = "blocks" => [Blocks!Next]_(Blocks!block_vars)
         /\ part = "objects" => [Objects!Next]_(Objects!object_vars)
         /\ part = "memo" => [Memo!Next]_(Memo!vars)
         /\ part = "frames" => [Frames!Next]_(Frames!vars)
         /\ part = "index" => [Trees!Next]_(Trees!vars)
         /\ part = "sort" => [Ranks!Next]_(Ranks!sorter_vars)
         /\ part = "parser" => [Parser!Next]_(Parser!parser_vars)
<1>1. CASE UNCHANGED keeper_vars
  BY <1>1 DEF keeper_vars, block_vars, object_vars, memo_vars, frame_vars, tree_vars, rank_vars,
     Blocks!block_vars, Objects!object_vars, Memo!vars, Frames!vars, Frames!cache_vars,
     Frames!config_vars, Trees!vars, Trees!user_vars, Trees!knn_vars, Trees!ghost_vars,
     Ranks!sorter_vars, parser_vars, Parser!parser_vars
<1>2. CASE KeepersNext
  BY <1>2 DEF KeepersNext
<1> QED BY <1>1, <1>2

\* The pools implement Lending: an item has at most one user, also while an object is made
\* outside the mutex or on its way back, and only its user gives it back; no block is lost
\* or freed while it is used, wherever operator new fails; with a reset function nobody
\* gets what an earlier user has left; and the free list goes beyond max_cached_blocks
\* only to what the constructor or one expansion made.  For any users, items and sizes.
THEOREM PoolsLendAlways == KeepersSpec => PoolsLend
<1> DEFINE Inv == (part = "blocks" => BlockInv) /\ (part = "objects" => ObjectInv)
           BlockStep == Blocks!Lender!Next \/ UNCHANGED Blocks!Lender!lending_vars
           ObjectStep == Objects!Lender!Next \/ UNCHANGED Objects!Lender!lending_vars
<1>1. KeepersInit => Inv
  BY PoolFacts, BlocksStart, ObjectsStart DEF KeepersInit, KeepersStart
<1>2. Inv /\ [KeepersNext]_keeper_vars => Inv'
  <2> SUFFICES ASSUME Inv, [KeepersNext]_keeper_vars PROVE Inv'
    OBVIOUS
  <2>1. ASSUME part' = "blocks" PROVE BlockInv'
    BY <2>1, PartSteps, PoolFacts, BlocksKeep
  <2>2. ASSUME part' = "objects" PROVE ObjectInv'
    BY <2>2, PartSteps, PoolFacts, ObjectsKeep
  <2> QED BY <2>1, <2>2
<1>3. KeepersInit =>
        (part = "blocks" => Blocks!Lender!Init) /\ (part = "objects" => Objects!Lender!Init)
  BY PoolFacts, BlocksStartLent, ObjectsStartLent DEF KeepersInit, KeepersStart
<1>4. Inv /\ [KeepersNext]_keeper_vars => [part = "blocks" => BlockStep]_keeper_vars
  <2> SUFFICES ASSUME Inv, [KeepersNext]_keeper_vars, part = "blocks" PROVE BlockStep
    OBVIOUS
  <2> QED BY PartSteps, PoolFacts, BlocksRefine
<1>5. Inv /\ [KeepersNext]_keeper_vars => [part = "objects" => ObjectStep]_keeper_vars
  <2> SUFFICES ASSUME Inv, [KeepersNext]_keeper_vars, part = "objects" PROVE ObjectStep
    OBVIOUS
  <2> QED BY PartSteps, PoolFacts, ObjectsRefine
<1>6. Inv => (part = "blocks" => Blocks!FreeBounded) /\ (part = "objects" => Objects!TypeOK)
  <2>1. ASSUME BlockInv PROVE Blocks!FreeBounded
    BY <2>1 DEF BlockInv, Owned, Bounded, Blocks!FreeBounded, Blocks!TypeOK
  <2>2. ASSUME ObjectInv PROVE Objects!TypeOK
    BY <2>2 DEF ObjectInv, Taking, Owned, OnlyUsedAreDirty, Calls, Objects!TypeOK, Objects!Nothing,
       Objects!Making
  <2> QED BY <2>1, <2>2
<1> QED BY <1>1, <1>2, <1>3, <1>4, <1>5, <1>6, PTL DEF KeepersSpec, PoolsLend

\* Whoever asks a memoized function for a key gets one and the same answer, whatever the
\* original function returned to the threads that ran it at the same time, and that answer
\* was returned by the original function: for any threads, calls, recursion and values.
THEOREM MemoAnswersOnce == KeepersSpec => []OneAnswerPerKey
<1> DEFINE Inv == part = "memo" => MemoInv
<1>1. KeepersInit => Inv
  BY MemoStarts DEF KeepersInit, KeepersStart
<1>2. Inv /\ [KeepersNext]_keeper_vars => Inv'
  BY CachesAssumption, PartSteps, MemoSteps
<1>3. Inv => OneAnswerPerKey
  BY MemoIsTyped, MemoAnswers DEF OneAnswerPerKey
<1> QED BY <1>1, <1>2, <1>3, PTL DEF KeepersSpec

\* Until readers race in the containers, the list of the least recently used names every
\* cached frame once and is the beginning of the history, the cache stays within its limit,
\* what a reader has found stays until it has copied it, and a loaded frame is lost to its
\* reader only if as many others as the cache holds were used since: for any number of
\* readers, frames and cache sizes.
THEOREM FramesListMatches == KeepersSpec => []ListMatchesCache
<1> DEFINE Inv == part = "frames" => FramesInv
<1>1. KeepersInit => Inv
  BY CachesAssumption, FramesStart DEF KeepersInit, KeepersStart
<1>2. Inv /\ [KeepersNext]_keeper_vars => Inv'
  BY CachesAssumption, PartSteps, FramesSteps
<1>3. Inv => ListMatchesCache
  BY CachesAssumption, FramesAnswer DEF ListMatchesCache
<1> QED BY <1>1, <1>2, <1>3, PTL DEF KeepersSpec

\* Extractors that share nearest-neighbour objects, change clouds, objects and metrics in
\* any order: one that has its object for itself is answered about its own cloud, and a
\* descriptor that computes its normals about the cloud it was called with.
THEOREM ExtractorsAskAboutTheirCloud == KeepersSpec => []AsksAboutItsCloud
<1> DEFINE Inv == part = "index" => IndexInv
<1>1. KeepersInit => Inv
  BY IndexStarts DEF KeepersInit, KeepersStart
<1>2. Inv /\ [KeepersNext]_keeper_vars => Inv'
  BY PointerFacts, PartSteps, IndexKeeps
<1>3. Inv => AsksAboutItsCloud
  BY DEF AsksAboutItsCloud, IndexInv, IndexTyped, Trees!TypeOK
<1> QED BY <1>1, <1>2, <1>3, PTL DEF KeepersSpec

\* Every answer of a sorter, from its cache or not, has the scores that it would compute
\* now of its settings, weights, clouds and correspondences, ranked by falling score, but
\* for a combined sorter whose sub-sorter was set up anew behind its back: for any lists,
\* settings, weights and quality functions.
THEOREM RankingsAreFresh == KeepersSpec => []RankingIsFresh
<1> DEFINE Inv == part = "sort" => SorterInv
<1>1. KeepersInit => Inv
  BY SortersStart DEF KeepersInit, KeepersStart
<1>2. Inv /\ [KeepersNext]_keeper_vars => Inv'
  BY PartSteps, SortersKeep
<1>3. Inv => RankingIsFresh
  BY SortersAnswer DEF RankingIsFresh
<1> QED BY <1>1, <1>2, <1>3, PTL DEF KeepersSpec

\* When a callback is called every token of the command line was taken for exactly one
\* thing and none was refused: a value directly follows an option that wants one, the
\* positional arguments fill the parameters from the first on, and each command is a
\* subcommand of one that was named before it.  For any tree of commands, any parameters,
\* any tokens and any number of runs.
THEOREM TokensAlwaysAccounted == KeepersSpec => []TokensAccounted
<1> DEFINE Inv == part = "parser" => ParserInv
<1>1. KeepersInit => Inv
  BY ParserStarts DEF KeepersInit, KeepersStart
<1>2. Inv /\ [KeepersNext]_keeper_vars => Inv'
  BY PartSteps, ParserKeeps
<1>3. Inv => TokensAccounted
  BY ParserAnswers DEF TokensAccounted, ParserInv
<1> QED BY <1>1, <1>2, <1>3, PTL DEF KeepersSpec

\* What a callback finds in a parameter is the last value on the command line, else what
\* the ini file says where that can be parsed, else what an earlier run has left there;
\* an optional one whose option had no value is empty.
THEOREM LastSettingAlwaysWins == KeepersSpec => []LastSettingWins
<1> DEFINE Inv == part = "parser" => ParserInv
<1>1. KeepersInit => Inv
  BY ParserStarts DEF KeepersInit, KeepersStart
<1>2. Inv /\ [KeepersNext]_keeper_vars => Inv'
  BY PartSteps, ParserKeeps
<1>3. Inv => LastSettingWins
  BY ParserAnswers DEF LastSettingWins
<1> QED BY <1>1, <1>2, <1>3, PTL DEF KeepersSpec
===============================================================================
