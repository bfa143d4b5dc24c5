-------------------------- MODULE LockFreeQueueProofs --------------------------
(***************************************************************************)
(* Theorems about LockFreeQueue for any number of consumers, values and    *)
(* addresses: with one producer, whose consumers see each other's hazard   *)
(* pointers at once, or with any number of producers as long as nothing is *)
(* deleted.  The last one is that the queue implements FifoQueue.          *)
(***************************************************************************)
EXTENDS LockFreeQueue, SequenceFacts, FiniteSetTheorems

\* One producer, and stores that are visible at once.
Alone == ~DelayedStores /\ \A p, q \in Producer : p = q

\* No list of retired nodes grows long enough for a scan.
NeverScans == ~CleanUp /\ Cardinality(Node) < ScanThreshold

-------------------------------------------------------------------------------
(* The inductive invariant, in parts.                                      *)

Label == ProducerLabel \cup ConsumerLabel
Typed ==
  /\ head \in Node \cup {Null} /\ tail \in Node \cup {Null}
  /\ next \in [Node -> Node \cup {Null}] /\ data \in [Node -> Value \cup {Nothing}]
  /\ allocated \subseteq Node
  /\ pc \in [Thread -> Label]
  /\ \A p \in Producer : pc[p] \in ProducerLabel
  /\ \A c \in Consumer : pc[c] \in ConsumerLabel
  /\ snap \in [Thread -> Node \cup {Null}] /\ nxt \in [Thread -> Node \cup {Null}]
  /\ new_node \in [Producer -> Node \cup {Null}]
  /\ unsent \subseteq Value /\ result \in [Consumer -> Value \cup {Nothing}]
  /\ hp \in [Consumer -> [Slot -> Node \cup {Null}]]
  /\ seen \in [Consumer -> [Slot -> Node \cup {Null}]]
  /\ retired \in [Consumer -> SUBSET Node]
  /\ unread \in [Consumer -> SUBSET (Consumer \X Slot)]
  /\ found \in [Consumer -> SUBSET Node]
  /\ destroyed \in BOOLEAN

IsList(nodes, first, link) ==
  /\ nodes \in Seq(Node) /\ nodes # <<>> /\ first = nodes[1]
  /\ \A i \in 1 .. Len(nodes) - 1 : link[nodes[i]] = nodes[i + 1]
  /\ link[nodes[Len(nodes)]] = Null
  /\ \A i, j \in 1 .. Len(nodes) : nodes[i] = nodes[j] => i = j

Listed ==
  /\ ~destroyed => IsList(Chain, head, next) /\ tail \in InChain
  /\ destroyed => /\ head = Null /\ tail = Null
                  /\ \A p \in Producer : pc[p] = "idle"
                  /\ \A c \in Consumer : pc[c] \in {"idle", "scan"} /\ snap[c] = Null

\* A node is made, then in the list, then past it.
Making(p) == pc[p] \notin {"idle", "swing"}
Taking(c) == pc[c] \in {"take", "retire"}
Past(m) == \E c \in Consumer : (Taking(c) /\ snap[c] = m) \/ m \in retired[c]
Hooked(m) == m \in InChain \/ Past(m)

Apart ==
  /\ \A m \in Node : m \in allocated <=> Hooked(m) \/ \E p \in Producer : Making(p) /\ new_node[p] = m
  /\ \A p \in Producer : Making(p) =>
       new_node[p] \in Node /\ ~Hooked(new_node[p]) /\ next[new_node[p]] = Null
  /\ \A p, q \in Producer : Making(p) /\ Making(q) /\ new_node[p] = new_node[q] => p = q
  /\ \A m \in Node : Past(m) => m \notin InChain /\ next[m] # Null
  /\ \A c \in Consumer : Taking(c) => snap[c] \in Node /\ \A d \in Consumer : snap[c] \notin retired[d]
  /\ \A c, d \in Consumer : Taking(c) /\ Taking(d) /\ snap[c] = snap[d] => c = d
  /\ \A c, d \in Consumer : \A m \in retired[c] \cap retired[d] : c = d

\* What a producer has read of tail_ and of its node is out of date at worst.
Enqueuing(p) ==
  /\ pc[p] \in {"read next", "check tail", "link", "help tail"} => Hooked(snap[p])
  /\ pc[p] \in {"check tail", "help tail"} => nxt[p] \in {Null, next[snap[p]]}
  /\ pc[p] = "help tail" => nxt[p] # Null
  /\ pc[p] = "swing" => /\ new_node[p] # Null
                        /\ \/ Hooked(snap[p]) /\ next[snap[p]] = new_node[p]
                           \/ Alone /\ ~Hooked(snap[p])

\* The only producer finds tail_ at the end of the list.
EnqueuingAlone(p) ==
  /\ pc[p] # "help tail"
  /\ pc[p] # "swing" /\ ~destroyed => next[tail] = Null
  /\ pc[p] \in {"read next", "check tail", "link"} => snap[p] = tail
  /\ pc[p] = "check tail" => nxt[p] = Null
  /\ pc[p] = "swing" => tail \in {snap[p], new_node[p]} /\ next[new_node[p]] = Null

\* A consumer's snapshot of head_ once it has been found valid, and what it has read
\* of the node after it.
HeadKnown == {"load next", "protect next", "recheck head", "reload next", "compare tail",
              "help tail", "move head"}
NextRead == (HeadKnown \ {"load next"}) \cup {"take"}
NextKnown == NextRead \ {"protect next", "recheck head"}
Dequeuing(c) ==
  /\ pc[c] = "idle" => snap[c] = Null
  /\ pc[c] \in HeadKnown => snap[c] \in Node /\ (snap[c] = head \/ Past(snap[c]))
  /\ pc[c] \in NextRead => nxt[c] \in {Null, next[snap[c]]}
  /\ pc[c] \in NextKnown => nxt[c] = Null \/ Hooked(nxt[c])
  /\ pc[c] \in {"help tail", "move head", "take"} => nxt[c] # Null
  /\ pc[c] = "move head" /\ snap[c] = head => tail # head

\* What a consumer has found valid its hazard pointers show.
Shown(c) ==
  /\ seen[c] = hp[c]
  /\ pc[c] \in HeadKnown \cup {"check head"} => hp[c][0] = snap[c]
  /\ pc[c] \in NextKnown \cup {"recheck head"} => hp[c][1] = nxt[c]

\* A scan of d that could delete such a node has yet to read the pointer, or has read it.
Spared(c, d) ==
  pc[d] = "scan" =>
    /\ pc[c] \in HeadKnown /\ snap[c] \in retired[d] => <<c, 0>> \in unread[d] \/ snap[c] \in found[d]
    /\ pc[c] \in NextKnown /\ nxt[c] \in retired[d] => <<c, 1>> \in unread[d] \/ nxt[c] \in found[d]
Protected(c) == Shown(c) /\ \A d \in Consumer : Spared(c, d)

QueueInv ==
  /\ Typed /\ Listed /\ Apart
  /\ \A p \in Producer : Enqueuing(p)
  /\ \A c \in Consumer : Dequeuing(c)
  /\ Alone => (\A p \in Producer : EnqueuingAlone(p)) /\ \A c \in Consumer : Protected(c)
  /\ NeverScans => \A c \in Consumer : pc[c] # "scan"

-------------------------------------------------------------------------------
(* Lists of linked nodes.                                                  *)

\* Nodes is a recursion that a function fulfils; then it is that function.
LEMMA NodesBy ==
  ASSUME NEW first, NEW link, NEW g,
         \A n \in 0 .. Cardinality(Node) : g[n] = IF n = 0 THEN <<>> ELSE Longer(g[n - 1], first, link)
  PROVE  Nodes(first, link) = g[Cardinality(Node)]
<1> DEFINE K == Cardinality(Node)
           Up(f) == f = [n \in 0 .. K |-> IF n = 0 THEN <<>> ELSE Longer(f[n - 1], first, link)]
           f == CHOOSE f : Up(f)
           T == {n \in 0 .. K : f[n] = g[n]}
<1>0. K \in Nat
  BY QueueAssumption, FS_CardinalityType
<1> DEFINE h == [n \in 0 .. K |-> g[n]]
<1>1. Up(h)
  <2>1. \A n \in 0 .. K : n # 0 => h[n - 1] = g[n - 1]
    BY <1>0
  <2>2. \A n \in 0 .. K : h[n] = IF n = 0 THEN <<>> ELSE Longer(h[n - 1], first, link)
    BY <2>1
  <2>3. h = [n \in 0 .. K |-> h[n]]
    OBVIOUS
  <2> HIDE DEF h
  <2> QED BY <2>2, <2>3
<1>2. Up(f)
  <2> HIDE DEF Up, h
  <2> QED BY <1>1
<1>3. Nodes(first, link) = f[K]
  BY DEF Nodes
<1> HIDE DEF f, K, h
<1>4. 0 \in T
  <2>1. 0 \in 0 .. K
    BY <1>0
  <2>2. f[0] = <<>> /\ g[0] = <<>>
    BY <1>2, <2>1 DEF K
  <2> QED BY <2>1, <2>2
<1>5. ASSUME NEW n \in 0 .. K - 1, n \in T PROVE n + 1 \in T
  <2>1. n + 1 \in 0 .. K /\ n + 1 # 0 /\ (n + 1) - 1 = n
    BY <1>0
  <2>2. f[n + 1] = Longer(f[n], first, link) /\ g[n + 1] = Longer(g[n], first, link)
    BY <1>2, <2>1 DEF K
  <2> QED BY <1>5, <2>1, <2>2
<1>6. 0 .. K \subseteq T
  <2> HIDE DEF T
  <2> QED BY <1>0, <1>4, <1>5, InductionUpTo
<1>7. f[K] = g[K]
  <2>1. K \in 0 .. K
    BY <1>0
  <2> QED BY <1>6, <2>1
<1> QED BY <1>3, <1>7 DEF K

LEMMA NodesOfNull ==
  ASSUME NEW link
  PROVE  Nodes(Null, link) = <<>>
<1> DEFINE g == [n \in 0 .. Cardinality(Node) |-> <<>>]
<1>0. Cardinality(Node) \in Nat
  BY QueueAssumption, FS_CardinalityType
<1>1. Longer(<<>>, Null, link) = <<>>
  BY DEF Longer
<1>2. \A n \in 0 .. Cardinality(Node) : g[n] = IF n = 0 THEN <<>> ELSE Longer(g[n - 1], Null, link)
  <2>1. \A n \in 0 .. Cardinality(Node) : n # 0 => g[n - 1] = <<>>
    BY <1>0
  <2> QED BY <1>1, <2>1
<1>3. g[Cardinality(Node)] = <<>>
  BY <1>0
<1> HIDE DEF g
<1> QED BY <1>2, <1>3, NodesBy

LEMMA NodesIs ==
  ASSUME NEW nodes, NEW first, NEW link, IsList(nodes, first, link)
  PROVE  Nodes(first, link) = nodes
<1> DEFINE K == Cardinality(Node)
           N == Len(nodes)
           g == [n \in 0 .. K |-> [i \in 1 .. (IF n <= N THEN n ELSE N) |-> nodes[i]]]
<1>0. /\ K \in Nat /\ N \in Nat \ {0} /\ nodes \in Seq(Node) /\ nodes = [i \in 1 .. N |-> nodes[i]]
      /\ \A i \in 1 .. N : nodes[i] \in Node /\ nodes[i] # Null
  BY QueueAssumption, FS_CardinalityType DEF IsList
<1>1. N <= K
  <2>1. nodes \in Injection(1 .. N, Node)
    BY <1>0 DEF IsList, Injection, IsInjective
  <2>2. IsFiniteSet(1 .. N) /\ Cardinality(1 .. N) = N
    <3>1. 1 \in Int /\ N \in Int /\ N >= 1
      BY <1>0
    <3> QED BY <3>1, FS_Interval
  <2>3. Cardinality(1 .. N) <= K
    BY <2>1, <2>2, QueueAssumption, FS_Injection
  <2> QED BY <2>2, <2>3
<1>2. ASSUME NEW n \in 0 .. K
      PROVE  g[n] = IF n = 0 THEN <<>> ELSE Longer(g[n - 1], first, link)
  <2>1. CASE n = 0
    BY <1>0, <2>1
  <2>2. CASE n # 0 /\ n <= N
    <3>0. n \in 1 .. N /\ n - 1 \in 0 .. K /\ n \in 0 .. K /\ n - 1 <= N /\ n <= N
      BY <1>0, <2>2
    <3>1. g[n] = [i \in 1 .. n |-> nodes[i]] /\ g[n - 1] = [i \in 1 .. n - 1 |-> nodes[i]]
      BY <3>0
    <3>2. g[n - 1] \in Seq(Node) /\ Len(g[n - 1]) = n - 1
      <4>1. [i \in 1 .. n - 1 |-> nodes[i]] \in Seq(Node) /\ Len([i \in 1 .. n - 1 |-> nodes[i]]) = n - 1
        <5>1. n - 1 \in Nat /\ \A i \in 1 .. n - 1 : nodes[i] \in Node
          BY <1>0, <3>0
        <5> QED BY <5>1
      <4> QED BY <3>1, <4>1
    <3>3. Longer(g[n - 1], first, link) = Append(g[n - 1], nodes[n])
      <4>1. CASE n = 1
        <5>1. g[n - 1] = <<>> /\ first = nodes[1] /\ nodes[1] # Null
          BY <1>0, <3>2, <4>1 DEF IsList
        <5> HIDE DEF g
        <5> QED BY <4>1, <5>1 DEF Longer
      <4>2. CASE n # 1
        <5>1. g[n - 1] # <<>> /\ g[n - 1][n - 1] = nodes[n - 1] /\ link[nodes[n - 1]] = nodes[n] /\ nodes[n] # Null
          <6>1. n - 1 \in 1 .. N - 1 /\ n \in 1 .. N
            BY <1>0, <2>2, <4>2
          <6>2. link[nodes[n - 1]] = nodes[(n - 1) + 1]
            BY <6>1 DEF IsList
          <6> QED BY <1>0, <2>2, <3>1, <3>2, <6>1, <6>2
        <5> HIDE DEF g
        <5> QED BY <3>2, <5>1 DEF Longer
      <4> QED BY <4>1, <4>2
    <3>4. Append(g[n - 1], nodes[n]) = [i \in 1 .. n |-> nodes[i]]
      <4> DEFINE s == g[n - 1]
      <4>1. s = [i \in 1 .. n - 1 |-> nodes[i]]
        BY <3>1
      <4> HIDE DEF s
      <4> QED BY <1>0, <2>2, <4>1
    <3> QED BY <2>2, <3>1, <3>3, <3>4
  <2>3. CASE n > N
    <3>1. g[n] = nodes /\ g[n - 1] = nodes
      BY <1>0, <2>3
    <3>2. Longer(nodes, first, link) = nodes
      BY DEF Longer, IsList
    <3> HIDE DEF g
    <3> QED BY <1>0, <2>3, <3>1, <3>2
  <2> QED BY <1>0, <2>1, <2>2, <2>3
<1>3. g[K] = nodes
  BY <1>0, <1>1
<1> HIDE DEF g
<1> QED BY <1>2, <1>3, NodesBy

Elements(nodes) == {nodes[i] : i \in DOMAIN nodes}

LEMMA ListFacts ==
  ASSUME NEW nodes, NEW first, NEW link, IsList(nodes, first, link)
  PROVE  /\ Elements(nodes) \subseteq Node /\ first \in Elements(nodes) /\ Null \notin Elements(nodes)
         /\ \A m \in Elements(nodes) :
              /\ link[m] = Null \/ link[m] \in Elements(nodes)
              /\ link[m] # first /\ link[m] # m
         /\ \A m, n \in Elements(nodes) : link[m] = link[n] => m = n
         /\ nodes[Len(nodes)] \in Elements(nodes) /\ link[nodes[Len(nodes)]] = Null
<1> DEFINE N == Len(nodes)
<1>0. /\ N \in Nat \ {0} /\ DOMAIN nodes = 1 .. N /\ first = nodes[1] /\ link[nodes[N]] = Null
      /\ \A i \in 1 .. N : nodes[i] \in Node /\ nodes[i] # Null
      /\ \A i \in 1 .. N - 1 : link[nodes[i]] = nodes[i + 1]
      /\ \A i, j \in 1 .. N : nodes[i] = nodes[j] => i = j
  <2>1. nodes \in Seq(Node) /\ nodes # <<>> /\ Null \notin Node
    BY QueueAssumption DEF IsList
  <2> QED BY <2>1 DEF IsList
<1> HIDE DEF N
<1>1. \A m \in Elements(nodes) : \E i \in 1 .. N : m = nodes[i]
  BY <1>0 DEF Elements
<1>2. \A i \in 1 .. N : nodes[i] \in Elements(nodes)
  BY <1>0 DEF Elements
<1>3. \A i \in 1 .. N : i = N \/ (i \in 1 .. N - 1 /\ i + 1 \in 1 .. N /\ i + 1 # 1 /\ i + 1 # i)
  BY <1>0
<1>4. ASSUME NEW m \in Elements(nodes)
      PROVE  (link[m] = Null \/ link[m] \in Elements(nodes)) /\ link[m] # first /\ link[m] # m
  <2>1. PICK i \in 1 .. N : m = nodes[i]
    BY <1>1
  <2>2. 1 \in 1 .. N
    BY <1>0
  <2> QED BY <1>0, <1>2, <1>3, <2>1, <2>2
<1>5. ASSUME NEW m \in Elements(nodes), NEW n \in Elements(nodes), link[m] = link[n]
      PROVE  m = n
  <2>1. PICK i \in 1 .. N : m = nodes[i]
    BY <1>1
  <2>2. PICK j \in 1 .. N : n = nodes[j]
    BY <1>1
  <2>3. CASE i = N /\ j = N
    BY <2>1, <2>2, <2>3
  <2>4. CASE i = N /\ j # N
    BY <1>0, <1>3, <1>5, <2>1, <2>2, <2>4
  <2>5. CASE i # N /\ j = N
    BY <1>0, <1>3, <1>5, <2>1, <2>2, <2>5
  <2>6. CASE i # N /\ j # N
    <3>1. nodes[i + 1] = nodes[j + 1]
      BY <1>0, <1>3, <1>5, <2>1, <2>2, <2>6
    <3>2. i + 1 = j + 1
      BY <1>0, <1>3, <2>6, <3>1
    <3> QED BY <2>1, <2>2, <3>2
  <2> QED BY <2>3, <2>4, <2>5, <2>6
<1>6. Elements(nodes) \subseteq Node /\ first \in Elements(nodes) /\ Null \notin Elements(nodes)
  <2>1. 1 \in 1 .. N
    BY <1>0
  <2> QED BY <1>0, <1>1, <1>2, <2>1
<1>7. nodes[N] \in Elements(nodes)
  BY <1>0, <1>2
<1> QED BY <1>0, <1>4, <1>5, <1>6, <1>7 DEF N

\* A list stays a list as long as its links do.
LEMMA ListStays ==
  ASSUME NEW nodes, NEW first, NEW link, IsList(nodes, first, link),
         NEW other, \A m \in Elements(nodes) : other[m] = link[m]
  PROVE  IsList(nodes, first, other)
<1>1. nodes \in Seq(Node) /\ Len(nodes) \in Nat \ {0} /\ \A i \in 1 .. Len(nodes) : nodes[i] \in Elements(nodes)
  BY DEF IsList, Elements
<1>2. \A i \in 1 .. Len(nodes) - 1 : i \in 1 .. Len(nodes)
  BY <1>1
<1>3. Len(nodes) \in 1 .. Len(nodes)
  BY <1>1
<1> QED BY <1>1, <1>2, <1>3 DEF IsList

\* A new node after the last one.
LEMMA ListGrows ==
  ASSUME NEW nodes, NEW first, NEW link, IsList(nodes, first, link),
         NEW m \in Elements(nodes), link[m] = Null, NEW n \in Node, n \notin Elements(nodes),
         NEW other, other[m] = n, other[n] = Null, \A x \in Elements(nodes) \ {m} : other[x] = link[x]
  PROVE  /\ IsList(Append(nodes, n), first, other)
         /\ Elements(Append(nodes, n)) = Elements(nodes) \cup {n}
<1> DEFINE N == Len(nodes)
           more == Append(nodes, n)
<1>0. /\ nodes \in Seq(Node) /\ N \in Nat \ {0} /\ DOMAIN nodes = 1 .. N /\ first = nodes[1]
      /\ \A i \in 1 .. N : nodes[i] \in Node /\ nodes[i] \in Elements(nodes)
      /\ \A i \in 1 .. N - 1 : link[nodes[i]] = nodes[i + 1]
      /\ \A i, j \in 1 .. N : nodes[i] = nodes[j] => i = j
  BY DEF IsList, Elements
<1>1. m = nodes[N]
  <2>1. link[nodes[N]] = Null /\ nodes[N] \in Elements(nodes)
    BY ListFacts
  <2> QED BY <2>1, ListFacts
<1>2. /\ more \in Seq(Node) /\ Len(more) = N + 1 /\ DOMAIN more = 1 .. N + 1
      /\ more[N + 1] = n /\ \A i \in 1 .. N : more[i] = nodes[i]
  BY <1>0
<1> HIDE DEF more, N
<1>3. Elements(more) = Elements(nodes) \cup {n}
  <2>1. \A i \in 1 .. N + 1 : i \in 1 .. N \/ i = N + 1
    BY <1>0
  <2>2. 1 .. N \subseteq 1 .. N + 1 /\ N + 1 \in 1 .. N + 1
    BY <1>0
  <2> QED BY <1>0, <1>2, <2>1, <2>2 DEF Elements
<1>4. more # <<>> /\ more[1] = first
  BY <1>0, <1>2
<1>5. ASSUME NEW i \in 1 .. N PROVE other[more[i]] = more[i + 1]
  <2>1. CASE i = N
    BY <1>1, <1>2, <2>1
  <2>2. CASE i # N
    <3>1. i \in 1 .. N - 1 /\ i + 1 \in 1 .. N /\ N \in 1 .. N
      BY <1>0, <2>2
    <3>2. nodes[i] # m
      BY <1>0, <1>1, <2>2, <3>1
    <3> QED BY <1>0, <1>2, <3>1, <3>2
  <2> QED BY <2>1, <2>2
<1>6. other[more[N + 1]] = Null
  BY <1>2
<1>7. \A i, j \in 1 .. N + 1 : more[i] = more[j] => i = j
  <2>1. \A i \in 1 .. N + 1 : i \in 1 .. N \/ i = N + 1
    BY <1>0
  <2> QED BY <1>0, <1>2, <2>1
<1>8. (N + 1) - 1 = N
  BY <1>0
<1>9. IsList(more, first, other)
  BY <1>2, <1>4, <1>5, <1>6, <1>7, <1>8 DEF IsList
<1> QED BY <1>3, <1>9 DEF more

\* The list without its first node.
LEMMA ListAdvances ==
  ASSUME NEW nodes, NEW first, NEW link, IsList(nodes, first, link), link[first] # Null
  PROVE  /\ IsList(Tail(nodes), link[first], link)
         /\ Elements(Tail(nodes)) = Elements(nodes) \ {first}
<1> DEFINE N == Len(nodes)
           rest == Tail(nodes)
<1>0. /\ nodes \in Seq(Node) /\ N \in Nat \ {0} /\ DOMAIN nodes = 1 .. N /\ first = nodes[1]
      /\ \A i \in 1 .. N - 1 : link[nodes[i]] = nodes[i + 1]
      /\ link[nodes[N]] = Null
      /\ \A i, j \in 1 .. N : nodes[i] = nodes[j] => i = j
  BY DEF IsList
<1>1. N > 1
  BY <1>0
<1>2. /\ rest \in Seq(Node) /\ Len(rest) = N - 1 /\ DOMAIN rest = 1 .. N - 1
      /\ \A i \in 1 .. N - 1 : rest[i] = nodes[i + 1]
  BY <1>0, <1>1
<1> HIDE DEF rest, N
<1>3. \A i \in 1 .. N - 1 : i + 1 \in 1 .. N /\ i + 1 # 1
  BY <1>0
<1>4. Elements(rest) = Elements(nodes) \ {first}
  <2>1. \A i \in 1 .. N : i = 1 \/ (i - 1 \in 1 .. N - 1 /\ (i - 1) + 1 = i)
    BY <1>0
  <2>2. 1 \in 1 .. N
    BY <1>0
  <2>3. ASSUME NEW x \in Elements(rest) PROVE x \in Elements(nodes) \ {first}
    <3>1. PICK i \in 1 .. N - 1 : x = rest[i]
      BY <1>2, <2>3 DEF Elements
    <3> QED BY <1>0, <1>2, <1>3, <2>2, <3>1 DEF Elements
  <2>4. ASSUME NEW x \in Elements(nodes) \ {first} PROVE x \in Elements(rest)
    <3>1. PICK i \in 1 .. N : x = nodes[i]
      BY <1>0, <2>4 DEF Elements
    <3>2. i - 1 \in 1 .. N - 1 /\ x = rest[i - 1]
      BY <1>0, <1>2, <2>1, <2>4, <3>1
    <3> QED BY <1>2, <3>2 DEF Elements
  <2> QED BY <2>3, <2>4
<1>5. rest # <<>> /\ link[first] = rest[1]
  BY <1>0, <1>1, <1>2
<1>6. ASSUME NEW i \in 1 .. (N - 1) - 1 PROVE link[rest[i]] = rest[i + 1]
  <2>1. i \in 1 .. N - 1 /\ i + 1 \in 1 .. N - 1
    BY <1>0
  <2> QED BY <1>0, <1>2, <2>1
<1>7. link[rest[N - 1]] = Null
  BY <1>0, <1>1, <1>2
<1>8. ASSUME NEW i \in 1 .. N - 1, NEW j \in 1 .. N - 1, rest[i] = rest[j] PROVE i = j
  <2>1. i + 1 = j + 1
    BY <1>0, <1>2, <1>3, <1>8
  <2> QED BY <2>1
<1>9. IsList(rest, link[first], link)
  BY <1>2, <1>5, <1>6, <1>7, <1>8 DEF IsList
<1> QED BY <1>4, <1>9 DEF rest

-------------------------------------------------------------------------------
(* Types.                                                                  *)

LEMMA ChainFacts ==
  ASSUME Listed
  PROVE  /\ InChain \subseteq Node /\ Null \notin InChain
         /\ ~destroyed => head \in InChain /\ tail \in InChain
         /\ destroyed => InChain = {}
         /\ \A m \in InChain : /\ next[m] = Null \/ next[m] \in InChain
                               /\ next[m] # head /\ next[m] # m
         /\ \A m, n \in InChain : next[m] = next[n] => m = n
<1>1. CASE ~destroyed
  <2>1. IsList(Chain, head, next) /\ tail \in InChain /\ InChain = Elements(Chain)
    BY <1>1 DEF Listed, InChain, Elements
  <2> QED BY <1>1, <2>1, ListFacts
<1>2. CASE destroyed
  <2>1. Chain = <<>>
    BY <1>2, NodesOfNull DEF Listed, Chain
  <2>2. InChain = {}
    BY <2>1 DEF InChain
  <2> QED BY <1>2, <2>2
<1> QED BY <1>1, <1>2

LEMMA HookedFacts ==
  ASSUME Typed, Listed, Apart, NEW m, Hooked(m)
  PROVE  m \in Node /\ m # Null /\ m \in allocated
<1>1. m \in Node
  BY ChainFacts DEF Typed, Hooked, Past, Apart
<1> QED BY <1>1, QueueAssumption DEF Apart

\* The nodes that steps read are nodes.
LEMMA Touched ==
  ASSUME QueueInv
  PROVE  /\ \A p \in Producer : pc[p] \in {"read next", "check tail", "link", "help tail"} => snap[p] \in Node
         /\ \A p \in Producer : pc[p] \in {"link", "swing"} => new_node[p] \in Node
         /\ \A c \in Consumer : pc[c] \in HeadKnown \cup {"take", "retire"} => snap[c] \in Node
         /\ \A c \in Consumer : pc[c] \in {"help tail", "move head", "take"} => nxt[c] \in Node
<1>0. Typed /\ Listed /\ Apart
  BY DEF QueueInv
<1>1. ASSUME NEW p \in Producer
      PROVE  /\ pc[p] \in {"read next", "check tail", "link", "help tail"} => snap[p] \in Node
             /\ pc[p] \in {"link", "swing"} => new_node[p] \in Node
  <2>1. Enqueuing(p)
    BY DEF QueueInv
  <2>2. new_node[p] \in Node \cup {Null}
    BY <1>0 DEF Typed
  <2> QED BY <1>0, <2>1, <2>2, HookedFacts DEF Enqueuing, Apart, Making
<1>2. ASSUME NEW c \in Consumer
      PROVE  /\ pc[c] \in HeadKnown \cup {"take", "retire"} => snap[c] \in Node
             /\ pc[c] \in {"help tail", "move head", "take"} => nxt[c] \in Node
  <2>1. Dequeuing(c)
    BY DEF QueueInv
  <2>2. nxt[c] \in Node \cup {Null}
    BY <1>0 DEF Typed, Thread
  <2> QED BY <1>0, <2>1, <2>2 DEF Dequeuing, Apart, Taking
<1> QED BY <1>1, <1>2

LEMMA TypedStep ==
  ASSUME QueueInv, [Next]_vars
  PROVE  Typed'
<1> USE DEF Typed, Goto, Forget, list_vars, scan_vars, producer_frame, consumer_frame, Thread, Slot, Label
<1>0. Typed /\ Producer \cap Consumer = {}
  BY QueueAssumption DEF QueueInv
<1>1. ASSUME NEW p \in Producer, NEW v \in Value, NewNode(p, v)
      PROVE  Typed'
  <2>1. PICK m \in Node \ allocated :
          /\ allocated' = allocated \cup {m} /\ next' = [next EXCEPT ![m] = Null]
          /\ data' = [data EXCEPT ![m] = v] /\ new_node' = [new_node EXCEPT ![p] = m]
    BY <1>1 DEF NewNode
  <2>2. /\ unsent' = unsent \ {v} /\ pc' = [pc EXCEPT ![p] = "load tail"]
        /\ UNCHANGED <<head, tail, snap, nxt, result, hp, seen, retired, unread, found, destroyed>>
    BY <1>1 DEF NewNode
  <2>3. "load tail" \in ProducerLabel
    BY DEF ProducerLabel
  <2> QED BY <1>0, <2>1, <2>2, <2>3
<1>2. ASSUME NEW p \in Producer, LoadTail(p)
      PROVE  Typed'
  BY <1>0, <1>2 DEF LoadTail, ProducerLabel, ConsumerLabel, Drained, SetHazardPointer, Visible, TailMoved
<1>3. ASSUME NEW p \in Producer, ReadNext(p)
      PROVE  Typed'
  BY <1>0, <1>3, Touched DEF ReadNext, ProducerLabel, ConsumerLabel, Drained, SetHazardPointer, Visible,
     TailMoved
<1>4. ASSUME NEW p \in Producer, CheckTail(p)
      PROVE  Typed'
  BY <1>0, <1>4 DEF CheckTail, ProducerLabel, ConsumerLabel, Drained, SetHazardPointer, Visible, TailMoved
<1>5. ASSUME NEW p \in Producer, Link(p)
      PROVE  Typed'
  BY <1>0, <1>5, Touched DEF Link, ProducerLabel, ConsumerLabel, Drained, SetHazardPointer, Visible, TailMoved
<1>6. ASSUME NEW p \in Producer, LinkFails(p)
      PROVE  Typed'
  BY <1>0, <1>6 DEF LinkFails, ProducerLabel, ConsumerLabel, Drained, SetHazardPointer, Visible, TailMoved
<1>7. ASSUME NEW p \in Producer, Swing(p)
      PROVE  Typed'
  BY <1>0, <1>7 DEF Swing, ProducerLabel, ConsumerLabel, Drained, SetHazardPointer, Visible, TailMoved
<1>8. ASSUME NEW p \in Producer, HelpTail(p)
      PROVE  Typed'
  BY <1>0, <1>8 DEF HelpTail, ProducerLabel, ConsumerLabel, Drained, SetHazardPointer, Visible, TailMoved
<1>9. ASSUME NEW c \in Consumer, LoadHead(c)
      PROVE  Typed'
  BY <1>0, <1>9 DEF LoadHead, ProducerLabel, ConsumerLabel, Drained, SetHazardPointer, Visible, TailMoved
<1>10. ASSUME NEW c \in Consumer, ProtectHead(c)
       PROVE  Typed'
  BY <1>0, <1>10 DEF ProtectHead, ProducerLabel, ConsumerLabel, Drained, SetHazardPointer, Visible, TailMoved
<1>11. ASSUME NEW c \in Consumer, CheckHead(c)
       PROVE  Typed'
  BY <1>0, <1>11 DEF CheckHead, ProducerLabel, ConsumerLabel, Drained, SetHazardPointer, Visible, TailMoved
<1>12. ASSUME NEW c \in Consumer, LoadNext(c)
       PROVE  Typed'
  BY <1>0, <1>12, Touched DEF LoadNext, HeadKnown, ProducerLabel, ConsumerLabel
<1>13. ASSUME NEW c \in Consumer, ProtectNext(c)
       PROVE  Typed'
  BY <1>0, <1>13 DEF ProtectNext, ProducerLabel, ConsumerLabel, Drained, SetHazardPointer, Visible, TailMoved
<1>14. ASSUME NEW c \in Consumer, RecheckHead(c)
       PROVE  Typed'
  BY <1>0, <1>14 DEF RecheckHead, ProducerLabel, ConsumerLabel, Drained, SetHazardPointer, Visible, TailMoved
<1>15. ASSUME NEW c \in Consumer, ReloadNext(c)
       PROVE  Typed'
  BY <1>0, <1>15 DEF ReloadNext, ProducerLabel, ConsumerLabel, Drained, SetHazardPointer, Visible, TailMoved
<1>16. ASSUME NEW c \in Consumer, CompareTail(c)
       PROVE  Typed'
  BY <1>0, <1>16 DEF CompareTail, ProducerLabel, ConsumerLabel, Drained, SetHazardPointer, Visible, TailMoved
<1>17. ASSUME NEW c \in Consumer, ConsumerHelpsTail(c)
       PROVE  Typed'
  BY <1>0, <1>17 DEF ConsumerHelpsTail, ProducerLabel, ConsumerLabel, Drained, SetHazardPointer, Visible,
     TailMoved
<1>18. ASSUME NEW c \in Consumer, MoveHead(c)
       PROVE  Typed'
  BY <1>0, <1>18 DEF MoveHead, ProducerLabel, ConsumerLabel, Drained, SetHazardPointer, Visible, TailMoved
<1>19. ASSUME NEW c \in Consumer, MoveHeadFails(c)
       PROVE  Typed'
  BY <1>0, <1>19 DEF MoveHeadFails, ProducerLabel, ConsumerLabel, Drained, SetHazardPointer, Visible, TailMoved
<1>20. ASSUME NEW c \in Consumer, Take(c)
       PROVE  Typed'
  BY <1>0, <1>20, Touched DEF Take, ProducerLabel, ConsumerLabel, Drained, SetHazardPointer, Visible, TailMoved
<1>21. ASSUME NEW c \in Consumer, Retire(c)
       PROVE  Typed'
  <2>1. retired' = [retired EXCEPT ![c] = retired[c] \cup {snap[c]}] /\ snap[c] \in Node
    BY <1>21, Touched DEF Retire
  <2>2. retired' \in [Consumer -> SUBSET Node]
    BY <1>0, <2>1
  <2>3. /\ pc' = [pc EXCEPT ![c] = "scan"] \/ pc' = [pc EXCEPT ![c] = "clear"]
        /\ unread' = unread \/ unread' = [unread EXCEPT ![c] = Consumer \X {0, 1}]
        /\ seen' = seen \/ seen' = [seen EXCEPT ![c] = hp[c]]
    BY <1>21 DEF Retire, Drained
  <2>4. "scan" \in ConsumerLabel /\ "clear" \in ConsumerLabel
    BY DEF ConsumerLabel
  <2>5. unread' \in [Consumer -> SUBSET (Consumer \X {0, 1})]
    BY <1>0, <2>3
  <2>6. seen' \in [Consumer -> [{0, 1} -> Node \cup {Null}]]
    BY <1>0, <2>3
  <2>7. UNCHANGED <<head, tail, next, data, allocated, snap, nxt, result, hp, found, new_node, unsent, destroyed>>
    BY <1>21 DEF Retire
  <2>8. /\ pc' \in [Producer \cup Consumer -> ProducerLabel \cup ConsumerLabel]
        /\ \A p \in Producer : pc'[p] \in ProducerLabel
        /\ \A e \in Consumer : pc'[e] \in ConsumerLabel
    <3>1. PICK label \in ConsumerLabel : pc' = [pc EXCEPT ![c] = label]
      BY <2>3, <2>4
    <3> QED BY <1>0, <3>1
  <2> QED BY <1>0, <2>2, <2>5, <2>6, <2>7, <2>8
<1>22. ASSUME NEW c \in Consumer, Cleanup(c)
       PROVE  Typed'
  BY <1>0, <1>22 DEF Cleanup, ProducerLabel, ConsumerLabel, Drained, SetHazardPointer, Visible, TailMoved
<1>23. ASSUME NEW c \in Consumer, NEW d \in Consumer, NEW i \in Slot, ReadHazardPointer(c, d, i)
       PROVE  Typed'
  <2>1. {seen[d][i]} \ {Null} \subseteq Node
    BY <1>0
  <2>2. /\ unread' = [unread EXCEPT ![c] = unread[c] \ {<<d, i>>}]
        /\ found' = [found EXCEPT ![c] = found[c] \cup ({seen[d][i]} \ {Null})]
        /\ UNCHANGED <<head, tail, next, data, allocated, pc, snap, nxt, result, hp, seen, retired,
                       new_node, unsent, destroyed>>
    BY <1>23 DEF ReadHazardPointer
  <2>3. /\ unread' \in [Consumer -> SUBSET (Consumer \X {0, 1})]
        /\ found' \in [Consumer -> SUBSET Node]
    BY <1>0, <2>1, <2>2
  <2> QED BY <1>0, <2>2, <2>3
<1>24. ASSUME NEW c \in Consumer, DeleteUnprotected(c)
       PROVE  Typed'
  BY <1>0, <1>24 DEF DeleteUnprotected, ProducerLabel, ConsumerLabel, Drained, SetHazardPointer, Visible,
     TailMoved
<1>25. ASSUME NEW c \in Consumer, ClearAndReturn(c)
       PROVE  Typed'
  BY <1>0, <1>25 DEF ClearAndReturn, ProducerLabel, ConsumerLabel, Drained, SetHazardPointer, Visible, TailMoved
<1>26. ASSUME NEW c \in Consumer, StoresBecomeVisible(c)
       PROVE  Typed'
  BY <1>0, <1>26 DEF StoresBecomeVisible, ProducerLabel, ConsumerLabel, Drained, SetHazardPointer, Visible,
     TailMoved
<1>27. ASSUME NEW c \in Consumer, Destroy(c)
       PROVE  Typed'
  <2> DEFINE protected == {seen[d][i] : d \in Consumer \ {c}, i \in {0, 1}}
             dummy == Chain[Len(Chain)]
             all == retired[c] \cup (InChain \ {dummy})
  <2>1. /\ retired' = [retired EXCEPT ![c] = all \cap protected]
        /\ allocated' = allocated \ ((all \ protected) \cup {dummy})
    BY <1>27 DEF Destroy
  <2> HIDE DEF protected, dummy
  <2>2. retired' \in [Consumer -> SUBSET Node]
    BY <1>0, <2>1, ChainFacts DEF QueueInv
  <2>3. /\ destroyed' = TRUE /\ head' = Null /\ tail' = Null /\ seen' = [seen EXCEPT ![c] = hp[c]]
        /\ UNCHANGED <<next, data, pc, snap, nxt, new_node, unsent, result, hp, unread, found>>
    BY <1>27 DEF Destroy, Drained
  <2> QED BY <1>0, <2>1, <2>2, <2>3
<1>28. CASE UNCHANGED vars
  BY <1>0, <1>28 DEF vars
<1> QED
  BY <1>1, <1>2, <1>3, <1>4, <1>5, <1>6, <1>7, <1>8, <1>9, <1>10, <1>11, <1>12, <1>13, <1>14,
     <1>15, <1>16, <1>17, <1>18, <1>19, <1>20, <1>21, <1>22, <1>23, <1>24, <1>25, <1>26, <1>27, <1>28
  DEF Next, ProducerStep, ConsumerStep, Dequeue, Done

-------------------------------------------------------------------------------
(* What steps leave alone.                                                 *)

\* A step of th is of no other thread.
OnlyMoves(th) ==
  /\ \A t \in Thread \ {th} : pc'[t] = pc[t] /\ snap'[t] = snap[t] /\ nxt'[t] = nxt[t]
  /\ \A p \in Producer \ {th} : new_node'[p] = new_node[p]
  /\ \A c \in Consumer \ {th} : /\ hp'[c] = hp[c] /\ seen'[c] = seen[c] /\ retired'[c] = retired[c]
                                /\ unread'[c] = unread[c] /\ found'[c] = found[c]

LEMMA ProducerMoves ==
  ASSUME Typed, NEW p \in Producer, ProducerStep(p) \/ \E v \in Value : NewNode(p, v)
  PROVE  OnlyMoves(p) /\ p \notin Consumer /\ p \in Thread
         /\ UNCHANGED <<head, hp, seen, retired, unread, found, destroyed>>
<1> USE QueueAssumption DEF OnlyMoves, Thread, Goto, Forget, list_vars, scan_vars, producer_frame
<1>0. /\ pc \in [Producer \cup Consumer -> Label] /\ snap \in [Producer \cup Consumer -> Node \cup {Null}]
      /\ nxt \in [Producer \cup Consumer -> Node \cup {Null}] /\ new_node \in [Producer -> Node \cup {Null}]
      /\ p \notin Consumer /\ p \in Producer \cup Consumer
  BY DEF Typed
<1>1. ASSUME NEW v \in Value, NewNode(p, v)
      PROVE  OnlyMoves(p) /\ UNCHANGED <<head, hp, seen, retired, unread, found, destroyed>>
  <2>1. PICK m \in Node : new_node' = [new_node EXCEPT ![p] = m]
    BY <1>1 DEF NewNode
  <2> QED BY <1>0, <1>1, <2>1 DEF NewNode
<1>2. CASE LoadTail(p)
  BY <1>0, <1>2 DEF LoadTail
<1>3. CASE ReadNext(p)
  BY <1>0, <1>3 DEF ReadNext
<1>4. CASE CheckTail(p)
  BY <1>0, <1>4 DEF CheckTail
<1>5. CASE Link(p)
  BY <1>0, <1>5 DEF Link
<1>6. CASE LinkFails(p)
  BY <1>0, <1>6 DEF LinkFails
<1>7. CASE Swing(p)
  BY <1>0, <1>7 DEF Swing
<1>8. CASE HelpTail(p)
  BY <1>0, <1>8 DEF HelpTail
<1> QED BY <1>0, <1>1, <1>2, <1>3, <1>4, <1>5, <1>6, <1>7, <1>8 DEF ProducerStep

LEMMA ConsumerMoves ==
  ASSUME Typed, NEW c \in Consumer,
         ConsumerStep(c) \/ Dequeue(c) \/ Cleanup(c) \/ StoresBecomeVisible(c) \/ Destroy(c)
  PROVE  OnlyMoves(c) /\ c \notin Producer /\ c \in Thread /\ UNCHANGED <<new_node, unsent>>
<1> USE QueueAssumption DEF OnlyMoves, Thread, Goto, Forget, list_vars, scan_vars, consumer_frame
<1>0. /\ pc \in [Producer \cup Consumer -> Label] /\ snap \in [Producer \cup Consumer -> Node \cup {Null}]
      /\ nxt \in [Producer \cup Consumer -> Node \cup {Null}]
      /\ hp \in [Consumer -> [Slot -> Node \cup {Null}]] /\ seen \in [Consumer -> [Slot -> Node \cup {Null}]]
      /\ retired \in [Consumer -> SUBSET Node]
      /\ unread \in [Consumer -> SUBSET (Consumer \X Slot)] /\ found \in [Consumer -> SUBSET Node]
      /\ c \notin Producer /\ c \in Producer \cup Consumer
  BY DEF Typed
<1>1. CASE LoadHead(c)
  BY <1>0, <1>1 DEF LoadHead, Drained, SetHazardPointer, Visible
<1>2. CASE ProtectHead(c)
  BY <1>0, <1>2 DEF ProtectHead, Drained, SetHazardPointer, Visible
<1>3. CASE CheckHead(c)
  BY <1>0, <1>3 DEF CheckHead, Drained, SetHazardPointer, Visible
<1>4. CASE LoadNext(c)
  BY <1>0, <1>4 DEF LoadNext, Drained, SetHazardPointer, Visible
<1>5. CASE ProtectNext(c)
  BY <1>0, <1>5 DEF ProtectNext, Drained, SetHazardPointer, Visible
<1>6. CASE RecheckHead(c)
  BY <1>0, <1>6 DEF RecheckHead, Drained, SetHazardPointer, Visible
<1>7. CASE ReloadNext(c)
  BY <1>0, <1>7 DEF ReloadNext, Drained, SetHazardPointer, Visible
<1>8. CASE CompareTail(c)
  BY <1>0, <1>8 DEF CompareTail, Drained, SetHazardPointer, Visible
<1>9. CASE ConsumerHelpsTail(c)
  BY <1>0, <1>9 DEF ConsumerHelpsTail, Drained, SetHazardPointer, Visible
<1>10. CASE MoveHead(c)
  BY <1>0, <1>10 DEF MoveHead, Drained, SetHazardPointer, Visible
<1>11. CASE MoveHeadFails(c)
  BY <1>0, <1>11 DEF MoveHeadFails, Drained, SetHazardPointer, Visible
<1>12. CASE Take(c)
  BY <1>0, <1>12 DEF Take, Drained, SetHazardPointer, Visible
<1>13. CASE Retire(c)
  BY <1>0, <1>13 DEF Retire, Drained, SetHazardPointer, Visible
<1>14. CASE Cleanup(c)
  BY <1>0, <1>14 DEF Cleanup, Drained, SetHazardPointer, Visible
<1>15. ASSUME NEW d \in Consumer, NEW i \in Slot, ReadHazardPointer(c, d, i)
      PROVE  OnlyMoves(c) /\ UNCHANGED <<new_node, unsent>>
  BY <1>0, <1>15 DEF ReadHazardPointer
<1>16. CASE DeleteUnprotected(c)
  BY <1>0, <1>16 DEF DeleteUnprotected, Drained, SetHazardPointer, Visible
<1>17. CASE ClearAndReturn(c)
  BY <1>0, <1>17 DEF ClearAndReturn, Drained, SetHazardPointer, Visible
<1>18. CASE StoresBecomeVisible(c)
  BY <1>0, <1>18 DEF StoresBecomeVisible, Drained, SetHazardPointer, Visible
<1>19. CASE Destroy(c)
  <2> DEFINE all == retired[c] \cup (InChain \ {Chain[Len(Chain)]})
             protected == {seen[d][i] : d \in Consumer \ {c}, i \in Slot}
  <2>1. retired' = [retired EXCEPT ![c] = all \cap protected]
    BY <1>19 DEF Destroy
  <2> HIDE DEF all, protected
  <2> QED BY <1>0, <1>19, <2>1 DEF Destroy, Drained
<1> QED
  BY <1>0, <1>1, <1>2, <1>3, <1>4, <1>5, <1>6, <1>7, <1>8, <1>9, <1>10, <1>11,
     <1>12, <1>13, <1>14, <1>15, <1>16, <1>17, <1>18, <1>19
  DEF ConsumerStep, Dequeue

LEMMA ChainStays ==
  ASSUME Listed, UNCHANGED <<head, destroyed>>, \A m \in InChain : next'[m] = next[m]
  PROVE  /\ Chain' = Chain /\ InChain' = InChain
         /\ ~destroyed => IsList(Chain', head', next')
<1>1. CASE ~destroyed
  <2>1. IsList(Chain, head, next) /\ InChain = Elements(Chain)
    BY <1>1 DEF Listed, InChain, Elements
  <2>2. IsList(Chain, head, next')
    BY <2>1, ListStays
  <2>3. Nodes(head, next') = Chain
    BY <2>2, NodesIs
  <2>4. Chain' = Chain
    BY <2>3 DEF Chain
  <2> QED BY <2>2, <2>4 DEF InChain
<1>2. CASE destroyed
  <2>1. head = Null /\ head' = Null
    BY <1>2 DEF Listed
  <2>2. Chain = <<>> /\ Chain' = <<>>
    BY <2>1, NodesOfNull DEF Chain
  <2> QED BY <1>2, <2>2 DEF InChain
<1> QED BY <1>1, <1>2

\* Who is past the list stays so.
SameTakers ==
  /\ retired' = retired
  /\ \A c \in Consumer : (Taking(c)' <=> Taking(c)) /\ (Taking(c) => snap'[c] = snap[c])

\* The steps that move no node.
Quiet ==
  /\ UNCHANGED <<head, next, allocated, destroyed>>
  /\ SameTakers
  /\ \A p \in Producer : (Making(p)' <=> Making(p)) /\ (Making(p) => new_node'[p] = new_node[p])

LEMMA PastStays ==
  ASSUME SameTakers, NEW m
  PROVE  Past(m)' <=> Past(m)
BY DEF SameTakers, Past

LEMMA QuietFacts ==
  ASSUME Quiet, Listed
  PROVE  /\ Chain' = Chain /\ InChain' = InChain
         /\ ~destroyed => IsList(Chain', head', next')
         /\ \A m : (Past(m)' <=> Past(m)) /\ (Hooked(m)' <=> Hooked(m))
<1>1. Chain' = Chain /\ InChain' = InChain /\ (~destroyed => IsList(Chain', head', next'))
  BY ChainStays DEF Quiet
<1>2. \A m : Past(m)' <=> Past(m)
  BY PastStays DEF Quiet
<1> QED BY <1>1, <1>2 DEF Hooked

LEMMA QuietApart ==
  ASSUME Quiet, Listed, Apart
  PROVE  Apart'
<1>1. InChain' = InChain /\ \A m : (Past(m)' <=> Past(m)) /\ (Hooked(m)' <=> Hooked(m))
  BY QuietFacts
<1> QED BY <1>1 DEF Apart, Quiet, SameTakers

LEMMA QuietProducer ==
  ASSUME Typed, NEW p \in Producer,
         LoadTail(p) \/ ReadNext(p) \/ CheckTail(p) \/ LinkFails(p) \/ Swing(p) \/ HelpTail(p)
  PROVE  Quiet
<1>0. /\ pc \in [Producer \cup Consumer -> Label] /\ snap \in [Producer \cup Consumer -> Node \cup {Null}]
      /\ new_node \in [Producer -> Node \cup {Null}] /\ p \notin Consumer
  BY QueueAssumption DEF Typed, Thread
<1>1. \A c \in Consumer : pc'[c] = pc[c] /\ snap'[c] = snap[c]
  BY <1>0, ProducerMoves DEF OnlyMoves, Thread, ProducerStep
<1>2. UNCHANGED <<head, next, allocated, destroyed, retired>>
  BY DEF LoadTail, ReadNext, CheckTail, LinkFails, Swing, HelpTail, list_vars, scan_vars, producer_frame
<1>3. \A q \in Producer \ {p} : pc'[q] = pc[q] /\ new_node'[q] = new_node[q]
  BY <1>0, ProducerMoves DEF OnlyMoves, Thread, ProducerStep
<1>4. (Making(p)' <=> Making(p)) /\ (Making(p) => new_node'[p] = new_node[p])
  BY <1>0 DEF LoadTail, ReadNext, CheckTail, LinkFails, Swing, HelpTail, Making, Goto
<1> QED BY <1>1, <1>2, <1>3, <1>4 DEF Quiet, SameTakers, Taking, Making

LEMMA QuietConsumer ==
  ASSUME Typed, NEW c \in Consumer,
         \/ LoadHead(c) \/ ProtectHead(c) \/ CheckHead(c) \/ LoadNext(c) \/ ProtectNext(c)
         \/ RecheckHead(c) \/ ReloadNext(c) \/ CompareTail(c) \/ ConsumerHelpsTail(c)
         \/ MoveHeadFails(c) \/ Take(c) \/ Cleanup(c) \/ ClearAndReturn(c) \/ StoresBecomeVisible(c)
         \/ \E d \in Consumer, i \in Slot : ReadHazardPointer(c, d, i)
  PROVE  Quiet
<1>0. /\ pc \in [Producer \cup Consumer -> Label] /\ snap \in [Producer \cup Consumer -> Node \cup {Null}]
      /\ c \notin Producer
  BY QueueAssumption DEF Typed, Thread
<1>1. OnlyMoves(c) /\ UNCHANGED new_node
  <2>1. LoadHead(c) => ConsumerStep(c) \/ Dequeue(c)
    BY DEF ConsumerStep, Dequeue
  <2> QED BY <2>1, ConsumerMoves DEF ConsumerStep
<1>2. UNCHANGED <<head, next, allocated, destroyed, retired>>
  BY DEF LoadHead, ProtectHead, CheckHead, LoadNext, ProtectNext, RecheckHead, ReloadNext, CompareTail,
         ConsumerHelpsTail, MoveHeadFails, Take, Cleanup, ClearAndReturn, StoresBecomeVisible,
         ReadHazardPointer, list_vars, scan_vars, consumer_frame
<1>3. \A p \in Producer : pc'[p] = pc[p] /\ new_node'[p] = new_node[p]
  BY <1>0, <1>1 DEF OnlyMoves, Thread
<1>4. \A d \in Consumer \ {c} : pc'[d] = pc[d] /\ snap'[d] = snap[d]
  BY <1>1 DEF OnlyMoves, Thread
<1>5. (Taking(c)' <=> Taking(c)) /\ (Taking(c) => snap'[c] = snap[c])
  BY <1>0 DEF LoadHead, ProtectHead, CheckHead, LoadNext, ProtectNext, RecheckHead, ReloadNext, CompareTail,
         ConsumerHelpsTail, MoveHeadFails, Take, Cleanup, ClearAndReturn, StoresBecomeVisible,
         ReadHazardPointer, list_vars, scan_vars, consumer_frame, Taking, Goto, Forget
<1> QED BY <1>1, <1>2, <1>3, <1>4, <1>5 DEF Quiet, SameTakers, Taking, Making

\* Nodes stay in the list or past it, and a link stays once it has been made.
Steady ==
  /\ \A m : Hooked(m) => Hooked(m)' /\ (next'[m] = next[m] \/ next[m] = Null)
  /\ \A m : Past(m) => Past(m)'
  /\ \A m : m = head => m = head' \/ Past(m)'
  /\ \A m : m = head' /\ Past(m) => m = head
  /\ tail' = tail \/ tail' # head

LEMMA QuietSteady ==
  ASSUME Quiet, Listed, tail' = tail \/ tail' # head
  PROVE  Steady
BY QuietFacts DEF Quiet, Steady

LEMMA OtherProducer ==
  ASSUME Steady, NEW th, OnlyMoves(th), NEW p \in Producer, p # th, Enqueuing(p),
         Alone => \A m : Hooked(m)' => Hooked(m)
  PROVE  Enqueuing(p)'
<1>1. pc'[p] = pc[p] /\ snap'[p] = snap[p] /\ nxt'[p] = nxt[p] /\ new_node'[p] = new_node[p]
  BY DEF OnlyMoves, Thread
<1>2. Alone' <=> Alone
  BY DEF Alone
<1>3. pc[p] = "swing" => /\ new_node'[p] # Null
                         /\ \/ Hooked(snap[p])' /\ next'[snap[p]] = new_node[p]
                            \/ Alone' /\ ~Hooked(snap[p])'
  BY <1>1, <1>2 DEF Steady, Enqueuing
<1>4. pc[p] \in {"read next", "check tail", "link", "help tail"} => Hooked(snap[p])'
  BY <1>1 DEF Steady, Enqueuing
<1>5. pc[p] \in {"check tail", "help tail"} => nxt[p] \in {Null, next'[snap[p]]}
  BY DEF Steady, Enqueuing
<1> QED BY <1>1, <1>3, <1>4, <1>5 DEF Enqueuing

LEMMA OtherConsumer ==
  ASSUME Steady, Listed, NEW th, OnlyMoves(th), NEW c \in Consumer, c # th, Dequeuing(c)
  PROVE  Dequeuing(c)'
<1>1. pc'[c] = pc[c] /\ snap'[c] = snap[c] /\ nxt'[c] = nxt[c]
  BY DEF OnlyMoves, Thread
<1>2. pc[c] \in HeadKnown => /\ snap[c] \in Node
                             /\ snap[c] = head' \/ Past(snap[c])'
                             /\ snap[c] = head' => snap[c] = head
  BY <1>1 DEF Steady, Dequeuing
<1>3. pc[c] \in HeadKnown => Hooked(snap[c])
  <2>1. ~destroyed => head \in InChain
    BY ChainFacts
  <2>2. destroyed => pc[c] \in {"idle", "scan"}
    BY DEF Listed
  <2> QED BY <2>1, <2>2 DEF Dequeuing, Hooked, HeadKnown
<1>4. pc[c] = "take" => Hooked(snap[c])
  BY DEF Hooked, Past, Taking
<1>5. pc[c] \in NextRead => nxt[c] \in {Null, next'[snap[c]]}
  BY <1>3, <1>4 DEF Steady, Dequeuing, NextRead
<1>6. pc[c] \in NextKnown => nxt[c] = Null \/ Hooked(nxt[c])'
  BY <1>1 DEF Steady, Dequeuing
<1>7. pc[c] = "move head" /\ snap[c] = head' => tail' # head'
  <2>1. pc[c] = "move head" => pc[c] \in HeadKnown
    BY DEF HeadKnown
  <2> QED BY <1>2, <2>1 DEF Steady, Dequeuing
<1> QED BY <1>1, <1>2, <1>5, <1>6, <1>7 DEF Dequeuing

-------------------------------------------------------------------------------
(* The steps that move nodes.                                              *)

LEMMA NewNodeEffect ==
  ASSUME QueueInv, NEW p \in Producer, NEW v \in Value, NewNode(p, v)
  PROVE  /\ \E m \in Node \ allocated :
              /\ allocated' = allocated \cup {m} /\ next' = [next EXCEPT ![m] = Null]
              /\ data' = [data EXCEPT ![m] = v] /\ new_node' = [new_node EXCEPT ![p] = m]
              /\ \A x : Hooked(x) => x # m
         /\ Chain' = Chain /\ InChain' = InChain /\ (~destroyed => IsList(Chain', head', next'))
         /\ SameTakers /\ \A m : (Past(m)' <=> Past(m)) /\ (Hooked(m)' <=> Hooked(m))
         /\ Steady /\ OnlyMoves(p)
<1>0. Typed /\ Listed /\ Apart
  BY DEF QueueInv
<1>1. PICK m \in Node \ allocated :
        /\ allocated' = allocated \cup {m} /\ next' = [next EXCEPT ![m] = Null]
        /\ data' = [data EXCEPT ![m] = v] /\ new_node' = [new_node EXCEPT ![p] = m]
  BY DEF NewNode
<1>2. \A x : Hooked(x) => x # m /\ x \in Node /\ next'[x] = next[x]
  BY <1>0, <1>1, HookedFacts DEF Typed
<1>3. \A x \in InChain : Hooked(x)
  BY DEF Hooked
<1>4. OnlyMoves(p) /\ UNCHANGED <<head, tail, retired, destroyed>> /\ p \notin Consumer
  BY <1>0, ProducerMoves DEF NewNode
<1>5. SameTakers
  BY <1>4 DEF OnlyMoves, SameTakers, Taking, Thread
<1>6. \A x : Past(x)' <=> Past(x)
  BY <1>5, PastStays
<1>7. Chain' = Chain /\ InChain' = InChain /\ (~destroyed => IsList(Chain', head', next'))
  BY <1>0, <1>2, <1>3, <1>4, ChainStays
<1>8. \A x : Hooked(x)' <=> Hooked(x)
  BY <1>6, <1>7 DEF Hooked
<1>9. Steady
  BY <1>2, <1>4, <1>6, <1>8 DEF Steady
<1>10. \E x \in Node \ allocated :
         /\ allocated' = allocated \cup {x} /\ next' = [next EXCEPT ![x] = Null]
         /\ data' = [data EXCEPT ![x] = v] /\ new_node' = [new_node EXCEPT ![p] = x]
         /\ \A y : Hooked(y) => y # x
  BY <1>1, <1>2
<1> QED BY <1>4, <1>5, <1>6, <1>7, <1>8, <1>9, <1>10

LEMMA LinkEffect ==
  ASSUME QueueInv, NEW p \in Producer, Link(p)
  PROVE  /\ snap[p] \in InChain /\ next[snap[p]] = Null /\ next[new_node[p]] = Null
         /\ new_node[p] \in Node /\ ~Hooked(new_node[p]) /\ ~destroyed
         /\ next' = [next EXCEPT ![snap[p]] = new_node[p]] /\ allocated' = allocated
         /\ Chain' = Append(Chain, new_node[p]) /\ InChain' = InChain \cup {new_node[p]}
         /\ IsList(Chain', head', next')
         /\ SameTakers /\ \A m : Past(m)' <=> Past(m)
         /\ \A m : Hooked(m)' <=> Hooked(m) \/ m = new_node[p]
         /\ Steady /\ OnlyMoves(p)
<1>0. Typed /\ Listed /\ Apart /\ Enqueuing(p) /\ pc[p] = "link"
  BY DEF QueueInv, Link
<1>1. next[snap[p]] = Null /\ Hooked(snap[p])
  BY <1>0 DEF Enqueuing, Link, IsLast
<1>2. snap[p] \in InChain
  BY <1>0, <1>1, HookedFacts DEF Hooked, Apart
<1>3. new_node[p] \in Node /\ ~Hooked(new_node[p]) /\ next[new_node[p]] = Null
  BY <1>0 DEF Apart, Making
<1>4. ~destroyed
  BY <1>0 DEF Listed
<1>5. next' = [next EXCEPT ![snap[p]] = new_node[p]] /\ UNCHANGED <<tail, allocated>>
  BY DEF Link
<1>6. IsList(Chain, head, next) /\ InChain = Elements(Chain) /\ new_node[p] \notin InChain
  BY <1>0, <1>3, <1>4 DEF Listed, InChain, Elements, Hooked
<1>7. /\ IsList(Append(Chain, new_node[p]), head, next')
      /\ Elements(Append(Chain, new_node[p])) = InChain \cup {new_node[p]}
  <2>1. next \in [Node -> Node \cup {Null}]
    BY <1>0 DEF Typed
  <2>2. snap[p] \in Elements(Chain) /\ new_node[p] \notin Elements(Chain)
    BY <1>2, <1>6
  <2>3. /\ next'[snap[p]] = new_node[p] /\ next'[new_node[p]] = Null
        /\ \A x \in Elements(Chain) \ {snap[p]} : next'[x] = next[x]
    <3>1. Elements(Chain) \subseteq Node /\ snap[p] \in Node
      BY <1>0, <1>2, <1>6, ChainFacts
    <3> QED BY <1>3, <1>5, <2>1, <2>2, <3>1
  <2>4. /\ IsList(Append(Chain, new_node[p]), head, next')
        /\ Elements(Append(Chain, new_node[p])) = Elements(Chain) \cup {new_node[p]}
    BY <1>1, <1>3, <1>6, <2>2, <2>3, ListGrows
  <2> QED BY <1>6, <2>4
<1>8. OnlyMoves(p) /\ UNCHANGED <<head, retired, destroyed>> /\ p \notin Consumer
  BY <1>0, ProducerMoves DEF ProducerStep
<1>9. Chain' = Append(Chain, new_node[p]) /\ InChain' = InChain \cup {new_node[p]} /\ IsList(Chain', head', next')
  <2>1. Nodes(head, next') = Append(Chain, new_node[p])
    BY <1>7, NodesIs
  <2>2. Chain' = Append(Chain, new_node[p])
    BY <1>8, <2>1 DEF Chain
  <2>3. InChain' = Elements(Chain')
    BY DEF InChain, Elements
  <2> QED BY <1>7, <1>8, <2>2, <2>3
<1>10. SameTakers
  BY <1>8 DEF OnlyMoves, SameTakers, Taking, Thread
<1>11. \A m : Past(m)' <=> Past(m)
  BY <1>10, PastStays
<1>12. \A m : Hooked(m)' <=> Hooked(m) \/ m = new_node[p]
  BY <1>9, <1>11 DEF Hooked
<1>13. \A m : Hooked(m) => next'[m] = next[m] \/ next[m] = Null
  BY <1>0, <1>1, <1>5, HookedFacts DEF Typed
<1>14. Steady
  BY <1>5, <1>8, <1>11, <1>12, <1>13 DEF Steady
<1> QED BY <1>1, <1>2, <1>3, <1>4, <1>5, <1>8, <1>9, <1>10, <1>11, <1>12, <1>14

LEMMA MoveHeadEffect ==
  ASSUME QueueInv, NEW c \in Consumer, MoveHead(c)
  PROVE  /\ ~destroyed /\ head = snap[c] /\ head' = nxt[c] /\ nxt[c] = next[head] /\ nxt[c] \in InChain
         /\ head \in InChain /\ tail # head /\ ~Past(head)
         /\ UNCHANGED <<tail, next, data, allocated, retired, destroyed, snap, nxt>>
         /\ Chain' = Tail(Chain) /\ InChain' = InChain \ {head}
         /\ IsList(Chain', head', next')
         /\ \A m : Past(m)' <=> Past(m) \/ m = head
         /\ \A m : Hooked(m)' <=> Hooked(m)
         /\ Steady /\ OnlyMoves(c) /\ ~Taking(c) /\ Taking(c)'
<1>0. Typed /\ Listed /\ Apart /\ Dequeuing(c) /\ pc[c] = "move head"
  BY DEF QueueInv, MoveHead
<1>1. ~destroyed /\ head = snap[c] /\ head' = nxt[c]
  BY <1>0 DEF MoveHead, StillHead, Listed
<1>2. UNCHANGED <<tail, next, data, allocated, retired, destroyed, snap, nxt>>
  BY DEF MoveHead, scan_vars, consumer_frame
<1>3. nxt[c] # Null /\ nxt[c] = next[head] /\ tail # head
  BY <1>0, <1>1 DEF Dequeuing, NextRead, HeadKnown
<1>4. head \in InChain /\ nxt[c] \in InChain /\ head \in Node
  BY <1>0, <1>1, <1>3, ChainFacts
<1>5. ~Past(head)
  BY <1>0, <1>4 DEF Apart
<1>6. IsList(Chain, head, next) /\ InChain = Elements(Chain)
  BY <1>0, <1>1 DEF Listed, InChain, Elements
<1>7. IsList(Tail(Chain), head', next) /\ Elements(Tail(Chain)) = InChain \ {head}
  BY <1>1, <1>3, <1>6, ListAdvances
<1>8. Chain' = Tail(Chain) /\ InChain' = InChain \ {head} /\ IsList(Chain', head', next')
  <2>1. Nodes(head', next) = Tail(Chain)
    BY <1>7, NodesIs
  <2>2. Chain' = Tail(Chain)
    BY <1>2, <2>1 DEF Chain
  <2>3. InChain' = Elements(Chain')
    BY DEF InChain, Elements
  <2> QED BY <1>2, <1>7, <2>2, <2>3
<1>9. OnlyMoves(c)
  BY <1>0, ConsumerMoves DEF ConsumerStep
<1>10. ~Taking(c) /\ Taking(c)'
  BY <1>0 DEF Taking, MoveHead, Goto, Typed, Thread
<1>11. ASSUME NEW m PROVE Past(m)' <=> Past(m) \/ m = head
  <2>1. \A d \in Consumer \ {c} : Taking(d)' <=> Taking(d)
    BY <1>9 DEF OnlyMoves, Taking, Thread
  <2> QED BY <1>1, <1>2, <1>10, <2>1 DEF Past
<1>12. \A m : Hooked(m)' <=> Hooked(m)
  BY <1>4, <1>8, <1>11 DEF Hooked
<1>13. \A m : m = head' => ~Past(m)
  <2>1. nxt[c] \in Node
    BY <1>0, <1>4, ChainFacts
  <2>2. ~Past(nxt[c])
    BY <1>0, <1>4, <2>1 DEF Apart
  <2> QED BY <1>1, <2>2
<1>14. Steady
  BY <1>2, <1>11, <1>12, <1>13 DEF Steady
<1> QED BY <1>1, <1>2, <1>3, <1>4, <1>5, <1>8, <1>9, <1>10, <1>11, <1>12, <1>14

LEMMA RetireEffect ==
  ASSUME QueueInv, NEW c \in Consumer, Retire(c)
  PROVE  /\ retired' = [retired EXCEPT ![c] = retired[c] \cup {snap[c]}] /\ snap[c] \in Node
         /\ UNCHANGED <<head, tail, next, data, allocated, snap, nxt, destroyed>>
         /\ Taking(c) /\ ~Taking(c)'
         /\ Chain' = Chain /\ InChain' = InChain /\ (~destroyed => IsList(Chain', head', next'))
         /\ \A m : (Past(m)' <=> Past(m)) /\ (Hooked(m)' <=> Hooked(m))
         /\ Steady /\ OnlyMoves(c)
<1>0. Typed /\ Listed /\ Apart /\ pc[c] = "retire"
  BY DEF QueueInv, Retire
<1>1. /\ retired' = [retired EXCEPT ![c] = retired[c] \cup {snap[c]}]
      /\ UNCHANGED <<head, tail, next, data, allocated, snap, nxt, destroyed>>
  BY DEF Retire, list_vars, consumer_frame
<1>2. pc'[c] \in {"scan", "clear"}
  <2>1. c \in Thread /\ pc \in [Thread -> Label]
    BY <1>0 DEF Typed, Thread
  <2> QED BY <2>1 DEF Retire, Goto
<1>3. Taking(c) /\ ~Taking(c)' /\ snap[c] \in Node
  BY <1>0, <1>2 DEF Taking, Apart
<1>4. Chain' = Chain /\ InChain' = InChain /\ (~destroyed => IsList(Chain', head', next'))
  BY <1>0, <1>1, ChainStays
<1>5. OnlyMoves(c)
  BY <1>0, ConsumerMoves DEF ConsumerStep
<1>6. ASSUME NEW m PROVE Past(m)' <=> Past(m)
  <2>1. \A d \in Consumer \ {c} : Taking(d)' <=> Taking(d)
    BY <1>5 DEF OnlyMoves, Taking, Thread
  <2>2. retired \in [Consumer -> SUBSET Node]
    BY <1>0 DEF Typed
  <2>3. \A d \in Consumer : retired'[d] = IF d = c THEN retired[c] \cup {snap[c]} ELSE retired[d]
    BY <1>1, <2>2
  <2> QED BY <1>1, <1>3, <2>1, <2>3 DEF Past
<1>7. \A m : Hooked(m)' <=> Hooked(m)
  BY <1>4, <1>6 DEF Hooked
<1>8. Steady
  BY <1>1, <1>6, <1>7 DEF Steady
<1> QED BY <1>1, <1>3, <1>4, <1>5, <1>6, <1>7, <1>8

LEMMA DeleteEffect ==
  ASSUME QueueInv, NEW c \in Consumer, DeleteUnprotected(c)
  PROVE  /\ retired' = [retired EXCEPT ![c] = retired[c] \ Deletable(c)]
         /\ allocated' = allocated \ Deletable(c)
         /\ UNCHANGED <<head, tail, next, data, snap, nxt, destroyed>>
         /\ Chain' = Chain /\ InChain' = InChain /\ (~destroyed => IsList(Chain', head', next'))
         /\ ~Taking(c) /\ ~Taking(c)'
         /\ \A m : /\ Past(m)' <=> Past(m) /\ m \notin Deletable(c)
                   /\ Hooked(m)' <=> Hooked(m) /\ m \notin Deletable(c)
         /\ OnlyMoves(c)
<1>0. Typed /\ Listed /\ Apart /\ pc[c] = "scan"
  BY DEF QueueInv, DeleteUnprotected
<1>1. /\ retired' = [retired EXCEPT ![c] = retired[c] \ Deletable(c)]
      /\ allocated' = allocated \ Deletable(c)
      /\ UNCHANGED <<head, tail, next, data, snap, nxt, destroyed>>
  BY DEF DeleteUnprotected, list_vars, consumer_frame
<1>2. ~Taking(c) /\ ~Taking(c)'
  <2>1. c \in Thread /\ pc \in [Thread -> Label]
    BY <1>0 DEF Typed, Thread
  <2> QED BY <1>0, <2>1 DEF DeleteUnprotected, Goto, Taking
<1>3. Chain' = Chain /\ InChain' = InChain /\ (~destroyed => IsList(Chain', head', next'))
  BY <1>0, <1>1, ChainStays
<1>4. OnlyMoves(c)
  BY <1>0, ConsumerMoves DEF ConsumerStep
<1>5. ASSUME NEW m PROVE Past(m)' <=> Past(m) /\ m \notin Deletable(c)
  <2>1. \A d \in Consumer \ {c} : Taking(d)' <=> Taking(d)
    BY <1>4 DEF OnlyMoves, Taking, Thread
  <2>2. retired \in [Consumer -> SUBSET Node]
    BY <1>0 DEF Typed
  <2>3. \A d \in Consumer : retired'[d] = IF d = c THEN retired[c] \ Deletable(c) ELSE retired[d]
    BY <1>1, <2>2
  <2>4. ASSUME m \in Deletable(c)
        PROVE  /\ \A d \in Consumer \ {c} : m \notin retired[d]
               /\ \A d \in Consumer : Taking(d) => snap[d] # m
    BY <1>0, <2>4 DEF Apart, Deletable
  <2> QED BY <1>1, <1>2, <2>1, <2>3, <2>4 DEF Past
<1>6. ASSUME NEW m PROVE Hooked(m)' <=> Hooked(m) /\ m \notin Deletable(c)
  <2>1. m \in Deletable(c) => m \in Node /\ Past(m) /\ m \notin InChain
    BY <1>0 DEF Deletable, Past, Apart, Typed
  <2> QED BY <1>3, <1>5, <2>1 DEF Hooked
<1> QED BY <1>1, <1>2, <1>3, <1>4, <1>5, <1>6

LEMMA DestroyEffect ==
  ASSUME QueueInv, NEW c \in Consumer, Destroy(c)
  PROVE  /\ destroyed' = TRUE /\ head' = Null /\ tail' = Null /\ InChain' = {}
         /\ UNCHANGED <<next, pc, snap, nxt, new_node, hp, unread, found>>
         /\ seen' = [seen EXCEPT ![c] = hp[c]]
         /\ \A th \in Thread : pc[th] = "idle"
         /\ Apart'
<1>0. Typed /\ Listed /\ Apart
  BY DEF QueueInv
<1> DEFINE protected == {seen[d][i] : d \in Consumer \ {c}, i \in Slot}
           dummy == Chain[Len(Chain)]
           all == retired[c] \cup (InChain \ {dummy})
<1>1. /\ retired' = [retired EXCEPT ![c] = all \cap protected]
      /\ allocated' = allocated \ ((all \ protected) \cup {dummy})
      /\ destroyed' = TRUE /\ head' = Null /\ tail' = Null /\ ~destroyed
      /\ UNCHANGED <<next, pc, snap, nxt, new_node, hp, unread, found>>
      /\ seen' = [seen EXCEPT ![c] = hp[c]]
      /\ \A th \in Thread : pc[th] = "idle"
  BY DEF Destroy, Drained
<1>2. dummy \in InChain /\ \A m \in InChain \ {dummy} : next[m] # Null
  <2>1. IsList(Chain, head, next) /\ InChain = Elements(Chain)
    BY <1>0, <1>1 DEF Listed, InChain, Elements
  <2>2. dummy \in InChain /\ next[dummy] = Null
    BY <2>1, ListFacts
  <2> QED BY <1>0, <2>2, ChainFacts
<1> HIDE DEF protected, dummy
<1>3. InChain' = {}
  <2>1. Chain' = <<>>
    BY <1>1, NodesOfNull DEF Chain
  <2> QED BY <2>1 DEF InChain
<1>4. /\ \A p \in Producer : ~Making(p) /\ ~Making(p)'
      /\ \A d \in Consumer : ~Taking(d) /\ ~Taking(d)'
  BY <1>1 DEF Making, Taking, Thread
<1>5. \A d \in Consumer : retired'[d] = IF d = c THEN all \cap protected ELSE retired[d]
  <2>1. retired \in [Consumer -> SUBSET Node]
    BY <1>0 DEF Typed
  <2> HIDE DEF all
  <2> QED BY <1>1, <2>1
<1>6. \A m : Past(m) <=> \E d \in Consumer : m \in retired[d]
  BY <1>4 DEF Past
<1>7. \A m : Past(m)' <=> \E d \in Consumer : m \in retired'[d]
  BY <1>4 DEF Past
<1>8. /\ \A d \in Consumer : \A m \in retired[d] : m \in Node /\ m \notin InChain /\ next[m] # Null
      /\ \A d, e \in Consumer : \A m \in retired[d] \cap retired[e] : d = e
      /\ InChain \subseteq Node
  BY <1>0, <1>6, ChainFacts DEF Apart, Typed
<1>9. \A d \in Consumer : \A m \in retired'[d] :
        /\ m \in Node /\ next'[m] # Null
        /\ m \in retired[d] \/ m \in InChain \ {dummy}
  BY <1>1, <1>2, <1>5, <1>8
<1>10. \A m \in Node : m \in allocated <=> m \in InChain \/ \E d \in Consumer : m \in retired[d]
  BY <1>0, <1>4, <1>6 DEF Apart, Hooked
<1>11. ASSUME NEW m \in Node
       PROVE  m \in allocated' <=> \E d \in Consumer : m \in retired'[d]
  <2>1. ASSUME NEW d \in Consumer, m \in retired'[d] PROVE m \in allocated'
    <3>1. CASE d = c
      BY <1>1, <1>2, <1>5, <1>8, <1>10, <2>1, <3>1
    <3>2. CASE d # c
      <4>1. m \in retired[d] /\ m \notin retired[c] /\ m \notin InChain
        BY <1>5, <1>8, <2>1, <3>2
      <4> QED BY <1>1, <1>2, <1>10, <4>1
    <3> QED BY <3>1, <3>2
  <2>2. ASSUME m \in allocated' PROVE \E d \in Consumer : m \in retired'[d]
    <3>1. m \in allocated /\ m # dummy /\ (m \in all => m \in protected)
      BY <1>1, <2>2
    <3>2. CASE m \in all
      BY <1>5, <3>1, <3>2
    <3>3. CASE m \notin all
      <4>1. m \notin InChain /\ m \notin retired[c]
        BY <3>1, <3>3
      <4> QED BY <1>5, <1>10, <3>1, <4>1
    <3> QED BY <3>2, <3>3
  <2> QED BY <2>1, <2>2
<1>12. \A d, e \in Consumer : \A m \in retired'[d] \cap retired'[e] : d = e
  BY <1>5, <1>8
<1> HIDE DEF all
<1>13. Apart'
  <2>1. \A m : Hooked(m)' <=> \E d \in Consumer : m \in retired'[d]
    BY <1>3, <1>7 DEF Hooked
  <2>2. \A m \in Node : m \in allocated' <=> Hooked(m)' \/ \E p \in Producer : (Making(p) /\ new_node[p] = m)'
    BY <1>4, <1>11, <2>1
  <2>3. \A m \in Node : Past(m)' => m \notin InChain' /\ next'[m] # Null
    BY <1>3, <1>7, <1>9
  <2> QED BY <1>4, <1>12, <2>2, <2>3 DEF Apart
<1> QED BY <1>1, <1>3, <1>13

-------------------------------------------------------------------------------
(* The list stays a list, and tail_ in it.                                 *)

LEMMA TailFollows ==
  ASSUME QueueInv, NEW th \in Thread,
         \/ th \in Producer /\ (Swing(th) \/ HelpTail(th))
         \/ th \in Consumer /\ ConsumerHelpsTail(th)
  PROVE  /\ ~destroyed
         /\ tail' = tail \/ (tail' = next[tail] /\ next[tail] # Null /\ tail = snap[th])
<1>0. Typed /\ Listed /\ Apart
  BY DEF QueueInv
<1>1. ASSUME th \in Producer, Swing(th)
      PROVE  /\ ~destroyed
             /\ tail' = tail \/ (tail' = next[tail] /\ next[tail] # Null /\ tail = snap[th])
  <2>1. Enqueuing(th) /\ pc[th] = "swing" /\ tail' = TailMoved(snap[th], new_node[th])
    BY <1>1 DEF QueueInv, Swing
  <2>2. ~destroyed
    BY <1>0, <1>1, <2>1 DEF Listed
  <2>3. Hooked(tail)
    BY <1>0, <2>2, ChainFacts DEF Hooked
  <2> QED BY <2>1, <2>2, <2>3 DEF Enqueuing, TailMoved
<1>2. ASSUME th \in Producer, HelpTail(th)
      PROVE  /\ ~destroyed
             /\ tail' = tail \/ (tail' = next[tail] /\ next[tail] # Null /\ tail = snap[th])
  <2>1. Enqueuing(th) /\ pc[th] = "help tail" /\ tail' = TailMoved(snap[th], nxt[th])
    BY <1>2 DEF QueueInv, HelpTail
  <2>2. ~destroyed
    BY <1>0, <1>2, <2>1 DEF Listed
  <2> QED BY <2>1, <2>2 DEF Enqueuing, TailMoved
<1>3. ASSUME th \in Consumer, ConsumerHelpsTail(th)
      PROVE  /\ ~destroyed
             /\ tail' = tail \/ (tail' = next[tail] /\ next[tail] # Null /\ tail = snap[th])
  <2>1. Dequeuing(th) /\ pc[th] = "help tail" /\ tail' = TailMoved(snap[th], nxt[th])
    BY <1>3 DEF QueueInv, ConsumerHelpsTail
  <2>2. ~destroyed
    BY <1>0, <1>3, <2>1 DEF Listed
  <2> QED BY <2>1, <2>2 DEF Dequeuing, NextRead, HeadKnown, TailMoved
<1> QED BY <1>1, <1>2, <1>3

\* Once the queue is gone nobody is in it, but a thread may still scan its list.
OnlyScans ==
  /\ destroyed /\ head = Null /\ tail = Null
  /\ \A q \in Producer : pc[q] = "idle"
  /\ \A e \in Consumer : pc[e] \in {"idle", "scan"} /\ snap[e] = Null

LEMMA SilentAfterDestroy ==
  ASSUME QueueInv, [Next]_vars, destroyed
  PROVE  OnlyScans'
<1> USE DEF OnlyScans, Goto, list_vars, scan_vars, producer_frame, consumer_frame
<1>0. /\ pc \in [Thread -> Label] /\ Producer \subseteq Thread /\ Consumer \subseteq Thread
      /\ OnlyScans /\ Producer \cap Consumer = {}
  BY QueueAssumption DEF QueueInv, Typed, Listed, Thread, OnlyScans
<1>1. ASSUME NEW p \in Producer, NEW v \in Value, NewNode(p, v)
      PROVE  OnlyScans'
  BY <1>0, <1>1 DEF NewNode
<1>2. ASSUME NEW p \in Producer, LoadTail(p)
      PROVE  OnlyScans'
  BY <1>0, <1>2 DEF LoadTail
<1>3. ASSUME NEW p \in Producer, ReadNext(p)
      PROVE  OnlyScans'
  BY <1>0, <1>3 DEF ReadNext
<1>4. ASSUME NEW p \in Producer, CheckTail(p)
      PROVE  OnlyScans'
  BY <1>0, <1>4 DEF CheckTail
<1>5. ASSUME NEW p \in Producer, Link(p)
      PROVE  OnlyScans'
  BY <1>0, <1>5 DEF Link
<1>6. ASSUME NEW p \in Producer, LinkFails(p)
      PROVE  OnlyScans'
  BY <1>0, <1>6 DEF LinkFails
<1>7. ASSUME NEW p \in Producer, Swing(p)
      PROVE  OnlyScans'
  BY <1>0, <1>7 DEF Swing
<1>8. ASSUME NEW p \in Producer, HelpTail(p)
      PROVE  OnlyScans'
  BY <1>0, <1>8 DEF HelpTail
<1>9. ASSUME NEW c \in Consumer, LoadHead(c)
      PROVE  OnlyScans'
  BY <1>0, <1>9 DEF LoadHead
<1>10. ASSUME NEW c \in Consumer, ProtectHead(c)
       PROVE  OnlyScans'
  BY <1>0, <1>10 DEF ProtectHead
<1>11. ASSUME NEW c \in Consumer, CheckHead(c)
       PROVE  OnlyScans'
  BY <1>0, <1>11 DEF CheckHead
<1>12. ASSUME NEW c \in Consumer, LoadNext(c)
       PROVE  OnlyScans'
  BY <1>0, <1>12 DEF LoadNext
<1>13. ASSUME NEW c \in Consumer, ProtectNext(c)
       PROVE  OnlyScans'
  BY <1>0, <1>13 DEF ProtectNext
<1>14. ASSUME NEW c \in Consumer, RecheckHead(c)
       PROVE  OnlyScans'
  BY <1>0, <1>14 DEF RecheckHead
<1>15. ASSUME NEW c \in Consumer, ReloadNext(c)
       PROVE  OnlyScans'
  BY <1>0, <1>15 DEF ReloadNext
<1>16. ASSUME NEW c \in Consumer, CompareTail(c)
       PROVE  OnlyScans'
  BY <1>0, <1>16 DEF CompareTail
<1>17. ASSUME NEW c \in Consumer, ConsumerHelpsTail(c)
       PROVE  OnlyScans'
  BY <1>0, <1>17 DEF ConsumerHelpsTail
<1>18. ASSUME NEW c \in Consumer, MoveHead(c)
       PROVE  OnlyScans'
  BY <1>0, <1>18 DEF MoveHead
<1>19. ASSUME NEW c \in Consumer, MoveHeadFails(c)
       PROVE  OnlyScans'
  BY <1>0, <1>19 DEF MoveHeadFails
<1>20. ASSUME NEW c \in Consumer, Take(c)
       PROVE  OnlyScans'
  BY <1>0, <1>20 DEF Take
<1>21. ASSUME NEW c \in Consumer, Retire(c)
       PROVE  OnlyScans'
  BY <1>0, <1>21 DEF Retire
<1>22. ASSUME NEW c \in Consumer, Cleanup(c)
       PROVE  OnlyScans'
  <2>1. /\ pc' = [pc EXCEPT ![c] = "scan"]
        /\ UNCHANGED <<head, tail, destroyed, snap>>
    BY <1>22 DEF Cleanup
  <2> QED BY <1>0, <2>1
<1>23. ASSUME NEW c \in Consumer, NEW d \in Consumer, NEW i \in Slot, ReadHazardPointer(c, d, i)
       PROVE  OnlyScans'
  BY <1>0, <1>23 DEF ReadHazardPointer
<1>24. ASSUME NEW c \in Consumer, DeleteUnprotected(c)
       PROVE  OnlyScans'
  BY <1>0, <1>24 DEF DeleteUnprotected
<1>25. ASSUME NEW c \in Consumer, ClearAndReturn(c)
       PROVE  OnlyScans'
  BY <1>0, <1>25 DEF ClearAndReturn
<1>26. ASSUME NEW c \in Consumer, StoresBecomeVisible(c)
       PROVE  OnlyScans'
  BY <1>0, <1>26 DEF StoresBecomeVisible
<1>27. ASSUME NEW c \in Consumer, Destroy(c)
       PROVE  OnlyScans'
  BY <1>0, <1>27 DEF Destroy
<1>28. CASE UNCHANGED vars
  BY <1>0, <1>28 DEF vars
<1> QED
  BY <1>1, <1>2, <1>3, <1>4, <1>5, <1>6, <1>7, <1>8, <1>9, <1>10, <1>11, <1>12, <1>13, <1>14,
     <1>15, <1>16, <1>17, <1>18, <1>19, <1>20, <1>21, <1>22, <1>23, <1>24, <1>25, <1>26, <1>27, <1>28
  DEF Next, ProducerStep, ConsumerStep, Dequeue, Done

LEMMA QuietListed ==
  ASSUME Quiet, Listed, tail' = tail \/ (tail' = next[tail] /\ next[tail] # Null),
         ~destroyed
  PROVE  Listed'
<1>1. InChain' = InChain /\ IsList(Chain', head', next')
  BY QuietFacts
<1>2. tail' \in InChain
  BY ChainFacts
<1> QED BY <1>1, <1>2 DEF Quiet, Listed

LEMMA ListedStep ==
  ASSUME QueueInv, [Next]_vars
  PROVE  Listed'
<1>0. Typed /\ Listed /\ Apart
  BY DEF QueueInv
<1>1. CASE destroyed
  BY <1>1, SilentAfterDestroy DEF OnlyScans, Listed
<1>2. CASE ~destroyed
  <2> USE <1>2
  <2>1. ASSUME NEW p \in Producer, NEW v \in Value, NewNode(p, v)
        PROVE  Listed'
    <3>1. UNCHANGED <<tail, destroyed>>
      BY <2>1 DEF NewNode, producer_frame
    <3> QED BY <1>0, <2>1, <3>1, NewNodeEffect DEF Listed
  <2>2. ASSUME NEW p \in Producer, LoadTail(p) \/ ReadNext(p) \/ CheckTail(p) \/ LinkFails(p)
        PROVE  Listed'
    <3>1. tail' = tail
      BY <2>2 DEF LoadTail, ReadNext, CheckTail, LinkFails, list_vars
    <3> QED BY <1>0, <2>2, <3>1, QuietProducer, QuietListed
  <2>3. ASSUME NEW p \in Producer, Link(p)
        PROVE  Listed'
    <3>1. UNCHANGED <<tail, destroyed>>
      BY <2>3 DEF Link, producer_frame
    <3> QED BY <1>0, <2>3, <3>1, LinkEffect DEF Listed
  <2>4. ASSUME NEW p \in Producer, Swing(p) \/ HelpTail(p)
        PROVE  Listed'
    <3>1. p \in Thread
      BY DEF Thread
    <3> QED BY <1>0, <2>4, <3>1, TailFollows, QuietProducer, QuietListed
  <2>5. ASSUME NEW c \in Consumer,
               \/ LoadHead(c) \/ ProtectHead(c) \/ CheckHead(c) \/ LoadNext(c) \/ ProtectNext(c)
               \/ RecheckHead(c) \/ ReloadNext(c) \/ CompareTail(c)
               \/ MoveHeadFails(c) \/ Take(c) \/ Cleanup(c) \/ ClearAndReturn(c) \/ StoresBecomeVisible(c)
               \/ \E d \in Consumer, i \in Slot : ReadHazardPointer(c, d, i)
        PROVE  Listed'
    <3>1. tail' = tail
      BY <2>5 DEF LoadHead, ProtectHead, CheckHead, LoadNext, ProtectNext, RecheckHead, ReloadNext, CompareTail,
             MoveHeadFails, Take, Cleanup, ClearAndReturn, StoresBecomeVisible, ReadHazardPointer, list_vars
    <3>2. Quiet
      BY <1>0, <2>5, QuietConsumer
    <3> QED BY <1>0, <3>1, <3>2, QuietListed
  <2>6. ASSUME NEW c \in Consumer, ConsumerHelpsTail(c)
        PROVE  Listed'
    <3>1. c \in Thread
      BY DEF Thread
    <3> QED BY <1>0, <2>6, <3>1, TailFollows, QuietConsumer, QuietListed
  <2>7. ASSUME NEW c \in Consumer, MoveHead(c)
        PROVE  Listed'
    BY <1>0, <2>7, MoveHeadEffect DEF Listed
  <2>8. ASSUME NEW c \in Consumer, Retire(c)
        PROVE  Listed'
    BY <1>0, <2>8, RetireEffect DEF Listed
  <2>9. ASSUME NEW c \in Consumer, DeleteUnprotected(c)
        PROVE  Listed'
    BY <1>0, <2>9, DeleteEffect DEF Listed
  <2>10. ASSUME NEW c \in Consumer, Destroy(c)
         PROVE  Listed'
    <3>1. \A e \in Consumer : pc[e] = "idle" /\ Dequeuing(e)
      BY <2>10 DEF QueueInv, Destroy, Thread
    <3>2. \A e \in Consumer : snap[e] = Null
      BY <3>1 DEF Dequeuing
    <3> QED BY <2>10, <3>2, DestroyEffect DEF Listed, Thread
  <2>11. CASE UNCHANGED vars
    BY <1>0, <2>11 DEF vars, list_vars, Listed, InChain, Chain
  <2> QED
    BY <2>1, <2>2, <2>3, <2>4, <2>5, <2>6, <2>7, <2>8, <2>9, <2>10, <2>11
    DEF Next, ProducerStep, ConsumerStep, Dequeue, Done
<1> QED BY <1>1, <1>2

LEMMA ApartStep ==
  ASSUME QueueInv, [Next]_vars
  PROVE  Apart'
<1>0. Typed /\ Listed /\ Apart /\ Producer \cap Consumer = {}
  BY QueueAssumption DEF QueueInv
<1>1. ASSUME NEW p \in Producer, NEW v \in Value, NewNode(p, v)
      PROVE  Apart'
  <2>1. PICK m \in Node \ allocated :
          /\ allocated' = allocated \cup {m} /\ next' = [next EXCEPT ![m] = Null]
          /\ new_node' = [new_node EXCEPT ![p] = m]
          /\ \A x : Hooked(x) => x # m
    BY <1>1, NewNodeEffect
  <2>2. /\ InChain' = InChain /\ SameTakers /\ \A x : (Past(x)' <=> Past(x)) /\ (Hooked(x)' <=> Hooked(x))
        /\ OnlyMoves(p)
    BY <1>1, NewNodeEffect
  <2>3. ~Making(p) /\ Making(p)' /\ new_node'[p] = m
    <3>1. pc \in [Thread -> Label] /\ p \in Thread /\ new_node \in [Producer -> Node \cup {Null}]
      BY <1>0 DEF Typed, Thread
    <3>2. pc[p] = "idle" /\ pc'[p] = "load tail"
      BY <1>1, <3>1 DEF NewNode, Goto
    <3> QED BY <2>1, <3>1, <3>2 DEF Making
  <2>4. \A q \in Producer \ {p} : (Making(q)' <=> Making(q)) /\ new_node'[q] = new_node[q]
    BY <2>2 DEF OnlyMoves, Making, Thread
  <2>5. \A q \in Producer : Making(q) => new_node[q] # m /\ new_node[q] \in Node
    BY <1>0, <2>1 DEF Apart
  <2>6. next'[m] = Null /\ \A x \in Node \ {m} : next'[x] = next[x]
    BY <1>0, <2>1 DEF Typed
  <2>7. \A x \in Node : x \in allocated' <=> Hooked(x)' \/ \E q \in Producer : (Making(q) /\ new_node[q] = x)'
    <3>1. ASSUME NEW x \in Node
          PROVE  (\E q \in Producer : (Making(q) /\ new_node[q] = x)')
                   <=> x = m \/ \E q \in Producer : Making(q) /\ new_node[q] = x
      BY <2>3, <2>4
    <3> QED BY <1>0, <2>1, <2>2, <3>1 DEF Apart
  <2>8. \A q \in Producer : Making(q)' => new_node'[q] \in Node /\ ~Hooked(new_node'[q]) /\ next'[new_node'[q]] = Null
    BY <1>0, <2>1, <2>3, <2>4, <2>5, <2>6 DEF Apart
  <2>9. \A q, r \in Producer : Making(q)' /\ Making(r)' /\ new_node'[q] = new_node'[r] => q = r
    BY <1>0, <2>3, <2>4, <2>5 DEF Apart
  <2>10. \A x \in Node : Past(x) => x \notin InChain /\ next'[x] # Null
    BY <1>0, <2>1, <2>6 DEF Apart, Hooked
  <2> HIDE <1>1
  <2> QED BY <1>0, <2>2, <2>7, <2>8, <2>9, <2>10 DEF Apart, SameTakers
<1>2. ASSUME NEW p \in Producer,
             LoadTail(p) \/ ReadNext(p) \/ CheckTail(p) \/ LinkFails(p) \/ Swing(p) \/ HelpTail(p)
      PROVE  Apart'
  BY <1>0, <1>2, QuietProducer, QuietApart
<1>3. ASSUME NEW c \in Consumer,
             \/ LoadHead(c) \/ ProtectHead(c) \/ CheckHead(c) \/ LoadNext(c) \/ ProtectNext(c)
             \/ RecheckHead(c) \/ ReloadNext(c) \/ CompareTail(c) \/ ConsumerHelpsTail(c)
             \/ MoveHeadFails(c) \/ Take(c) \/ Cleanup(c) \/ ClearAndReturn(c) \/ StoresBecomeVisible(c)
             \/ \E d \in Consumer, i \in Slot : ReadHazardPointer(c, d, i)
      PROVE  Apart'
  BY <1>0, <1>3, QuietConsumer, QuietApart
<1>4. ASSUME NEW p \in Producer, Link(p)
      PROVE  Apart'
  <2>1. /\ snap[p] \in InChain /\ next[snap[p]] = Null /\ next[new_node[p]] = Null
        /\ new_node[p] \in Node /\ ~Hooked(new_node[p])
        /\ next' = [next EXCEPT ![snap[p]] = new_node[p]] /\ allocated' = allocated
        /\ InChain' = InChain \cup {new_node[p]} /\ SameTakers
        /\ \A m : Past(m)' <=> Past(m)
        /\ \A m : Hooked(m)' <=> Hooked(m) \/ m = new_node[p]
        /\ OnlyMoves(p)
    BY <1>4, LinkEffect
  <2>2. Making(p) /\ ~Making(p)'
    <3>1. pc \in [Thread -> Label] /\ p \in Thread
      BY <1>0 DEF Typed, Thread
    <3> QED BY <1>4, <3>1 DEF Link, Goto, Making
  <2>3. \A q \in Producer \ {p} : (Making(q)' <=> Making(q)) /\ new_node'[q] = new_node[q]
    BY <2>1 DEF OnlyMoves, Making, Thread
  <2>4. \A q \in Producer \ {p} : Making(q) => new_node[q] # new_node[p] /\ new_node[q] # snap[p]
    <3>1. Hooked(snap[p])
      BY <2>1 DEF Hooked
    <3> QED BY <1>0, <2>2, <3>1 DEF Apart
  <2>5. \A x \in Node \ {snap[p]} : next'[x] = next[x]
    BY <1>0, <2>1 DEF Typed
  <2>6. \A x \in Node : x \in allocated' <=> Hooked(x)' \/ \E q \in Producer : (Making(q) /\ new_node[q] = x)'
    <3>1. ASSUME NEW x \in Node
          PROVE  (\E q \in Producer : Making(q) /\ new_node[q] = x)
                   <=> x = new_node[p] \/ \E q \in Producer : (Making(q) /\ new_node[q] = x)'
      BY <2>2, <2>3
    <3> QED BY <1>0, <2>1, <3>1 DEF Apart
  <2>7. \A q \in Producer : Making(q)' =>
          /\ new_node'[q] \in Node /\ next'[new_node'[q]] = Null
          /\ ~Hooked(new_node'[q]) /\ new_node'[q] # new_node[p]
    BY <1>0, <2>2, <2>3, <2>4, <2>5 DEF Apart
  <2>8. \A q, r \in Producer : Making(q)' /\ Making(r)' /\ new_node'[q] = new_node'[r] => q = r
    BY <1>0, <2>2, <2>3 DEF Apart
  <2>9. \A x \in Node : Past(x) => x \notin InChain' /\ next'[x] # Null
    BY <1>0, <2>1, <2>5 DEF Apart, Hooked
  <2> HIDE <1>4
  <2> QED BY <1>0, <2>1, <2>6, <2>7, <2>8, <2>9 DEF Apart, SameTakers
<1>5. ASSUME NEW c \in Consumer, MoveHead(c)
      PROVE  Apart'
  <2>1. /\ head = snap[c] /\ nxt[c] = next[head] /\ nxt[c] \in InChain /\ head \in InChain /\ ~Past(head)
        /\ UNCHANGED <<next, allocated, retired, snap>>
        /\ InChain' = InChain \ {head}
        /\ \A m : Past(m)' <=> Past(m) \/ m = head
        /\ \A m : Hooked(m)' <=> Hooked(m)
        /\ OnlyMoves(c) /\ ~Taking(c) /\ Taking(c)' /\ UNCHANGED new_node
    BY <1>0, <1>5, MoveHeadEffect, ConsumerMoves DEF ConsumerStep
  <2>2. head \in Node /\ next[head] # Null
    BY <1>0, <2>1, ChainFacts
  <2>3. \A d \in Consumer \ {c} : Taking(d)' <=> Taking(d)
    BY <2>1 DEF OnlyMoves, Taking, Thread
  <2>4. \A q \in Producer : Making(q)' <=> Making(q)
    BY <1>0, <2>1 DEF OnlyMoves, Making, Thread
  <2>5. /\ \A d \in Consumer : head \notin retired[d]
        /\ \A d \in Consumer : Taking(d) => snap[d] # head
    BY <2>1 DEF Past
  <2>6. \A d \in Consumer : Taking(d)' => snap[d] \in Node /\ \A e \in Consumer : snap[d] \notin retired[e]
    BY <1>0, <2>1, <2>2, <2>3, <2>5 DEF Apart
  <2>7. \A d, e \in Consumer : Taking(d)' /\ Taking(e)' /\ snap[d] = snap[e] => d = e
    BY <1>0, <2>1, <2>3, <2>5 DEF Apart
  <2>8. \A x \in Node : Past(x)' => x \notin InChain' /\ next'[x] # Null
    BY <1>0, <2>1, <2>2 DEF Apart
  <2> HIDE <1>5
  <2> QED BY <1>0, <2>1, <2>4, <2>6, <2>7, <2>8 DEF Apart
<1>6. ASSUME NEW c \in Consumer, Retire(c)
      PROVE  Apart'
  <2>1. /\ retired' = [retired EXCEPT ![c] = retired[c] \cup {snap[c]}] /\ snap[c] \in Node
        /\ UNCHANGED <<next, allocated, snap>> /\ Taking(c) /\ ~Taking(c)'
        /\ InChain' = InChain /\ \A m : (Past(m)' <=> Past(m)) /\ (Hooked(m)' <=> Hooked(m))
        /\ OnlyMoves(c) /\ UNCHANGED new_node
    BY <1>0, <1>6, RetireEffect, ConsumerMoves DEF ConsumerStep
  <2>2. \A d \in Consumer \ {c} : Taking(d)' <=> Taking(d)
    BY <2>1 DEF OnlyMoves, Taking, Thread
  <2>3. \A q \in Producer : Making(q)' <=> Making(q)
    BY <1>0, <2>1 DEF OnlyMoves, Making, Thread
  <2>4. \A d \in Consumer : retired'[d] = IF d = c THEN retired[c] \cup {snap[c]} ELSE retired[d]
    <3>1. retired \in [Consumer -> SUBSET Node]
      BY <1>0 DEF Typed
    <3> QED BY <2>1, <3>1
  <2>5. /\ \A d \in Consumer : snap[c] \notin retired[d]
        /\ \A d \in Consumer : Taking(d) /\ snap[d] = snap[c] => d = c
    BY <1>0, <2>1 DEF Apart
  <2>6. \A d \in Consumer : Taking(d)' => snap[d] \in Node /\ \A e \in Consumer : snap[d] \notin retired'[e]
    BY <1>0, <2>1, <2>2, <2>4, <2>5 DEF Apart
  <2>7. \A d, e \in Consumer : \A m \in retired'[d] \cap retired'[e] : d = e
    BY <1>0, <2>4, <2>5 DEF Apart
  <2>8. \A d, e \in Consumer : Taking(d)' /\ Taking(e)' /\ snap[d] = snap[e] => d = e
    BY <1>0, <2>1, <2>2 DEF Apart
  <2> HIDE <1>6
  <2> QED BY <1>0, <2>1, <2>3, <2>6, <2>7, <2>8 DEF Apart
<1>7. ASSUME NEW c \in Consumer, DeleteUnprotected(c)
      PROVE  Apart'
  <2>1. /\ retired' = [retired EXCEPT ![c] = retired[c] \ Deletable(c)]
        /\ allocated' = allocated \ Deletable(c)
        /\ UNCHANGED <<next, snap, new_node>> /\ InChain' = InChain
        /\ ~Taking(c) /\ ~Taking(c)'
        /\ \A m : /\ Past(m)' <=> Past(m) /\ m \notin Deletable(c)
                  /\ Hooked(m)' <=> Hooked(m) /\ m \notin Deletable(c)
        /\ OnlyMoves(c)
    BY <1>0, <1>7, DeleteEffect, ConsumerMoves DEF ConsumerStep
  <2>2. \A d \in Consumer : Taking(d)' <=> Taking(d)
    BY <2>1 DEF OnlyMoves, Taking, Thread
  <2>3. \A q \in Producer : Making(q)' <=> Making(q)
    BY <1>0, <2>1 DEF OnlyMoves, Making, Thread
  <2>4. \A d \in Consumer : retired'[d] \subseteq retired[d]
    <3>1. retired \in [Consumer -> SUBSET Node]
      BY <1>0 DEF Typed
    <3> QED BY <2>1, <3>1
  <2>5. \A m \in Deletable(c) : Hooked(m)
    BY DEF Deletable, Hooked, Past
  <2>6. \A m \in Node : m \in allocated' <=> Hooked(m)' \/ \E q \in Producer : (Making(q) /\ new_node[q] = m)'
    <3>1. \A q \in Producer : Making(q) => new_node[q] \notin Deletable(c)
      BY <1>0, <2>5 DEF Apart
    <3> QED BY <1>0, <2>1, <2>3, <3>1 DEF Apart
  <2>7. \A d \in Consumer : Taking(d)' => snap[d] \in Node /\ \A e \in Consumer : snap[d] \notin retired'[e]
    BY <1>0, <2>2, <2>4 DEF Apart
  <2>8. \A d, e \in Consumer : \A m \in retired'[d] \cap retired'[e] : d = e
    BY <1>0, <2>4 DEF Apart
  <2> HIDE <1>7
  <2> QED BY <1>0, <2>1, <2>2, <2>3, <2>6, <2>7, <2>8 DEF Apart
<1>8. ASSUME NEW c \in Consumer, Destroy(c)
      PROVE  Apart'
  BY <1>8, DestroyEffect
<1>9. CASE UNCHANGED vars
  BY <1>0, <1>9 DEF vars, list_vars, scan_vars, Apart, Hooked, Past, Making, Taking, InChain, Chain
<1> QED
  BY <1>1, <1>2, <1>3, <1>4, <1>5, <1>6, <1>7, <1>8, <1>9
  DEF Next, ProducerStep, ConsumerStep, Dequeue, Done

-------------------------------------------------------------------------------
(* Producers.                                                              *)

QuietOf(th) ==
  \/ /\ th \in Producer
     /\ LoadTail(th) \/ ReadNext(th) \/ CheckTail(th) \/ LinkFails(th) \/ Swing(th) \/ HelpTail(th)
  \/ /\ th \in Consumer
     /\ \/ LoadHead(th) \/ ProtectHead(th) \/ CheckHead(th) \/ LoadNext(th) \/ ProtectNext(th)
        \/ RecheckHead(th) \/ ReloadNext(th) \/ CompareTail(th) \/ ConsumerHelpsTail(th)
        \/ MoveHeadFails(th) \/ Take(th) \/ Cleanup(th) \/ ClearAndReturn(th) \/ StoresBecomeVisible(th)
        \/ \E d \in Consumer, i \in Slot : ReadHazardPointer(th, d, i)

LEMMA QuietEffect ==
  ASSUME QueueInv, NEW th, QuietOf(th)
  PROVE  /\ Quiet /\ Steady /\ OnlyMoves(th) /\ th \in Thread
         /\ InChain' = InChain /\ \A m : (Past(m)' <=> Past(m)) /\ (Hooked(m)' <=> Hooked(m))
         /\ UNCHANGED <<head, next, allocated, destroyed, retired>>
<1>0. Typed /\ Listed /\ Apart
  BY DEF QueueInv
<1>1. Quiet
  BY <1>0, QuietProducer, QuietConsumer DEF QuietOf
<1>2. OnlyMoves(th) /\ th \in Thread
  <2>1. th \in Consumer /\ LoadHead(th) => ConsumerStep(th) \/ Dequeue(th)
    BY DEF ConsumerStep, Dequeue
  <2>2. CASE th \in Producer /\ ProducerStep(th)
    BY <1>0, <2>2, ProducerMoves
  <2>3. CASE th \in Consumer /\ (ConsumerStep(th) \/ Dequeue(th) \/ Cleanup(th) \/ StoresBecomeVisible(th))
    BY <1>0, <2>3, ConsumerMoves
  <2> QED BY <2>1, <2>2, <2>3 DEF QuietOf, ProducerStep, ConsumerStep
<1>3. tail' = tail \/ tail' # head
  <2>1. CASE \/ th \in Producer /\ (Swing(th) \/ HelpTail(th))
             \/ th \in Consumer /\ ConsumerHelpsTail(th)
    <3>1. ~destroyed /\ (tail' = tail \/ (tail' = next[tail] /\ next[tail] # Null))
      BY <1>2, <2>1, TailFollows
    <3> QED BY <1>0, <3>1, ChainFacts
  <2>2. CASE th \in Producer /\ (LoadTail(th) \/ ReadNext(th) \/ CheckTail(th) \/ LinkFails(th))
    BY <2>2 DEF LoadTail, ReadNext, CheckTail, LinkFails, list_vars
  <2>3. ASSUME \/ LoadHead(th) \/ ProtectHead(th) \/ CheckHead(th) \/ LoadNext(th) \/ ProtectNext(th)
               \/ RecheckHead(th) \/ ReloadNext(th) \/ CompareTail(th)
               \/ MoveHeadFails(th) \/ Take(th) \/ Cleanup(th) \/ ClearAndReturn(th) \/ StoresBecomeVisible(th)
               \/ \E d \in Consumer, i \in Slot : ReadHazardPointer(th, d, i)
        PROVE  tail' = tail
    BY <2>3 DEF LoadHead, ProtectHead, CheckHead, LoadNext, ProtectNext, RecheckHead, ReloadNext, CompareTail,
         MoveHeadFails, Take, Cleanup, ClearAndReturn, StoresBecomeVisible, ReadHazardPointer, list_vars
  <2> QED BY <2>1, <2>2, <2>3 DEF QuietOf
<1>4. Steady
  BY <1>0, <1>1, <1>3, QuietSteady
<1>5. InChain' = InChain /\ \A m : (Past(m)' <=> Past(m)) /\ (Hooked(m)' <=> Hooked(m))
  BY <1>0, <1>1, QuietFacts
<1> QED BY <1>1, <1>2, <1>4, <1>5 DEF Quiet, SameTakers

\* Whatever a scan deletes, nobody holds.
LEMMA DeleteSpares ==
  ASSUME QueueInv, Alone \/ NeverScans, NEW c \in Consumer, DeleteUnprotected(c)
  PROVE  /\ Alone
         /\ \A p \in Producer : pc[p] \in {"read next", "check tail", "link", "help tail"} => Hooked(snap[p])'
         /\ \A d \in Consumer : pc[d] \in HeadKnown => snap[d] = head \/ Past(snap[d])'
         /\ \A d \in Consumer : pc[d] \in NextKnown => nxt[d] = Null \/ Hooked(nxt[d])'
<1>0. Typed /\ Listed /\ Apart /\ pc[c] = "scan" /\ unread[c] = {}
  BY DEF QueueInv, DeleteUnprotected
<1>1. Alone
  BY <1>0 DEF QueueInv
<1>2. /\ UNCHANGED <<snap, nxt>> /\ InChain' = InChain
      /\ \A m : (Past(m)' <=> Past(m) /\ m \notin Deletable(c))
      /\ \A m : (Hooked(m)' <=> Hooked(m) /\ m \notin Deletable(c))
  BY DeleteEffect
<1>3. ASSUME NEW p \in Producer, pc[p] \in {"read next", "check tail", "link", "help tail"}
      PROVE  Hooked(snap[p])'
  <2>1. EnqueuingAlone(p) /\ ~destroyed
    BY <1>0, <1>1, <1>3 DEF QueueInv, Listed
  <2>2. snap[p] \in InChain
    BY <1>0, <1>3, <2>1, ChainFacts DEF EnqueuingAlone
  <2> QED BY <1>2, <2>2 DEF Hooked
<1>4. ASSUME NEW d \in Consumer, pc[d] \in HeadKnown
      PROVE  snap[d] = head \/ Past(snap[d])'
  <2>1. Protected(d) /\ Dequeuing(d)
    BY <1>1 DEF QueueInv
  <2>2. snap[d] \in retired[c] => snap[d] \in found[c]
    BY <1>0, <1>4, <2>1 DEF Protected, Spared
  <2>3. snap[d] = head \/ (Past(snap[d]) /\ snap[d] \notin Deletable(c))
    BY <1>4, <2>1, <2>2 DEF Dequeuing, Deletable
  <2>4. snap'[d] = snap[d]
    BY <1>2
  <2> QED BY <1>2, <2>3, <2>4
<1>5. ASSUME NEW d \in Consumer, pc[d] \in NextKnown
      PROVE  nxt[d] = Null \/ Hooked(nxt[d])'
  <2>1. Protected(d) /\ Dequeuing(d)
    BY <1>1 DEF QueueInv
  <2>2. nxt[d] \in retired[c] => nxt[d] \in found[c]
    BY <1>0, <1>5, <2>1 DEF Protected, Spared
  <2>3. nxt[d] = Null \/ (Hooked(nxt[d]) /\ nxt[d] \notin Deletable(c))
    BY <1>5, <2>1, <2>2 DEF Dequeuing, Deletable
  <2>4. nxt'[d] = nxt[d]
    BY <1>2
  <2> QED BY <1>2, <2>3, <2>4
<1> QED BY <1>1, <1>3, <1>4, <1>5

LEMMA EnqueuingStep ==
  ASSUME QueueInv, [Next]_vars, Alone \/ NeverScans, NEW q \in Producer
  PROVE  Enqueuing(q)'
<1>0. Typed /\ Listed /\ Apart /\ Enqueuing(q) /\ q \notin Consumer
  BY QueueAssumption DEF QueueInv
<1>T. /\ pc \in [Thread -> Label] /\ snap \in [Thread -> Node \cup {Null}] /\ q \in Thread
      /\ nxt \in [Thread -> Node \cup {Null}] /\ new_node \in [Producer -> Node \cup {Null}]
  BY <1>0 DEF Typed, Thread
<1>1. ASSUME NEW p \in Producer, NEW v \in Value, NewNode(p, v)
      PROVE  Enqueuing(q)'
  <2>1. Steady /\ OnlyMoves(p) /\ \A m : Hooked(m)' => Hooked(m)
    BY <1>1, NewNodeEffect
  <2>2. p = q => pc'[q] = "load tail"
    BY <1>1, <1>T DEF NewNode, Goto
  <2>3. CASE p = q
    BY <2>2, <2>3 DEF Enqueuing
  <2> QED BY <1>0, <2>1, <2>3, OtherProducer
<1>2. ASSUME NEW th, QuietOf(th), th # q
      PROVE  Enqueuing(q)'
  BY <1>0, <1>2, QuietEffect, OtherProducer
<1>3. ASSUME QuietOf(q), q \in Producer
      PROVE  Enqueuing(q)'
  <2>0. /\ InChain' = InChain /\ \A m : (Past(m)' <=> Past(m)) /\ (Hooked(m)' <=> Hooked(m))
        /\ UNCHANGED <<head, next, allocated, destroyed, retired>>
    BY <1>3, QuietEffect
  <2>1. CASE LoadTail(q)
    <3>1. snap' = [snap EXCEPT ![q] = tail] /\ pc' = [pc EXCEPT ![q] = "read next"] /\ pc[q] = "load tail"
      BY <2>1 DEF LoadTail, Goto
    <3>2. pc'[q] = "read next" /\ snap'[q] = tail
      BY <3>1, <1>T
    <3>3. ~destroyed
      BY <1>0, <3>1 DEF Listed
    <3>4. Hooked(tail)
      BY <1>0, <3>3, ChainFacts DEF Hooked
    <3>5. \A m : m = tail => Hooked(m)'
      BY <2>0, <3>4
    <3>6. Hooked(snap[q])'
      BY <3>2, <3>5
    <3> QED BY <3>2, <3>6 DEF Enqueuing
  <2>2. CASE ReadNext(q)
    <3>1. nxt' = [nxt EXCEPT ![q] = next[snap[q]]] /\ pc' = [pc EXCEPT ![q] = "check tail"] /\ snap' = snap
          /\ pc[q] = "read next"
      BY <2>2 DEF ReadNext, Goto
    <3>2. pc'[q] = "check tail" /\ nxt'[q] = next'[snap'[q]] /\ snap'[q] = snap[q]
      BY <2>0, <3>1, <1>T
    <3>3. Hooked(snap[q])'
      BY <1>0, <2>0, <3>1, <3>2 DEF Enqueuing
    <3> QED BY <3>2, <3>3 DEF Enqueuing
  <2>3. CASE CheckTail(q)
    <3>1. /\ UNCHANGED <<snap, nxt>> /\ pc[q] = "check tail"
          /\ pc'[q] \in {"load tail", "link", "help tail"} /\ (pc'[q] = "help tail" => nxt[q] # Null)
      BY <2>3, <1>T DEF CheckTail, Goto
    <3>2. Hooked(snap[q])' /\ nxt[q] \in {Null, next[snap[q]]}
      BY <1>0, <2>0, <3>1 DEF Enqueuing
    <3> QED BY <2>0, <3>1, <3>2 DEF Enqueuing
  <2>4. CASE LinkFails(q) \/ Swing(q) \/ HelpTail(q)
    <3>1. pc'[q] \in {"load tail", "idle"}
      BY <2>4, <1>T DEF LinkFails, Swing, HelpTail, Goto
    <3> QED BY <3>1 DEF Enqueuing
  <2> QED BY <1>0, <1>3, <2>1, <2>2, <2>3, <2>4 DEF QuietOf
<1>4. ASSUME NEW p \in Producer, Link(p)
      PROVE  Enqueuing(q)'
  <2>0. /\ snap[p] \in InChain /\ new_node[p] \in Node
        /\ next' = [next EXCEPT ![snap[p]] = new_node[p]]
        /\ \A m : Hooked(m)' <=> Hooked(m) \/ m = new_node[p]
        /\ Steady /\ OnlyMoves(p)
    BY <1>4, LinkEffect
  <2>1. CASE p # q
    <3>1. ~Alone
      BY <2>1 DEF Alone
    <3> QED BY <1>0, <2>0, <2>1, <3>1, OtherProducer
  <2>2. CASE p = q
    <3>1. pc'[q] = "swing" /\ UNCHANGED <<snap, new_node>>
      BY <1>4, <2>2, <1>T DEF Link, Goto
    <3>2. snap[q] \in Node /\ next \in [Node -> Node \cup {Null}]
      BY <1>0, <2>0, <2>2, ChainFacts DEF Typed
    <3>3. next'[snap'[q]] = new_node'[q] /\ new_node'[q] # Null
      BY <2>0, <2>2, <3>1, <3>2, QueueAssumption
    <3>4. Hooked(snap[q])'
      BY <2>0, <2>2, <3>1 DEF Hooked
    <3> QED BY <3>1, <3>3, <3>4 DEF Enqueuing
  <2> QED BY <2>1, <2>2
<1>5. ASSUME NEW c \in Consumer, MoveHead(c)
      PROVE  Enqueuing(q)'
  <2>1. Steady /\ OnlyMoves(c) /\ \A m : Hooked(m)' <=> Hooked(m)
    BY <1>5, MoveHeadEffect
  <2> QED BY <1>0, <2>1, OtherProducer
<1>6. ASSUME NEW c \in Consumer, Retire(c)
      PROVE  Enqueuing(q)'
  <2>1. Steady /\ OnlyMoves(c) /\ \A m : Hooked(m)' <=> Hooked(m)
    BY <1>6, RetireEffect
  <2> QED BY <1>0, <2>1, OtherProducer
<1>7. ASSUME NEW c \in Consumer, DeleteUnprotected(c)
      PROVE  Enqueuing(q)'
  <2>1. OnlyMoves(c) /\ UNCHANGED <<next, snap, nxt, new_node>>
    BY <1>0, <1>7, DeleteEffect, ConsumerMoves DEF ConsumerStep
  <2>2. pc'[q] = pc[q]
    BY <1>0, <1>T, <2>1 DEF OnlyMoves
  <2>3. Alone /\ Alone'
    BY <1>7, DeleteSpares DEF Alone
  <2>4. pc[q] \in {"read next", "check tail", "link", "help tail"} => Hooked(snap[q])'
    BY <1>7, DeleteSpares
  <2>5. pc[q] = "swing" => \/ Hooked(snap[q])' /\ next[snap[q]] = new_node[q]
                           \/ ~Hooked(snap[q])'
    <3>1. \A m : Hooked(m)' => Hooked(m)
      BY <1>7, DeleteEffect
    <3>2. Hooked(snap[q])' => Hooked(snap[q])
      BY <2>1, <3>1
    <3> QED BY <1>0, <3>2 DEF Enqueuing
  <2> QED BY <1>0, <2>1, <2>2, <2>3, <2>4, <2>5 DEF Enqueuing
<1>8. ASSUME NEW c \in Consumer, Destroy(c)
      PROVE  Enqueuing(q)'
  <2>1. pc'[q] = "idle"
    BY <1>8, <1>T, DestroyEffect
  <2> QED BY <2>1 DEF Enqueuing
<1>9. CASE UNCHANGED vars
  BY <1>0, <1>9 DEF vars, list_vars, scan_vars, Enqueuing, Hooked, Past, Taking, InChain, Chain, Alone
<1> QED
  BY <1>1, <1>2, <1>3, <1>4, <1>5, <1>6, <1>7, <1>8, <1>9
  DEF Next, ProducerStep, ConsumerStep, Dequeue, Done, QuietOf

LEMMA EnqueuingAloneStep ==
  ASSUME QueueInv, [Next]_vars, Alone, NEW q \in Producer
  PROVE  EnqueuingAlone(q)'
<1>0. /\ Typed /\ Listed /\ Apart /\ Enqueuing(q) /\ EnqueuingAlone(q) /\ q \notin Consumer
      /\ \A p \in Producer : p = q
  BY QueueAssumption DEF QueueInv, Alone
<1>T. /\ pc \in [Thread -> Label] /\ snap \in [Thread -> Node \cup {Null}] /\ q \in Thread
      /\ nxt \in [Thread -> Node \cup {Null}] /\ new_node \in [Producer -> Node \cup {Null}]
      /\ next \in [Node -> Node \cup {Null}]
  BY <1>0 DEF Typed, Thread
<1>C. ~destroyed => tail \in InChain /\ tail \in Node /\ Hooked(tail)
  BY <1>0, ChainFacts DEF Hooked
<1>D. pc[q] # "idle" => ~destroyed
  BY <1>0 DEF Listed
<1>1. ASSUME NEW v \in Value, NewNode(q, v)
      PROVE  EnqueuingAlone(q)'
  <2>1. PICK m \in Node \ allocated :
          next' = [next EXCEPT ![m] = Null] /\ new_node' = [new_node EXCEPT ![q] = m] /\ \A x : Hooked(x) => x # m
    BY <1>1, NewNodeEffect
  <2>2. pc[q] = "idle" /\ pc'[q] = "load tail" /\ ~destroyed /\ tail' = tail
    BY <1>1, <1>T DEF NewNode, Goto
  <2>3. next'[tail] = Null
    BY <1>0, <1>C, <1>T, <2>1, <2>2 DEF EnqueuingAlone
  <2> QED BY <2>2, <2>3 DEF EnqueuingAlone
<1>2. CASE LoadTail(q)
  <2>1. /\ pc[q] = "load tail" /\ pc'[q] = "read next" /\ snap'[q] = tail
        /\ UNCHANGED <<tail, next>>
    BY <1>2, <1>T DEF LoadTail, Goto, list_vars
  <2> QED BY <1>0, <1>D, <2>1 DEF EnqueuingAlone
<1>3. CASE ReadNext(q)
  <2>1. /\ pc[q] = "read next" /\ pc'[q] = "check tail" /\ nxt'[q] = next[snap[q]]
        /\ UNCHANGED <<tail, next, snap>>
    BY <1>3, <1>T DEF ReadNext, Goto, list_vars
  <2> QED BY <1>0, <1>D, <2>1 DEF EnqueuingAlone
<1>4. CASE CheckTail(q)
  <2>1. /\ pc[q] = "check tail" /\ UNCHANGED <<tail, next, snap>>
        /\ tail = snap[q] /\ nxt[q] = Null
    BY <1>0, <1>4 DEF CheckTail, list_vars, EnqueuingAlone
  <2>2. pc'[q] = "link"
    BY <1>4, <1>T, <2>1 DEF CheckTail, Goto
  <2> QED BY <1>0, <1>D, <2>1, <2>2 DEF EnqueuingAlone
<1>5. CASE Link(q)
  <2>1. /\ next[new_node[q]] = Null /\ new_node[q] \in Node /\ ~Hooked(new_node[q]) /\ snap[q] \in InChain
        /\ next' = [next EXCEPT ![snap[q]] = new_node[q]]
    BY <1>5, LinkEffect
  <2>2. /\ pc[q] = "link" /\ pc'[q] = "swing" /\ UNCHANGED <<tail, snap, new_node>>
    BY <1>5, <1>T DEF Link, Goto
  <2>3. new_node[q] # snap[q]
    BY <2>1 DEF Hooked
  <2>4. next'[new_node[q]] = Null
    BY <1>T, <2>1, <2>3
  <2> QED BY <1>0, <2>2, <2>4 DEF EnqueuingAlone
<1>6. CASE LinkFails(q)
  <2>1. /\ pc[q] = "link" /\ pc'[q] = "load tail" /\ UNCHANGED <<tail, next>>
    BY <1>6, <1>T DEF LinkFails, Goto, list_vars
  <2> QED BY <1>0, <1>D, <2>1 DEF EnqueuingAlone
<1>7. CASE Swing(q)
  <2>1. /\ pc[q] = "swing" /\ pc'[q] = "idle" /\ next' = next /\ tail' = TailMoved(snap[q], new_node[q])
    BY <1>7, <1>T DEF Swing, Goto
  <2>2. tail' = new_node[q] /\ next[new_node[q]] = Null
    BY <1>0, <2>1 DEF EnqueuingAlone, TailMoved
  <2> QED BY <2>1, <2>2 DEF EnqueuingAlone
<1>8. CASE HelpTail(q)
  BY <1>0, <1>8 DEF HelpTail, EnqueuingAlone
<1>9. ASSUME NEW c \in Consumer, ConsumerHelpsTail(c)
      PROVE  EnqueuingAlone(q)'
  <2>1. ~destroyed /\ (tail' = tail \/ (tail' = next[tail] /\ next[tail] # Null))
    BY <1>9, TailFollows DEF Thread
  <2>2. UNCHANGED <<next, destroyed, new_node>> /\ pc'[q] = pc[q] /\ snap'[q] = snap[q] /\ nxt'[q] = nxt[q]
    <3>1. OnlyMoves(c)
      BY <1>0, <1>9, ConsumerMoves DEF ConsumerStep
    <3> QED BY <1>0, <1>9, <1>T, <3>1 DEF ConsumerHelpsTail, OnlyMoves, consumer_frame
  <2>3. CASE tail' = tail
    BY <1>0, <2>2, <2>3 DEF EnqueuingAlone
  <2>4. CASE tail' = next[tail] /\ next[tail] # Null
    <3>1. pc[q] = "swing" /\ tail = snap[q]
      BY <1>0, <2>1, <2>4 DEF EnqueuingAlone
    <3>2. tail' = new_node[q]
      BY <1>0, <1>C, <2>1, <2>4, <3>1 DEF Enqueuing
    <3> QED BY <1>0, <2>2, <3>1, <3>2 DEF EnqueuingAlone
  <2> QED BY <2>1, <2>3, <2>4
<1>10. ASSUME NEW c \in Consumer, UNCHANGED <<tail, next, destroyed>>,
              ConsumerStep(c) \/ Dequeue(c) \/ Cleanup(c) \/ StoresBecomeVisible(c)
       PROVE  EnqueuingAlone(q)'
  <2>1. OnlyMoves(c) /\ UNCHANGED new_node
    BY <1>0, <1>10, ConsumerMoves
  <2>2. pc'[q] = pc[q] /\ snap'[q] = snap[q] /\ nxt'[q] = nxt[q]
    BY <1>0, <1>T, <2>1 DEF OnlyMoves
  <2> QED BY <1>0, <1>10, <2>1, <2>2 DEF EnqueuingAlone
<1>11. ASSUME NEW c \in Consumer, ConsumerStep(c) \/ Dequeue(c) \/ Cleanup(c) \/ StoresBecomeVisible(c)
       PROVE  UNCHANGED <<tail, next, destroyed>> \/ ConsumerHelpsTail(c)
  BY <1>11 DEF ConsumerStep, Dequeue, LoadHead, ProtectHead, CheckHead, LoadNext, ProtectNext, RecheckHead,
       ReloadNext, CompareTail, MoveHead, MoveHeadFails, Take, Retire, Cleanup, ReadHazardPointer,
       DeleteUnprotected, ClearAndReturn, StoresBecomeVisible, list_vars, consumer_frame
<1>12. ASSUME NEW c \in Consumer, Destroy(c)
       PROVE  EnqueuingAlone(q)'
  <2>1. pc'[q] = "idle" /\ destroyed'
    BY <1>12, <1>T, DestroyEffect
  <2> QED BY <2>1 DEF EnqueuingAlone
<1>13. CASE UNCHANGED vars
  BY <1>0, <1>13 DEF vars, list_vars, EnqueuingAlone
<1> QED
  <2>1. ASSUME NEW p \in Producer, ProducerStep(p) \/ \E v \in Value : NewNode(p, v)
        PROVE  EnqueuingAlone(q)'
    <3>1. p = q
      BY <1>0
    <3> QED BY <2>1, <3>1, <1>1, <1>2, <1>3, <1>4, <1>5, <1>6, <1>7, <1>8 DEF ProducerStep
  <2> QED BY <2>1, <1>9, <1>10, <1>11, <1>12, <1>13 DEF Next, Done

-------------------------------------------------------------------------------
(* Consumers.                                                              *)

LEMMA DequeuingStep ==
  ASSUME QueueInv, [Next]_vars, Alone \/ NeverScans, NEW e \in Consumer
  PROVE  Dequeuing(e)'
<1>0. Typed /\ Listed /\ Apart /\ Dequeuing(e) /\ e \notin Producer
  BY QueueAssumption DEF QueueInv
<1>T. /\ pc \in [Thread -> Label] /\ snap \in [Thread -> Node \cup {Null}] /\ e \in Thread
      /\ nxt \in [Thread -> Node \cup {Null}] /\ next \in [Node -> Node \cup {Null}]
  BY <1>0 DEF Typed, Thread
<1>C. ~destroyed => head \in InChain /\ head \in Node
  BY <1>0, ChainFacts
<1>D. pc[e] \notin {"idle", "scan"} => ~destroyed
  BY <1>0 DEF Listed
<1>1. ASSUME NEW p \in Producer, NEW v \in Value, NewNode(p, v)
      PROVE  Dequeuing(e)'
  BY <1>0, <1>1, NewNodeEffect, OtherConsumer
<1>2. ASSUME NEW th, QuietOf(th), th # e
      PROVE  Dequeuing(e)'
  BY <1>0, <1>2, QuietEffect, OtherConsumer
<1>3. ASSUME QuietOf(e)
      PROVE  Dequeuing(e)'
  <2>0. /\ InChain' = InChain /\ \A m : (Past(m)' <=> Past(m)) /\ (Hooked(m)' <=> Hooked(m))
        /\ UNCHANGED <<head, next, destroyed>>
    BY <1>3, QuietEffect
  <2>1. CASE LoadHead(e) \/ ProtectHead(e) \/ ConsumerHelpsTail(e) \/ MoveHeadFails(e) \/ Take(e) \/ Cleanup(e)
    <3>1. pc'[e] \in {"protect head", "check head", "load head", "retire", "scan"}
      BY <2>1, <1>T DEF LoadHead, ProtectHead, ConsumerHelpsTail, MoveHeadFails, Take, Cleanup, Goto
    <3> QED BY <3>1 DEF Dequeuing, HeadKnown, NextRead, NextKnown
  <2>2. CASE CheckHead(e)
    <3>1. /\ pc'[e] \in {"load next", "load head"} /\ (pc'[e] = "load next" => head = snap[e])
          /\ pc[e] = "check head" /\ UNCHANGED snap
      BY <2>2, <1>T DEF CheckHead, Goto, StillHead
    <3> QED BY <1>C, <1>D, <2>0, <3>1 DEF Dequeuing, HeadKnown, NextRead, NextKnown
  <2>3. CASE LoadNext(e)
    <3>1. /\ pc[e] = "load next" /\ pc'[e] = "protect next" /\ UNCHANGED snap /\ nxt'[e] = next[snap[e]]
      BY <2>3, <1>T DEF LoadNext, Goto
    <3>2. snap[e] \in Node /\ (snap[e] = head \/ Past(snap[e]))
      BY <1>0, <3>1 DEF Dequeuing, HeadKnown
    <3>3. \A m : m = snap'[e] => m \in Node /\ (m = head' \/ Past(m)')
      BY <2>0, <3>1, <3>2
    <3> QED BY <2>0, <3>1, <3>3 DEF Dequeuing, HeadKnown, NextRead, NextKnown
  <2>4. CASE ProtectNext(e)
    <3>1. /\ pc[e] = "protect next" /\ pc'[e] = "recheck head" /\ UNCHANGED <<snap, nxt>>
      BY <2>4, <1>T DEF ProtectNext, Goto
    <3>2. /\ snap[e] \in Node /\ (snap[e] = head \/ Past(snap[e]))
          /\ nxt[e] \in {Null, next[snap[e]]}
      BY <1>0, <3>1 DEF Dequeuing, HeadKnown, NextRead
    <3>3. \A m : m = snap'[e] => m \in Node /\ (m = head' \/ Past(m)')
      BY <2>0, <3>1, <3>2
    <3> QED BY <2>0, <3>1, <3>2, <3>3 DEF Dequeuing, HeadKnown, NextRead, NextKnown
  <2>5. CASE RecheckHead(e)
    <3>1. /\ pc[e] = "recheck head" /\ UNCHANGED <<snap, nxt>>
          /\ pc'[e] \in {"reload next", "load head"} /\ (pc'[e] = "reload next" => head = snap[e])
      BY <2>5, <1>T DEF RecheckHead, Goto, StillHead
    <3>2. nxt[e] \in {Null, next[snap[e]]}
      BY <1>0, <3>1 DEF Dequeuing, NextRead, HeadKnown
    <3>3. pc'[e] = "reload next" => nxt[e] = Null \/ Hooked(nxt[e])
      BY <1>0, <1>C, <1>D, <3>1, <3>2, ChainFacts DEF Hooked
    <3>4. pc'[e] = "reload next" => \A m : m = nxt'[e] => m = Null \/ Hooked(m)'
      BY <2>0, <3>1, <3>3
    <3> QED BY <1>C, <1>D, <2>0, <3>1, <3>2, <3>4 DEF Dequeuing, HeadKnown, NextRead, NextKnown
  <2>6. CASE ReloadNext(e) \/ CompareTail(e)
    <3>1. /\ pc[e] \in {"reload next", "compare tail"} /\ UNCHANGED <<snap, nxt, tail>>
          /\ pc'[e] \in {"compare tail", "load head", "clear", "help tail", "move head"}
          /\ pc'[e] \in {"help tail", "move head"} => nxt[e] # Null
          /\ pc'[e] = "move head" => snap[e] # tail
      BY <2>6, <1>T DEF ReloadNext, CompareTail, Goto, HeadIsTail, list_vars
    <3>2. /\ snap[e] \in Node /\ (snap[e] = head \/ Past(snap[e]))
          /\ nxt[e] \in {Null, next[snap[e]]} /\ (nxt[e] = Null \/ Hooked(nxt[e]))
      BY <1>0, <3>1 DEF Dequeuing, HeadKnown, NextRead, NextKnown
    <3>3. \A m : m = snap'[e] => m \in Node /\ (m = head' \/ Past(m)')
      BY <2>0, <3>1, <3>2
    <3>4. \A m : m = nxt'[e] => m = Null \/ Hooked(m)'
      BY <2>0, <3>1, <3>2
    <3> QED BY <2>0, <3>1, <3>2, <3>3, <3>4 DEF Dequeuing, HeadKnown, NextRead, NextKnown
  <2>7. CASE ClearAndReturn(e)
    <3>1. pc'[e] = "idle" /\ snap'[e] = Null
      BY <2>7, <1>T DEF ClearAndReturn, Goto, Forget
    <3> QED BY <3>1 DEF Dequeuing, HeadKnown, NextRead, NextKnown
  <2>8. CASE StoresBecomeVisible(e)
    <3>1. UNCHANGED <<pc, snap, nxt, tail>>
      BY <2>8 DEF StoresBecomeVisible, list_vars
    <3> QED BY <1>0, <2>0, <3>1 DEF Dequeuing
  <2>9. ASSUME NEW d \in Consumer, NEW i \in Slot, ReadHazardPointer(e, d, i)
        PROVE  Dequeuing(e)'
    <3>1. UNCHANGED <<pc, snap, nxt, tail>>
      BY <2>9 DEF ReadHazardPointer, list_vars
    <3> QED BY <1>0, <2>0, <3>1 DEF Dequeuing
  <2> QED BY <1>0, <1>3, <2>1, <2>2, <2>3, <2>4, <2>5, <2>6, <2>7, <2>8, <2>9 DEF QuietOf
<1>4. ASSUME NEW p \in Producer, Link(p)
      PROVE  Dequeuing(e)'
  BY <1>0, <1>4, LinkEffect, OtherConsumer
<1>5. ASSUME NEW c \in Consumer, MoveHead(c)
      PROVE  Dequeuing(e)'
  <2>0. /\ nxt[c] = next[head] /\ nxt[c] \in InChain /\ head = snap[c]
        /\ UNCHANGED <<next, snap, nxt>> /\ \A m : Hooked(m)' <=> Hooked(m)
        /\ Steady /\ OnlyMoves(c)
    BY <1>5, MoveHeadEffect
  <2>1. CASE c # e
    BY <1>0, <2>0, <2>1, OtherConsumer
  <2>2. CASE c = e
    <3>1. pc'[e] = "take"
      BY <1>5, <2>2, <1>T DEF MoveHead, Goto
    <3>2. \A m : m = nxt'[e] => Hooked(m)' /\ m # Null
      BY <1>0, <2>0, <2>2, ChainFacts DEF Hooked
    <3> QED BY <2>0, <2>2, <3>1, <3>2 DEF Dequeuing, HeadKnown, NextRead, NextKnown
  <2> QED BY <2>1, <2>2
<1>6. ASSUME NEW c \in Consumer, Retire(c)
      PROVE  Dequeuing(e)'
  <2>1. CASE c # e
    BY <1>0, <1>6, <2>1, RetireEffect, OtherConsumer
  <2>2. CASE c = e
    <3>1. pc'[e] \in {"scan", "clear"}
      BY <1>6, <2>2, <1>T DEF Retire, Goto
    <3> QED BY <3>1 DEF Dequeuing, HeadKnown, NextRead, NextKnown
  <2> QED BY <2>1, <2>2
<1>7. ASSUME NEW c \in Consumer, DeleteUnprotected(c)
      PROVE  Dequeuing(e)'
  <2>0. OnlyMoves(c) /\ UNCHANGED <<head, tail, next, snap, nxt>>
    BY <1>7, DeleteEffect
  <2>1. CASE c # e
    <3>1. pc'[e] = pc[e]
      BY <1>T, <2>0, <2>1 DEF OnlyMoves
    <3>2. pc[e] \in HeadKnown => snap[e] = head \/ Past(snap[e])'
      BY <1>7, DeleteSpares
    <3>3. pc[e] \in NextKnown => nxt[e] = Null \/ Hooked(nxt[e])'
      BY <1>7, DeleteSpares
    <3> QED BY <1>0, <2>0, <3>1, <3>2, <3>3 DEF Dequeuing
  <2>2. CASE c = e
    <3>1. pc'[e] \in {"idle", "clear"} /\ (pc'[e] = "idle" => snap[e] = Null)
      BY <1>7, <2>2, <1>T DEF DeleteUnprotected, Goto
    <3> QED BY <2>0, <3>1 DEF Dequeuing, HeadKnown, NextRead, NextKnown
  <2> QED BY <2>1, <2>2
<1>8. ASSUME NEW c \in Consumer, Destroy(c)
      PROVE  Dequeuing(e)'
  <2>1. pc[e] = "idle" /\ pc' = pc /\ snap' = snap
    BY <1>8, <1>T, DestroyEffect
  <2> QED BY <1>0, <2>1 DEF Dequeuing, HeadKnown, NextRead, NextKnown
<1>9. CASE UNCHANGED vars
  BY <1>0, <1>9 DEF vars, list_vars, scan_vars, Dequeuing, Hooked, Past, Taking, InChain, Chain
<1> QED
  BY <1>1, <1>2, <1>3, <1>4, <1>5, <1>6, <1>7, <1>8, <1>9
  DEF Next, ProducerStep, ConsumerStep, Dequeue, Done, QuietOf

LEMMA ShownStep ==
  ASSUME QueueInv, [Next]_vars, Alone, NEW e \in Consumer
  PROVE  Shown(e)'
<1>0. Typed /\ Shown(e) /\ e \notin Producer /\ ~DelayedStores
  BY QueueAssumption DEF QueueInv, Alone, Protected
<1>T. /\ pc \in [Thread -> Label] /\ snap \in [Thread -> Node \cup {Null}] /\ e \in Thread
      /\ nxt \in [Thread -> Node \cup {Null}]
      /\ hp \in [Consumer -> [Slot -> Node \cup {Null}]] /\ seen \in [Consumer -> [Slot -> Node \cup {Null}]]
  BY <1>0 DEF Typed, Thread
<1>1. ASSUME NEW th, OnlyMoves(th), th # e, th \in Producer => UNCHANGED <<hp, seen>>
      PROVE  Shown(e)'
  <2>1. pc'[e] = pc[e] /\ snap'[e] = snap[e] /\ nxt'[e] = nxt[e] /\ hp'[e] = hp[e] /\ seen'[e] = seen[e]
    BY <1>1, <1>T DEF OnlyMoves
  <2> QED BY <1>0, <2>1 DEF Shown
<1>2. ASSUME NEW p \in Producer, ProducerStep(p) \/ \E v \in Value : NewNode(p, v)
      PROVE  Shown(e)'
  BY <1>0, <1>1, <1>2, ProducerMoves
<1>3. ASSUME NEW c \in Consumer, c # e,
             ConsumerStep(c) \/ Dequeue(c) \/ Cleanup(c) \/ StoresBecomeVisible(c) \/ Destroy(c)
      PROVE  Shown(e)'
  <2>1. OnlyMoves(c) /\ c \notin Producer
    BY <1>0, <1>3, ConsumerMoves
  <2> QED BY <1>1, <1>3, <2>1
<1>4. CASE LoadHead(e) \/ (CheckHead(e) \/ LoadNext(e) \/ RecheckHead(e) \/ ReloadNext(e) \/ CompareTail(e) \/ Take(e))
  <2>1. UNCHANGED <<hp, seen>>
    BY <1>4 DEF LoadHead, CheckHead, LoadNext, RecheckHead, ReloadNext, CompareTail, Take
  <2>2. CASE LoadHead(e)
    <3>1. pc'[e] = "protect head"
      BY <2>2, <1>T DEF LoadHead, Goto
    <3> QED BY <1>0, <2>1, <3>1 DEF Shown, HeadKnown, NextRead, NextKnown
  <2>3. CASE CheckHead(e)
    <3>1. pc[e] = "check head" /\ pc'[e] \in {"load next", "load head"} /\ UNCHANGED snap
      BY <2>3, <1>T DEF CheckHead, Goto
    <3> QED BY <1>0, <2>1, <3>1 DEF Shown, HeadKnown, NextRead, NextKnown
  <2>4. CASE LoadNext(e)
    <3>1. pc[e] = "load next" /\ pc'[e] = "protect next" /\ UNCHANGED snap
      BY <2>4, <1>T DEF LoadNext, Goto
    <3> QED BY <1>0, <2>1, <3>1 DEF Shown, HeadKnown, NextRead, NextKnown
  <2>5. CASE RecheckHead(e)
    <3>1. pc[e] = "recheck head" /\ pc'[e] \in {"reload next", "load head"} /\ UNCHANGED <<snap, nxt>>
      BY <2>5, <1>T DEF RecheckHead, Goto
    <3> QED BY <1>0, <2>1, <3>1 DEF Shown, HeadKnown, NextRead, NextKnown
  <2>6. CASE ReloadNext(e) \/ CompareTail(e)
    <3>1. /\ pc[e] \in {"reload next", "compare tail"} /\ UNCHANGED <<snap, nxt>>
          /\ pc'[e] \in {"compare tail", "load head", "clear", "help tail", "move head"}
      BY <2>6, <1>T DEF ReloadNext, CompareTail, Goto
    <3> QED BY <1>0, <2>1, <3>1 DEF Shown, HeadKnown, NextRead, NextKnown
  <2>7. CASE Take(e)
    <3>1. pc'[e] = "retire"
      BY <2>7, <1>T DEF Take, Goto
    <3> QED BY <1>0, <2>1, <3>1 DEF Shown, HeadKnown, NextRead, NextKnown
  <2> QED BY <1>4, <2>2, <2>3, <2>4, <2>5, <2>6, <2>7
<1>5. CASE ProtectHead(e)
  <2>1. /\ hp' = [hp EXCEPT ![e] = [hp[e] EXCEPT ![0] = snap[e]]]
        /\ seen' = [seen EXCEPT ![e] = [hp[e] EXCEPT ![0] = snap[e]]]
        /\ pc' = [pc EXCEPT ![e] = "check head"] /\ UNCHANGED snap
    BY <1>0, <1>5 DEF ProtectHead, SetHazardPointer, Visible, Goto
  <2>2. /\ seen'[e] = hp'[e] /\ hp'[e][0] = snap'[e] /\ pc'[e] = "check head"
    <3>1. 0 \in Slot
      BY DEF Slot
    <3> QED BY <1>T, <2>1, <3>1
  <2> QED BY <2>2 DEF Shown, HeadKnown, NextRead, NextKnown
<1>6. CASE ProtectNext(e)
  <2>1. /\ hp' = [hp EXCEPT ![e] = [hp[e] EXCEPT ![1] = nxt[e]]]
        /\ seen' = [seen EXCEPT ![e] = [hp[e] EXCEPT ![1] = nxt[e]]]
        /\ pc' = [pc EXCEPT ![e] = "recheck head"] /\ UNCHANGED <<snap, nxt>> /\ pc[e] = "protect next"
    BY <1>0, <1>6 DEF ProtectNext, SetHazardPointer, Visible, Goto
  <2>2. /\ seen'[e] = hp'[e] /\ hp'[e][1] = nxt'[e] /\ hp'[e][0] = hp[e][0] /\ pc'[e] = "recheck head"
    <3>1. 0 \in Slot /\ 1 \in Slot /\ 0 # 1
      BY DEF Slot
    <3> QED BY <1>T, <2>1, <3>1
  <2> QED BY <1>0, <2>1, <2>2 DEF Shown, HeadKnown, NextRead, NextKnown
<1>7. CASE ConsumerHelpsTail(e) \/ MoveHead(e) \/ MoveHeadFails(e) \/ Cleanup(e)
  <2>1. hp' = hp /\ seen' = [seen EXCEPT ![e] = hp[e]] /\ UNCHANGED <<snap, nxt>>
    BY <1>7 DEF ConsumerHelpsTail, MoveHead, MoveHeadFails, Cleanup, Drained
  <2>2. seen'[e] = hp'[e]
    BY <1>T, <2>1
  <2>3. pc'[e] \in {"load head", "scan"} \/ (pc'[e] = "take" /\ pc[e] = "move head")
    BY <1>7, <1>T DEF ConsumerHelpsTail, MoveHead, MoveHeadFails, Cleanup, Goto
  <2> QED BY <1>0, <2>1, <2>2, <2>3 DEF Shown, HeadKnown, NextRead, NextKnown
<1>8. CASE Retire(e)
  <2>1. hp' = hp /\ (seen' = seen \/ seen' = [seen EXCEPT ![e] = hp[e]])
    BY <1>8 DEF Retire, Drained
  <2>2. seen'[e] = hp'[e]
    BY <1>0, <1>T, <2>1 DEF Shown
  <2>3. pc'[e] \in {"scan", "clear"}
    BY <1>8, <1>T DEF Retire, Goto
  <2> QED BY <2>2, <2>3 DEF Shown, HeadKnown, NextRead, NextKnown
<1>9. ASSUME NEW d \in Consumer, NEW i \in Slot, ReadHazardPointer(e, d, i)
      PROVE  Shown(e)'
  BY <1>0, <1>9 DEF ReadHazardPointer, Shown
<1>10. CASE DeleteUnprotected(e)
  <2>1. UNCHANGED <<hp, seen>> /\ pc'[e] \in {"idle", "clear"}
    BY <1>10, <1>T DEF DeleteUnprotected, Goto
  <2> QED BY <1>0, <2>1 DEF Shown, HeadKnown, NextRead, NextKnown
<1>11. CASE ClearAndReturn(e)
  <2> DEFINE none == [i \in Slot |-> Null]
  <2>1. hp' = [hp EXCEPT ![e] = none] /\ seen' = [seen EXCEPT ![e] = none]
    BY <1>0, <1>11 DEF ClearAndReturn, Visible
  <2>2. pc'[e] = "idle"
    BY <1>11, <1>T DEF ClearAndReturn, Goto
  <2> HIDE DEF none
  <2>3. seen'[e] = hp'[e]
    BY <1>T, <2>1
  <2> QED BY <2>2, <2>3 DEF Shown, HeadKnown, NextRead, NextKnown
<1>12. CASE StoresBecomeVisible(e)
  BY <1>0, <1>T, <1>12 DEF StoresBecomeVisible, Drained, Shown
<1>13. CASE Destroy(e)
  <2>1. seen' = [seen EXCEPT ![e] = hp[e]] /\ hp' = hp /\ pc'[e] = "idle"
    BY <1>13, <1>T, DestroyEffect
  <2>2. seen'[e] = hp'[e]
    BY <1>T, <2>1
  <2> QED BY <2>1, <2>2 DEF Shown, HeadKnown, NextRead, NextKnown
<1>14. CASE UNCHANGED vars
  BY <1>0, <1>14 DEF vars, Shown
<1>15. ASSUME ConsumerStep(e) \/ Dequeue(e) \/ Cleanup(e) \/ StoresBecomeVisible(e) \/ Destroy(e)
       PROVE  Shown(e)'
  BY <1>15, <1>4, <1>5, <1>6, <1>7, <1>8, <1>9, <1>10, <1>11, <1>12, <1>13 DEF ConsumerStep, Dequeue
<1> QED
  <2>1. ASSUME NEW c \in Consumer,
               ConsumerStep(c) \/ Dequeue(c) \/ Cleanup(c) \/ StoresBecomeVisible(c) \/ Destroy(c)
        PROVE  Shown(e)'
    BY <2>1, <1>3, <1>15
  <2> QED BY <1>2, <1>14, <2>1 DEF Next, Done

\* How a consumer's snapshots get to be valid.
HeadStays(c) ==
  pc'[c] \in HeadKnown => \/ pc[c] \in HeadKnown /\ snap'[c] = snap[c]
                          \/ ~destroyed /\ snap'[c] = head
NextStays(c) ==
  pc'[c] \in NextKnown => \/ pc[c] \in NextKnown /\ nxt'[c] = nxt[c]
                          \/ /\ ~destroyed /\ nxt'[c] = nxt[c]
                             /\ pc[c] = "recheck head" /\ snap[c] = head

\* How a scan goes on.
ScanStays(d) ==
  pc'[d] = "scan" => \/ pc[d] = "scan" /\ retired'[d] = retired[d] /\ unread'[d] = unread[d] /\ found'[d] = found[d]
                     \/ unread'[d] = Consumer \X Slot
                     \/ \E c \in Consumer, i \in Slot : ReadHazardPointer(d, c, i)

LEMMA SnapshotsStay ==
  ASSUME QueueInv, [Next]_vars, NEW e \in Consumer
  PROVE  HeadStays(e) /\ NextStays(e)
<1> USE DEF Goto, Forget, list_vars, scan_vars, producer_frame, consumer_frame, StillHead, HeadKnown, NextRead, NextKnown, HeadStays, NextStays
<1>0. /\ pc \in [Thread -> Label] /\ snap \in [Thread -> Node \cup {Null}]
      /\ nxt \in [Thread -> Node \cup {Null}] /\ Producer \cap Consumer = {}
      /\ Producer \subseteq Thread /\ Consumer \subseteq Thread /\ ~(pc[e] # "idle" /\ pc[e] # "scan" /\ destroyed)
  BY QueueAssumption DEF QueueInv, Typed, Listed, Thread
<1>1. ASSUME NEW p \in Producer, NEW v \in Value, NewNode(p, v)
      PROVE  HeadStays(e) /\ NextStays(e)
  BY <1>0, <1>1 DEF NewNode
<1>2. ASSUME NEW p \in Producer, LoadTail(p)
      PROVE  HeadStays(e) /\ NextStays(e)
  BY <1>0, <1>2 DEF LoadTail
<1>3. ASSUME NEW p \in Producer, ReadNext(p)
      PROVE  HeadStays(e) /\ NextStays(e)
  BY <1>0, <1>3 DEF ReadNext
<1>4. ASSUME NEW p \in Producer, CheckTail(p)
      PROVE  HeadStays(e) /\ NextStays(e)
  BY <1>0, <1>4 DEF CheckTail
<1>5. ASSUME NEW p \in Producer, Link(p)
      PROVE  HeadStays(e) /\ NextStays(e)
  BY <1>0, <1>5 DEF Link
<1>6. ASSUME NEW p \in Producer, LinkFails(p)
      PROVE  HeadStays(e) /\ NextStays(e)
  BY <1>0, <1>6 DEF LinkFails
<1>7. ASSUME NEW p \in Producer, Swing(p)
      PROVE  HeadStays(e) /\ NextStays(e)
  BY <1>0, <1>7 DEF Swing
<1>8. ASSUME NEW p \in Producer, HelpTail(p)
      PROVE  HeadStays(e) /\ NextStays(e)
  BY <1>0, <1>8 DEF HelpTail
<1>9. ASSUME NEW c \in Consumer, LoadHead(c)
      PROVE  HeadStays(e) /\ NextStays(e)
  BY <1>0, <1>9 DEF LoadHead
<1>10. ASSUME NEW c \in Consumer, ProtectHead(c)
       PROVE  HeadStays(e) /\ NextStays(e)
  BY <1>0, <1>10 DEF ProtectHead
<1>11. ASSUME NEW c \in Consumer, CheckHead(c)
       PROVE  HeadStays(e) /\ NextStays(e)
  BY <1>0, <1>11 DEF CheckHead
<1>12. ASSUME NEW c \in Consumer, LoadNext(c)
       PROVE  HeadStays(e) /\ NextStays(e)
  BY <1>0, <1>12 DEF LoadNext
<1>13. ASSUME NEW c \in Consumer, ProtectNext(c)
       PROVE  HeadStays(e) /\ NextStays(e)
  BY <1>0, <1>13 DEF ProtectNext
<1>14. ASSUME NEW c \in Consumer, RecheckHead(c)
       PROVE  HeadStays(e) /\ NextStays(e)
  BY <1>0, <1>14 DEF RecheckHead
<1>15. ASSUME NEW c \in Consumer, ReloadNext(c)
       PROVE  HeadStays(e) /\ NextStays(e)
  BY <1>0, <1>15 DEF ReloadNext
<1>16. ASSUME NEW c \in Consumer, CompareTail(c)
       PROVE  HeadStays(e) /\ NextStays(e)
  BY <1>0, <1>16 DEF CompareTail
<1>17. ASSUME NEW c \in Consumer, ConsumerHelpsTail(c)
       PROVE  HeadStays(e) /\ NextStays(e)
  BY <1>0, <1>17 DEF ConsumerHelpsTail
<1>18. ASSUME NEW c \in Consumer, MoveHead(c)
       PROVE  HeadStays(e) /\ NextStays(e)
  BY <1>0, <1>18 DEF MoveHead
<1>19. ASSUME NEW c \in Consumer, MoveHeadFails(c)
       PROVE  HeadStays(e) /\ NextStays(e)
  BY <1>0, <1>19 DEF MoveHeadFails
<1>20. ASSUME NEW c \in Consumer, Take(c)
       PROVE  HeadStays(e) /\ NextStays(e)
  BY <1>0, <1>20 DEF Take
<1>21. ASSUME NEW c \in Consumer, Retire(c)
       PROVE  HeadStays(e) /\ NextStays(e)
  BY <1>0, <1>21 DEF Retire
<1>22. ASSUME NEW c \in Consumer, Cleanup(c)
       PROVE  HeadStays(e) /\ NextStays(e)
  BY <1>0, <1>22 DEF Cleanup
<1>23. ASSUME NEW c \in Consumer, NEW d \in Consumer, NEW i \in Slot, ReadHazardPointer(c, d, i)
       PROVE  HeadStays(e) /\ NextStays(e)
  BY <1>0, <1>23 DEF ReadHazardPointer
<1>24. ASSUME NEW c \in Consumer, DeleteUnprotected(c)
       PROVE  HeadStays(e) /\ NextStays(e)
  BY <1>0, <1>24 DEF DeleteUnprotected
<1>25. ASSUME NEW c \in Consumer, ClearAndReturn(c)
       PROVE  HeadStays(e) /\ NextStays(e)
  BY <1>0, <1>25 DEF ClearAndReturn
<1>26. ASSUME NEW c \in Consumer, StoresBecomeVisible(c)
       PROVE  HeadStays(e) /\ NextStays(e)
  BY <1>0, <1>26 DEF StoresBecomeVisible
<1>27. ASSUME NEW c \in Consumer, Destroy(c)
       PROVE  HeadStays(e) /\ NextStays(e)
  BY <1>0, <1>27 DEF Destroy
<1>28. CASE UNCHANGED vars
  BY <1>0, <1>28 DEF vars
<1> QED
  BY <1>1, <1>2, <1>3, <1>4, <1>5, <1>6, <1>7, <1>8, <1>9, <1>10, <1>11, <1>12, <1>13, <1>14,
     <1>15, <1>16, <1>17, <1>18, <1>19, <1>20, <1>21, <1>22, <1>23, <1>24, <1>25, <1>26, <1>27, <1>28
  DEF Next, ProducerStep, ConsumerStep, Dequeue, Done

LEMMA ScansStay ==
  ASSUME QueueInv, [Next]_vars, NEW e \in Consumer
  PROVE  ScanStays(e)
<1> USE DEF Goto, list_vars, scan_vars, producer_frame, consumer_frame, ScanStays
<1>0. /\ pc \in [Thread -> Label] /\ Producer \cap Consumer = {}
      /\ Producer \subseteq Thread /\ Consumer \subseteq Thread
      /\ retired \in [Consumer -> SUBSET Node] /\ found \in [Consumer -> SUBSET Node]
      /\ unread \in [Consumer -> SUBSET (Consumer \X Slot)]
  BY QueueAssumption DEF QueueInv, Typed, Thread
<1>1. ASSUME NEW p \in Producer, NEW v \in Value, NewNode(p, v)
      PROVE  ScanStays(e)
  BY <1>0, <1>1 DEF NewNode
<1>2. ASSUME NEW p \in Producer, LoadTail(p)
      PROVE  ScanStays(e)
  BY <1>0, <1>2 DEF LoadTail
<1>3. ASSUME NEW p \in Producer, ReadNext(p)
      PROVE  ScanStays(e)
  BY <1>0, <1>3 DEF ReadNext
<1>4. ASSUME NEW p \in Producer, CheckTail(p)
      PROVE  ScanStays(e)
  BY <1>0, <1>4 DEF CheckTail
<1>5. ASSUME NEW p \in Producer, Link(p)
      PROVE  ScanStays(e)
  BY <1>0, <1>5 DEF Link
<1>6. ASSUME NEW p \in Producer, LinkFails(p)
      PROVE  ScanStays(e)
  BY <1>0, <1>6 DEF LinkFails
<1>7. ASSUME NEW p \in Producer, Swing(p)
      PROVE  ScanStays(e)
  BY <1>0, <1>7 DEF Swing
<1>8. ASSUME NEW p \in Producer, HelpTail(p)
      PROVE  ScanStays(e)
  BY <1>0, <1>8 DEF HelpTail
<1>9. ASSUME NEW c \in Consumer, LoadHead(c)
      PROVE  ScanStays(e)
  BY <1>0, <1>9 DEF LoadHead
<1>10. ASSUME NEW c \in Consumer, ProtectHead(c)
       PROVE  ScanStays(e)
  BY <1>0, <1>10 DEF ProtectHead
<1>11. ASSUME NEW c \in Consumer, CheckHead(c)
       PROVE  ScanStays(e)
  BY <1>0, <1>11 DEF CheckHead
<1>12. ASSUME NEW c \in Consumer, LoadNext(c)
       PROVE  ScanStays(e)
  BY <1>0, <1>12 DEF LoadNext
<1>13. ASSUME NEW c \in Consumer, ProtectNext(c)
       PROVE  ScanStays(e)
  BY <1>0, <1>13 DEF ProtectNext
<1>14. ASSUME NEW c \in Consumer, RecheckHead(c)
       PROVE  ScanStays(e)
  BY <1>0, <1>14 DEF RecheckHead
<1>15. ASSUME NEW c \in Consumer, ReloadNext(c)
       PROVE  ScanStays(e)
  BY <1>0, <1>15 DEF ReloadNext
<1>16. ASSUME NEW c \in Consumer, CompareTail(c)
       PROVE  ScanStays(e)
  BY <1>0, <1>16 DEF CompareTail
<1>17. ASSUME NEW c \in Consumer, ConsumerHelpsTail(c)
       PROVE  ScanStays(e)
  BY <1>0, <1>17 DEF ConsumerHelpsTail
<1>18. ASSUME NEW c \in Consumer, MoveHead(c)
       PROVE  ScanStays(e)
  BY <1>0, <1>18 DEF MoveHead
<1>19. ASSUME NEW c \in Consumer, MoveHeadFails(c)
       PROVE  ScanStays(e)
  BY <1>0, <1>19 DEF MoveHeadFails
<1>20. ASSUME NEW c \in Consumer, Take(c)
       PROVE  ScanStays(e)
  BY <1>0, <1>20 DEF Take
<1>21. ASSUME NEW c \in Consumer, Retire(c)
       PROVE  ScanStays(e)
  BY <1>0, <1>21 DEF Retire
<1>22. ASSUME NEW c \in Consumer, Cleanup(c)
       PROVE  ScanStays(e)
  BY <1>0, <1>22 DEF Cleanup
<1>23. ASSUME NEW c \in Consumer, NEW d \in Consumer, NEW i \in Slot, ReadHazardPointer(c, d, i)
       PROVE  ScanStays(e)
  BY <1>0, <1>23 DEF ReadHazardPointer
<1>24. ASSUME NEW c \in Consumer, DeleteUnprotected(c)
       PROVE  ScanStays(e)
  BY <1>0, <1>24 DEF DeleteUnprotected
<1>25. ASSUME NEW c \in Consumer, ClearAndReturn(c)
       PROVE  ScanStays(e)
  BY <1>0, <1>25 DEF ClearAndReturn
<1>26. ASSUME NEW c \in Consumer, StoresBecomeVisible(c)
       PROVE  ScanStays(e)
  BY <1>0, <1>26 DEF StoresBecomeVisible
<1>27. ASSUME NEW c \in Consumer, Destroy(c)
       PROVE  ScanStays(e)
  BY <1>0, <1>27 DEF Destroy
<1>28. CASE UNCHANGED vars
  BY <1>0, <1>28 DEF vars
<1> QED
  BY <1>1, <1>2, <1>3, <1>4, <1>5, <1>6, <1>7, <1>8, <1>9, <1>10, <1>11, <1>12, <1>13, <1>14,
     <1>15, <1>16, <1>17, <1>18, <1>19, <1>20, <1>21, <1>22, <1>23, <1>24, <1>25, <1>26, <1>27, <1>28
  DEF Next, ProducerStep, ConsumerStep, Dequeue, Done

LEMMA SparedStep ==
  ASSUME QueueInv, [Next]_vars, Alone, NEW e \in Consumer, NEW d \in Consumer
  PROVE  Spared(e, d)'
<1>0. /\ Typed /\ Listed /\ Apart /\ Dequeuing(e) /\ Shown(e) /\ Shown(d) /\ Spared(e, d)
      /\ HeadStays(e) /\ NextStays(e) /\ ScanStays(d)
  BY SnapshotsStay, ScansStay DEF QueueInv, Protected
<1>1. SUFFICES ASSUME (pc[d] = "scan")'
               PROVE  /\ pc'[e] \in HeadKnown /\ snap'[e] \in retired'[d] =>
                           <<e, 0>> \in unread'[d] \/ snap'[e] \in found'[d]
                      /\ pc'[e] \in NextKnown /\ nxt'[e] \in retired'[d] =>
                           <<e, 1>> \in unread'[d] \/ nxt'[e] \in found'[d]
  BY DEF Spared
<1>2. \A m \in retired[d] : m \in Node /\ m \notin InChain /\ m # Null
  BY <1>0, QueueAssumption DEF Apart, Past, Typed
<1>3. CASE pc[d] = "scan" /\ retired'[d] = retired[d] /\ unread'[d] = unread[d] /\ found'[d] = found[d]
  <2>1. pc'[e] \in HeadKnown /\ snap'[e] \in retired[d] => pc[e] \in HeadKnown /\ snap'[e] = snap[e]
    BY <1>0, <1>2, ChainFacts DEF HeadStays
  <2>2. pc'[e] \in NextKnown /\ nxt'[e] \in retired[d] => pc[e] \in NextKnown /\ nxt'[e] = nxt[e]
    <3>1. ASSUME ~destroyed, pc[e] = "recheck head", snap[e] = head
          PROVE  nxt[e] \notin retired[d]
      <4>1. nxt[e] \in {Null, next[head]}
        BY <1>0, <3>1 DEF Dequeuing, NextRead, HeadKnown
      <4> QED BY <1>0, <1>2, <3>1, <4>1, ChainFacts
    <3> QED BY <1>0, <3>1 DEF NextStays
  <2> QED BY <1>0, <1>3, <2>1, <2>2 DEF Spared
<1>4. CASE unread'[d] = Consumer \X Slot
  BY <1>4 DEF Slot
<1>5. ASSUME NEW c \in Consumer, NEW i \in Slot, ReadHazardPointer(d, c, i)
      PROVE  /\ pc'[e] \in HeadKnown /\ snap'[e] \in retired'[d] =>
                  <<e, 0>> \in unread'[d] \/ snap'[e] \in found'[d]
             /\ pc'[e] \in NextKnown /\ nxt'[e] \in retired'[d] =>
                  <<e, 1>> \in unread'[d] \/ nxt'[e] \in found'[d]
  <2>1. /\ unread' = [unread EXCEPT ![d] = unread[d] \ {<<c, i>>}]
        /\ found' = [found EXCEPT ![d] = found[d] \cup ({seen[c][i]} \ {Null})]
        /\ UNCHANGED <<pc, snap, nxt, retired>> /\ pc[d] = "scan"
    BY <1>5 DEF ReadHazardPointer
  <2>2. /\ unread'[d] = unread[d] \ {<<c, i>>}
        /\ found'[d] = found[d] \cup ({seen[c][i]} \ {Null})
    <3>1. unread \in [Consumer -> SUBSET (Consumer \X Slot)] /\ found \in [Consumer -> SUBSET Node]
      BY <1>0 DEF Typed
    <3> QED BY <2>1, <3>1
  <2>3. pc[e] \in HeadKnown => seen[e][0] = snap[e]
    BY <1>0 DEF Shown
  <2>4. pc[e] \in NextKnown => seen[e][1] = nxt[e]
    BY <1>0 DEF Shown
  <2>5. pc[e] \in HeadKnown /\ snap[e] \in retired[d] => <<e, 0>> \in unread'[d] \/ snap[e] \in found'[d]
    BY <1>0, <1>2, <2>1, <2>2, <2>3 DEF Spared
  <2>6. pc[e] \in NextKnown /\ nxt[e] \in retired[d] => <<e, 1>> \in unread'[d] \/ nxt[e] \in found'[d]
    BY <1>0, <1>2, <2>1, <2>2, <2>4 DEF Spared
  <2> QED BY <2>1, <2>5, <2>6
<1> QED BY <1>0, <1>1, <1>3, <1>4, <1>5 DEF ScanStays

LEMMA NoScanStep ==
  ASSUME QueueInv, [Next]_vars, NeverScans, NEW e \in Consumer
  PROVE  pc'[e] # "scan"
<1> USE DEF Goto
<1>0. /\ pc \in [Thread -> Label] /\ Producer \subseteq Thread /\ Consumer \subseteq Thread
      /\ pc[e] # "scan" /\ ~CleanUp
  BY DEF QueueInv, Typed, Thread, NeverScans
<1>1. ASSUME NEW p \in Producer, NEW v \in Value, NewNode(p, v)
      PROVE  pc'[e] # "scan"
  BY <1>0, <1>1 DEF NewNode
<1>2. ASSUME NEW p \in Producer, LoadTail(p)
      PROVE  pc'[e] # "scan"
  BY <1>0, <1>2 DEF LoadTail
<1>3. ASSUME NEW p \in Producer, ReadNext(p)
      PROVE  pc'[e] # "scan"
  BY <1>0, <1>3 DEF ReadNext
<1>4. ASSUME NEW p \in Producer, CheckTail(p)
      PROVE  pc'[e] # "scan"
  BY <1>0, <1>4 DEF CheckTail
<1>5. ASSUME NEW p \in Producer, Link(p)
      PROVE  pc'[e] # "scan"
  BY <1>0, <1>5 DEF Link
<1>6. ASSUME NEW p \in Producer, LinkFails(p)
      PROVE  pc'[e] # "scan"
  BY <1>0, <1>6 DEF LinkFails
<1>7. ASSUME NEW p \in Producer, Swing(p)
      PROVE  pc'[e] # "scan"
  BY <1>0, <1>7 DEF Swing
<1>8. ASSUME NEW p \in Producer, HelpTail(p)
      PROVE  pc'[e] # "scan"
  BY <1>0, <1>8 DEF HelpTail
<1>9. ASSUME NEW c \in Consumer, LoadHead(c)
      PROVE  pc'[e] # "scan"
  BY <1>0, <1>9 DEF LoadHead
<1>10. ASSUME NEW c \in Consumer, ProtectHead(c)
       PROVE  pc'[e] # "scan"
  BY <1>0, <1>10 DEF ProtectHead
<1>11. ASSUME NEW c \in Consumer, CheckHead(c)
       PROVE  pc'[e] # "scan"
  BY <1>0, <1>11 DEF CheckHead
<1>12. ASSUME NEW c \in Consumer, LoadNext(c)
       PROVE  pc'[e] # "scan"
  BY <1>0, <1>12 DEF LoadNext
<1>13. ASSUME NEW c \in Consumer, ProtectNext(c)
       PROVE  pc'[e] # "scan"
  BY <1>0, <1>13 DEF ProtectNext
<1>14. ASSUME NEW c \in Consumer, RecheckHead(c)
       PROVE  pc'[e] # "scan"
  BY <1>0, <1>14 DEF RecheckHead
<1>15. ASSUME NEW c \in Consumer, ReloadNext(c)
       PROVE  pc'[e] # "scan"
  BY <1>0, <1>15 DEF ReloadNext
<1>16. ASSUME NEW c \in Consumer, CompareTail(c)
       PROVE  pc'[e] # "scan"
  BY <1>0, <1>16 DEF CompareTail
<1>17. ASSUME NEW c \in Consumer, ConsumerHelpsTail(c)
       PROVE  pc'[e] # "scan"
  BY <1>0, <1>17 DEF ConsumerHelpsTail
<1>18. ASSUME NEW c \in Consumer, MoveHead(c)
       PROVE  pc'[e] # "scan"
  BY <1>0, <1>18 DEF MoveHead
<1>19. ASSUME NEW c \in Consumer, MoveHeadFails(c)
       PROVE  pc'[e] # "scan"
  BY <1>0, <1>19 DEF MoveHeadFails
<1>20. ASSUME NEW c \in Consumer, Take(c)
       PROVE  pc'[e] # "scan"
  BY <1>0, <1>20 DEF Take
<1>21. ASSUME NEW c \in Consumer, Retire(c)
       PROVE  pc'[e] # "scan"
  <2>1. retired'[c] \subseteq Node
    BY TypedStep DEF Typed
  <2>2. Cardinality(retired'[c]) <= Cardinality(Node)
    BY <2>1, QueueAssumption, FS_Subset
  <2>3. /\ Cardinality(Node) \in Nat /\ Cardinality(retired'[c]) \in Nat
        /\ Cardinality(Node) < ScanThreshold /\ ScanThreshold \in Nat
    BY <2>1, QueueAssumption, FS_Subset, FS_CardinalityType DEF NeverScans
  <2>4. ~(Cardinality(retired'[c]) >= ScanThreshold)
    BY <2>2, <2>3
  <2>5. pc' = [pc EXCEPT ![c] = "clear"]
    BY <1>21, <2>4 DEF Retire
  <2> QED BY <1>0, <2>5
<1>22. ASSUME NEW c \in Consumer, Cleanup(c)
       PROVE  pc'[e] # "scan"
  BY <1>0, <1>22 DEF Cleanup
<1>23. ASSUME NEW c \in Consumer, NEW d \in Consumer, NEW i \in Slot, ReadHazardPointer(c, d, i)
       PROVE  pc'[e] # "scan"
  BY <1>0, <1>23 DEF ReadHazardPointer
<1>24. ASSUME NEW c \in Consumer, DeleteUnprotected(c)
       PROVE  pc'[e] # "scan"
  BY <1>0, <1>24 DEF DeleteUnprotected
<1>25. ASSUME NEW c \in Consumer, ClearAndReturn(c)
       PROVE  pc'[e] # "scan"
  BY <1>0, <1>25 DEF ClearAndReturn
<1>26. ASSUME NEW c \in Consumer, StoresBecomeVisible(c)
       PROVE  pc'[e] # "scan"
  BY <1>0, <1>26 DEF StoresBecomeVisible
<1>27. ASSUME NEW c \in Consumer, Destroy(c)
       PROVE  pc'[e] # "scan"
  BY <1>0, <1>27 DEF Destroy
<1>28. CASE UNCHANGED vars
  BY <1>0, <1>28 DEF vars
<1> QED
  BY <1>1, <1>2, <1>3, <1>4, <1>5, <1>6, <1>7, <1>8, <1>9, <1>10, <1>11, <1>12, <1>13, <1>14,
     <1>15, <1>16, <1>17, <1>18, <1>19, <1>20, <1>21, <1>22, <1>23, <1>24, <1>25, <1>26, <1>27, <1>28
  DEF Next, ProducerStep, ConsumerStep, Dequeue, Done

-------------------------------------------------------------------------------
(* The invariant.                                                          *)

LEMMA QueueInit ==
  ASSUME Init
  PROVE  QueueInv
<1>1. PICK dummy \in Node : head = dummy /\ tail = dummy /\ allocated = {dummy}
  BY DEF Init
<1>2. /\ next = [m \in Node |-> Null] /\ data = [m \in Node |-> Nothing]
      /\ pc = [th \in Thread |-> "idle"] /\ snap = [th \in Thread |-> Null] /\ nxt = [th \in Thread |-> Null]
      /\ new_node = [p \in Producer |-> Null] /\ unsent = Value /\ result = [c \in Consumer |-> Nothing]
      /\ hp = [c \in Consumer |-> [i \in Slot |-> Null]] /\ seen = hp
      /\ retired = [c \in Consumer |-> {}] /\ unread = [c \in Consumer |-> {}]
      /\ found = [c \in Consumer |-> {}] /\ destroyed = FALSE
  BY DEF Init
<1>3. Typed
  <2>1. "idle" \in ProducerLabel /\ "idle" \in ConsumerLabel
    BY DEF ProducerLabel, ConsumerLabel
  <2> QED BY <1>1, <1>2, <2>1 DEF Typed, Thread, Label
<1>4. IsList(<<dummy>>, head, next)
  <2>1. next[dummy] = Null
    BY <1>2
  <2> QED BY <1>1, <2>1 DEF IsList
<1>5. Chain = <<dummy>> /\ InChain = {dummy}
  <2>1. Chain = <<dummy>>
    BY <1>4, NodesIs DEF Chain
  <2> QED BY <2>1 DEF InChain
<1>6. Listed
  BY <1>1, <1>2, <1>4, <1>5 DEF Listed
<1>7. /\ \A p \in Producer : pc[p] = "idle"
      /\ \A c \in Consumer : pc[c] = "idle" /\ snap[c] = Null /\ retired[c] = {} /\ seen[c] = hp[c]
  BY <1>2 DEF Thread
<1>8. Apart
  BY <1>1, <1>5, <1>7 DEF Apart, Hooked, Past, Making, Taking
<1>9. \A p \in Producer : Enqueuing(p) /\ EnqueuingAlone(p)
  <2>1. next[tail] = Null
    BY <1>1, <1>2
  <2> QED BY <1>7, <2>1 DEF Enqueuing, EnqueuingAlone
<1>10. \A c \in Consumer : Dequeuing(c) /\ Protected(c)
  BY <1>7 DEF Dequeuing, Protected, Shown, Spared, HeadKnown, NextRead, NextKnown
<1> QED BY <1>3, <1>6, <1>7, <1>8, <1>9, <1>10 DEF QueueInv

LEMMA QueueStep ==
  ASSUME QueueInv, [Next]_vars, Alone \/ NeverScans
  PROVE  QueueInv'
<1>1. Typed' /\ Listed' /\ Apart'
  BY TypedStep, ListedStep, ApartStep
<1>2. \A p \in Producer : Enqueuing(p)'
  BY EnqueuingStep
<1>3. \A c \in Consumer : Dequeuing(c)'
  BY DequeuingStep
<1>4. Alone => /\ \A p \in Producer : EnqueuingAlone(p)'
               /\ \A c \in Consumer : Protected(c)'
  BY EnqueuingAloneStep, ShownStep, SparedStep DEF Protected
<1>5. NeverScans => \A c \in Consumer : pc'[c] # "scan"
  BY NoScanStep
<1>6. (Alone' <=> Alone) /\ (NeverScans' <=> NeverScans)
  BY DEF Alone, NeverScans
<1> QED BY <1>1, <1>2, <1>3, <1>4, <1>5, <1>6 DEF QueueInv

LEMMA QueueAlways ==
  ASSUME Alone \/ NeverScans
  PROVE  Spec => []QueueInv
<1>1. Init => QueueInv
  BY QueueInit
<1>2. QueueInv /\ [Next]_vars => QueueInv'
  BY QueueStep
<1> QED BY <1>1, <1>2, PTL DEF Spec

LEMMA InvTypeOK ==
  ASSUME QueueInv
  PROVE  TypeOK
<1>0. Typed /\ Listed /\ Apart
  BY DEF QueueInv
<1>1. {head, tail} \subseteq allocated \cup {Null}
  <2>1. CASE ~destroyed
    BY <1>0, <2>1, ChainFacts, HookedFacts DEF Hooked
  <2>2. CASE destroyed
    BY <1>0, <2>2 DEF Listed
  <2> QED BY <2>1, <2>2
<1> QED BY <1>0, <1>1 DEF TypeOK, Typed

LEMMA InvTouches ==
  ASSUME QueueInv
  PROVE  NoUseAfterFree
<1>0. Typed /\ Listed /\ Apart
  BY DEF QueueInv
<1>1. ASSUME NEW p \in Producer PROVE Touches(p) \subseteq allocated
  <2>1. Enqueuing(p) /\ pc[p] \in ProducerLabel
    BY <1>0 DEF QueueInv, Typed
  <2>2. pc[p] \in {"read next", "link"} => snap[p] \in allocated
    BY <1>0, <2>1, HookedFacts DEF Enqueuing
  <2>3. pc[p] \notin {"load next", "reload next", "take"}
    BY <2>1 DEF ProducerLabel
  <2> QED BY <2>2, <2>3 DEF Touches
<1>2. ASSUME NEW c \in Consumer PROVE Touches(c) \subseteq allocated
  <2>1. Dequeuing(c) /\ pc[c] \in ConsumerLabel
    BY <1>0 DEF QueueInv, Typed
  <2>2. pc[c] \in {"load next", "reload next"} => snap[c] \in allocated
    <3>1. pc[c] \in {"load next", "reload next"} => ~destroyed /\ (snap[c] = head \/ Past(snap[c]))
      BY <1>0, <2>1 DEF Dequeuing, HeadKnown, Listed
    <3>2. pc[c] \in {"load next", "reload next"} => Hooked(snap[c])
      BY <1>0, <3>1, ChainFacts DEF Hooked
    <3> QED BY <1>0, <3>2, HookedFacts
  <2>3. pc[c] = "take" => nxt[c] \in allocated
    BY <1>0, <2>1, HookedFacts DEF Dequeuing, NextRead, NextKnown
  <2>4. pc[c] \notin {"read next", "link"}
    BY <2>1 DEF ConsumerLabel
  <2> QED BY <2>2, <2>3, <2>4 DEF Touches
<1> QED BY <1>1, <1>2 DEF NoUseAfterFree, Thread

LEMMA InvOwners ==
  ASSUME QueueInv
  PROVE  MemoryAccounted
<1>0. Typed /\ Listed /\ Apart
  BY DEF QueueInv
<1>1. ASSUME NEW m \in Node, m \notin allocated
      PROVE  Owners(m) = {}
  <2>1. ~Hooked(m) /\ \A p \in Producer : ~(Making(p) /\ new_node[p] = m)
    BY <1>0, <1>1 DEF Apart
  <2> QED BY <2>1 DEF Owners, Hooked, Past, Making, Taking
<1>2. ASSUME NEW m \in Node, m \in allocated
      PROVE  \E o : Owners(m) = {o}
  <2>1. CASE m \in InChain
    <3>1. ~Past(m) /\ \A p \in Producer : ~(Making(p) /\ new_node[p] = m)
      BY <1>0, <2>1 DEF Apart, Hooked
    <3>2. Owners(m) = {<<"list", "head_">>}
      BY <2>1, <3>1 DEF Owners, Past, Making, Taking
    <3> QED BY <3>2
  <2>2. ASSUME NEW c \in Consumer, Taking(c), snap[c] = m PROVE \E o : Owners(m) = {o}
    <3>1. Past(m)
      BY <2>2 DEF Past
    <3>2. m \notin InChain /\ \A p \in Producer : ~(Making(p) /\ new_node[p] = m)
      BY <1>0, <3>1 DEF Apart, Hooked
    <3>3. /\ \A d \in Consumer : m \notin retired[d]
          /\ \A d \in Consumer : Taking(d) /\ snap[d] = m <=> d = c
      BY <1>0, <2>2 DEF Apart
    <3>4. Owners(m) = {<<"dequeuing", c>>}
      BY <3>2, <3>3 DEF Owners, Making, Taking
    <3> QED BY <3>4
  <2>3. ASSUME NEW c \in Consumer, m \in retired[c] PROVE \E o : Owners(m) = {o}
    <3>1. Past(m)
      BY <2>3 DEF Past
    <3>2. m \notin InChain /\ \A p \in Producer : ~(Making(p) /\ new_node[p] = m)
      BY <1>0, <3>1 DEF Apart, Hooked
    <3>3. /\ \A d \in Consumer : ~(Taking(d) /\ snap[d] = m)
          /\ \A d \in Consumer : m \in retired[d] <=> d = c
      BY <1>0, <2>3 DEF Apart
    <3>4. Owners(m) = {<<"retired", c>>}
      BY <3>2, <3>3 DEF Owners, Making, Taking
    <3> QED BY <3>4
  <2>4. ASSUME NEW p \in Producer, Making(p), new_node[p] = m PROVE \E o : Owners(m) = {o}
    <3>1. ~Hooked(m) /\ \A q \in Producer : Making(q) /\ new_node[q] = m <=> q = p
      BY <1>0, <2>4 DEF Apart
    <3>2. Owners(m) = {<<"producer", p>>}
      BY <3>1 DEF Owners, Making, Hooked, Past, Taking
    <3> QED BY <3>2
  <2> QED BY <1>0, <1>2, <2>1, <2>2, <2>3, <2>4 DEF Apart, Hooked, Past
<1>3. ASSUME NEW m \in Node
      PROVE  Cardinality(Owners(m)) = IF m \in allocated THEN 1 ELSE 0
  BY <1>1, <1>2, FS_EmptySet, FS_Singleton
<1> QED BY <1>3, InvTypeOK DEF MemoryAccounted

-------------------------------------------------------------------------------
(* Theorems.                                                               *)

\* head_ never overtakes tail_, which stays a node of the chain: with any number of
\* producers and consumers as long as nothing is deleted, and with one producer if it is.
THEOREM TailStaysInChain ==
  ASSUME Alone \/ NeverScans
  PROVE  Spec => []TailInChain
<1>1. QueueInv => TailInChain
  BY DEF QueueInv, Listed, TailInChain
<1> QED BY <1>1, QueueAlways, PTL

\* The hazard pointers do their job - no enqueue() and no try_dequeue() reads or writes
\* a node that another one's scan has deleted - for one producer, any number of
\* consumers and any threshold, if a store is seen before the next load.
THEOREM NothingUsedAfterFree ==
  ASSUME Alone \/ NeverScans
  PROVE  Spec => []NoUseAfterFree
<1>1. QueueInv => NoUseAfterFree
  BY InvTouches
<1> QED BY <1>1, QueueAlways, PTL

\* Every node new returns is owned by exactly one of the list, a producer, a consumer and
\* a list of retired nodes until it is deleted: nothing leaks, nothing is deleted twice.
THEOREM EveryNodeHasOneOwner ==
  ASSUME Alone \/ NeverScans
  PROVE  Spec => []MemoryAccounted
<1>1. QueueInv => MemoryAccounted
  BY InvOwners
<1> QED BY <1>1, QueueAlways, PTL

-------------------------------------------------------------------------------
(* What the nodes carry.                                                   *)

\* A value goes from its producer's new node through the list to the one consumer
\* that takes it; head_'s node, the dummy, has none that is still to be dequeued.
Carrying(p) ==
  Making(p) => /\ data[new_node[p]] \in Value \ unsent
               /\ Source[data[new_node[p]]] = p
Delivering(c) ==
  /\ pc[c] = "take" => (nxt[c] = head \/ Past(nxt[c])) /\ data[nxt[c]] \in Value
  /\ pc[c] \notin {"retire", "scan", "clear"} => result[c] = Nothing
  /\ pc[c] = "scan" /\ snap[c] = Null => result[c] = Nothing
  /\ pc[c] = "clear" => snap[c] # Null
FifoInv ==
  /\ QueueInv
  /\ \A p \in Producer : Carrying(p)
  /\ \A m \in InChain \ {head} : data[m] \in Value
  /\ \A c \in Consumer : Delivering(c)
  /\ \A c, d \in Consumer : pc[c] = "take" /\ pc[d] = "take" /\ nxt[c] = nxt[d] => c = d

LEMMA TakenIsHooked ==
  ASSUME FifoInv, NEW c \in Consumer, pc[c] = "take"
  PROVE  Hooked(nxt[c]) /\ nxt[c] \notin InChain \ {head} /\ nxt[c] \in Node
<1>0. Typed /\ Listed /\ Apart /\ Delivering(c) /\ Dequeuing(c)
  BY DEF FifoInv, QueueInv
<1>1. Hooked(nxt[c])
  BY <1>0 DEF Dequeuing, NextRead, NextKnown
<1> QED BY <1>0, <1>1, HookedFacts DEF Delivering, Apart

LEMMA DataStays ==
  ASSUME FifoInv, [Next]_vars
  PROVE  /\ \A m \in InChain \ {head} : data'[m] = data[m]
         /\ \A c \in Consumer : pc[c] = "take" => data'[nxt[c]] = data[nxt[c]] \/ Take(c)
         /\ \A p \in Producer : Making(p) => data'[new_node[p]] = data[new_node[p]]
         /\ unsent' \subseteq unsent
<1> DEFINE Same(m) == data'[m] = data[m]
           Goal == /\ \A m \in InChain \ {head} : Same(m)
                   /\ \A c \in Consumer : pc[c] = "take" => Same(nxt[c]) \/ Take(c)
                   /\ \A p \in Producer : Making(p) => Same(new_node[p])
                   /\ unsent' \subseteq unsent
<1>0. Typed /\ Listed /\ Apart /\ data \in [Node -> Value \cup {Nothing}] /\ InChain \subseteq Node
  BY ChainFacts DEF FifoInv, QueueInv, Typed
<1>1. ASSUME NEW p \in Producer, NEW v \in Value, NewNode(p, v)
      PROVE  Goal
  <2>1. QueueInv
    BY DEF FifoInv
  <2>2. PICK m \in Node \ allocated : data' = [data EXCEPT ![m] = v] /\ \A x : Hooked(x) => x # m
    BY <1>1, <2>1, NewNodeEffect
  <2>3. \A x \in Node \ {m} : Same(x)
    BY <1>0, <2>2
  <2>4. \A x \in Node : Hooked(x) => Same(x)
    BY <2>2, <2>3
  <2>5. \A q \in Producer : Making(q) => new_node[q] \in Node \ {m}
    BY <1>0, <2>2 DEF Apart
  <2>6. unsent' \subseteq unsent
    BY <1>1 DEF NewNode
  <2> HIDE DEF Same
  <2>7. \A x \in InChain \ {head} : Same(x)
    BY <1>0, <2>4 DEF Hooked
  <2> QED BY <2>3, <2>4, <2>5, <2>6, <2>7, TakenIsHooked
<1>2. ASSUME NEW c \in Consumer, Take(c)
      PROVE  Goal
  <2>1. data' = [data EXCEPT ![nxt[c]] = Nothing] /\ unsent' = unsent /\ pc[c] = "take"
    BY <1>2 DEF Take, consumer_frame
  <2>2. \A x \in Node \ {nxt[c]} : Same(x)
    BY <1>0, <2>1
  <2>3. Hooked(nxt[c]) /\ nxt[c] \notin InChain \ {head}
    BY <2>1, TakenIsHooked
  <2>4. \A q \in Producer : Making(q) => new_node[q] \in Node /\ new_node[q] # nxt[c]
    BY <1>0, <2>3 DEF Apart
  <2>5. \A d \in Consumer : pc[d] = "take" => d = c \/ (nxt[d] \in Node /\ nxt[d] # nxt[c])
    BY <2>1, TakenIsHooked DEF FifoInv
  <2> HIDE DEF Same
  <2> QED BY <1>0, <1>2, <2>1, <2>2, <2>3, <2>4, <2>5
<1>3. ASSUME UNCHANGED <<data, unsent>>
      PROVE  Goal
  BY <1>3
<1>4. UNCHANGED <<data, unsent>> \/ (\E p \in Producer, v \in Value : NewNode(p, v)) \/ \E c \in Consumer : Take(c)
  <2>1. ASSUME NEW p \in Producer, ProducerStep(p) PROVE UNCHANGED <<data, unsent>>
    BY <2>1 DEF ProducerStep, LoadTail, ReadNext, CheckTail, Link, LinkFails, Swing, HelpTail, list_vars
  <2>2. ASSUME NEW c \in Consumer, ConsumerStep(c) \/ Dequeue(c) \/ Cleanup(c) \/ StoresBecomeVisible(c)
        PROVE  UNCHANGED <<data, unsent>> \/ Take(c)
    BY <2>2 DEF ConsumerStep, Dequeue, LoadHead, ProtectHead, CheckHead, LoadNext, ProtectNext, RecheckHead,
       ReloadNext, CompareTail, ConsumerHelpsTail, MoveHead, MoveHeadFails, Retire, Cleanup, ReadHazardPointer,
       DeleteUnprotected, ClearAndReturn, StoresBecomeVisible, list_vars, consumer_frame
  <2>4. ASSUME NEW c \in Consumer, Destroy(c)
        PROVE  UNCHANGED <<data, unsent>>
    BY <2>4 DEF Destroy
  <2>3. UNCHANGED vars => UNCHANGED <<data, unsent>>
    BY DEF vars, list_vars
  <2> QED BY <2>1, <2>2, <2>3, <2>4 DEF Next, Done
<1>5. Goal
  <2> HIDE DEF Goal
  <2> QED BY <1>1, <1>2, <1>3, <1>4
<1> QED BY <1>5

LEMMA CarryingStep ==
  ASSUME FifoInv, [Next]_vars, NEW q \in Producer
  PROVE  Carrying(q)'
<1>0. Typed /\ Listed /\ Apart /\ Carrying(q) /\ QueueInv /\ Producer \cap Consumer = {}
  BY QueueAssumption DEF FifoInv, QueueInv
<1>1. ASSUME Making(q), new_node'[q] = new_node[q]
      PROVE  Carrying(q)'
  BY <1>0, <1>1, DataStays DEF Carrying
<1>2. ASSUME NEW v \in Value, NewNode(q, v)
      PROVE  Carrying(q)'
  <2>1. PICK m \in Node : data' = [data EXCEPT ![m] = v] /\ new_node' = [new_node EXCEPT ![q] = m]
    BY <1>2 DEF NewNode
  <2>2. new_node'[q] = m /\ data'[m] = v
    BY <1>0, <2>1 DEF Typed
  <2>3. v \notin unsent' /\ Source[v] = q
    BY <1>2 DEF NewNode
  <2> QED BY <2>2, <2>3 DEF Carrying
<1>3. ASSUME NEW th \in Thread, OnlyMoves(th), th # q
      PROVE  Carrying(q)'
  <2>1. (Making(q)' <=> Making(q)) /\ new_node'[q] = new_node[q]
    BY <1>3 DEF OnlyMoves, Making, Thread
  <2> QED BY <1>1, <2>1 DEF Carrying
<1>4. ASSUME QuietOf(q)
      PROVE  Carrying(q)'
  <2>1. (Making(q)' <=> Making(q)) /\ (Making(q) => new_node'[q] = new_node[q])
    BY <1>0, <1>4, QuietEffect DEF Quiet
  <2> QED BY <1>1, <2>1 DEF Carrying
<1>5. CASE Link(q)
  <2>1. ~Making(q)'
    <3>1. pc \in [Thread -> Label] /\ q \in Thread
      BY <1>0 DEF Typed, Thread
    <3> QED BY <1>5, <3>1 DEF Link, Goto, Making
  <2> QED BY <2>1 DEF Carrying
<1>6. ASSUME NEW p \in Producer, ProducerStep(p) \/ \E v \in Value : NewNode(p, v)
      PROVE  Carrying(q)'
  <2>1. OnlyMoves(p) /\ p \in Thread
    BY <1>0, <1>6, ProducerMoves
  <2> QED BY <1>2, <1>3, <1>4, <1>5, <1>6, <2>1 DEF ProducerStep, QuietOf
<1>7. ASSUME NEW c \in Consumer, ConsumerStep(c) \/ Dequeue(c) \/ Cleanup(c) \/ StoresBecomeVisible(c) \/ Destroy(c)
      PROVE  Carrying(q)'
  <2>1. OnlyMoves(c) /\ c \in Thread
    BY <1>0, <1>7, ConsumerMoves
  <2> QED BY <1>0, <1>3, <2>1
<1>8. CASE UNCHANGED vars
  BY <1>0, <1>8 DEF vars, list_vars, Carrying, Making
<1> QED BY <1>6, <1>7, <1>8 DEF Next, Done

LEMMA ListCarriesStep ==
  ASSUME FifoInv, [Next]_vars, NEW x \in InChain' \ {head'}
  PROVE  data'[x] \in Value
<1>0. Typed /\ Listed /\ Apart /\ QueueInv /\ \A m \in InChain \ {head} : data[m] \in Value
  BY DEF FifoInv, QueueInv
<1>1. CASE x \in InChain \ {head}
  BY <1>0, <1>1, DataStays
<1>2. ASSUME NEW p \in Producer, Link(p), x \notin InChain \ {head}
      PROVE  data'[x] \in Value
  <2>1. InChain' = InChain \cup {new_node[p]}
    BY <1>0, <1>2, LinkEffect
  <2>2. head' = head /\ data' = data /\ Making(p)
    BY <1>2 DEF Link, Making
  <2>3. x = new_node[p]
    BY <1>2, <2>1, <2>2
  <2> QED BY <2>2, <2>3 DEF FifoInv, Carrying
<1>3. (InChain' = InChain /\ head' = head) \/ (InChain' = InChain \ {head}) \/ (InChain' = {}) \/ \E p \in Producer : Link(p)
  <2>1. ASSUME NEW p \in Producer, NEW v \in Value, NewNode(p, v) PROVE InChain' = InChain /\ head' = head
    BY <1>0, <2>1, NewNodeEffect DEF NewNode
  <2>2. ASSUME NEW th, QuietOf(th) PROVE InChain' = InChain /\ head' = head
    BY <1>0, <2>2, QuietEffect
  <2>3. ASSUME NEW c \in Consumer, MoveHead(c) PROVE InChain' = InChain \ {head}
    BY <1>0, <2>3, MoveHeadEffect
  <2>4. ASSUME NEW c \in Consumer, Retire(c) PROVE InChain' = InChain /\ head' = head
    BY <1>0, <2>4, RetireEffect
  <2>5. ASSUME NEW c \in Consumer, DeleteUnprotected(c) PROVE InChain' = InChain /\ head' = head
    BY <1>0, <2>5, DeleteEffect
  <2>6. ASSUME NEW c \in Consumer, Destroy(c) PROVE InChain' = {}
    BY <1>0, <2>6, DestroyEffect
  <2>7. UNCHANGED vars => InChain' = InChain /\ head' = head
    BY DEF vars, list_vars, InChain, Chain
  <2> QED
    BY <2>1, <2>2, <2>3, <2>4, <2>5, <2>6, <2>7
    DEF Next, ProducerStep, ConsumerStep, Dequeue, Done, QuietOf
<1> QED BY <1>1, <1>2, <1>3

TakeStays(c) ==
  pc'[c] = "take" => (pc[c] = "take" /\ nxt'[c] = nxt[c]) \/ MoveHead(c)
ResultKept(c) ==
  /\ pc'[c] \notin {"retire", "scan", "clear"} => result'[c] = Nothing
  /\ pc'[c] = "scan" /\ snap'[c] = Null => result'[c] = Nothing
  /\ pc'[c] = "clear" => snap'[c] # Null

LEMMA TakesStay ==
  ASSUME FifoInv, [Next]_vars, NEW e \in Consumer
  PROVE  TakeStays(e)
<1> USE DEF Goto, Forget, list_vars, scan_vars, producer_frame, consumer_frame, TakeStays
<1>0. /\ pc \in [Thread -> Label] /\ Producer \cap Consumer = {}
      /\ Producer \subseteq Thread /\ Consumer \subseteq Thread
      /\ nxt \in [Thread -> Node \cup {Null}] /\ snap \in [Thread -> Node \cup {Null}]
      /\ result \in [Consumer -> Value \cup {Nothing}]
  BY QueueAssumption DEF FifoInv, QueueInv, Typed, Thread
<1>1. ASSUME NEW p \in Producer, NEW v \in Value, NewNode(p, v)
      PROVE  TakeStays(e)
  BY <1>0, <1>1 DEF NewNode
<1>2. ASSUME NEW p \in Producer, LoadTail(p)
      PROVE  TakeStays(e)
  BY <1>0, <1>2 DEF LoadTail
<1>3. ASSUME NEW p \in Producer, ReadNext(p)
      PROVE  TakeStays(e)
  BY <1>0, <1>3 DEF ReadNext
<1>4. ASSUME NEW p \in Producer, CheckTail(p)
      PROVE  TakeStays(e)
  BY <1>0, <1>4 DEF CheckTail
<1>5. ASSUME NEW p \in Producer, Link(p)
      PROVE  TakeStays(e)
  BY <1>0, <1>5 DEF Link
<1>6. ASSUME NEW p \in Producer, LinkFails(p)
      PROVE  TakeStays(e)
  BY <1>0, <1>6 DEF LinkFails
<1>7. ASSUME NEW p \in Producer, Swing(p)
      PROVE  TakeStays(e)
  BY <1>0, <1>7 DEF Swing
<1>8. ASSUME NEW p \in Producer, HelpTail(p)
      PROVE  TakeStays(e)
  BY <1>0, <1>8 DEF HelpTail
<1>9. ASSUME NEW c \in Consumer, LoadHead(c)
      PROVE  TakeStays(e)
  BY <1>0, <1>9 DEF LoadHead
<1>10. ASSUME NEW c \in Consumer, ProtectHead(c)
       PROVE  TakeStays(e)
  BY <1>0, <1>10 DEF ProtectHead
<1>11. ASSUME NEW c \in Consumer, CheckHead(c)
       PROVE  TakeStays(e)
  BY <1>0, <1>11 DEF CheckHead
<1>12. ASSUME NEW c \in Consumer, LoadNext(c)
       PROVE  TakeStays(e)
  BY <1>0, <1>12 DEF LoadNext
<1>13. ASSUME NEW c \in Consumer, ProtectNext(c)
       PROVE  TakeStays(e)
  BY <1>0, <1>13 DEF ProtectNext
<1>14. ASSUME NEW c \in Consumer, RecheckHead(c)
       PROVE  TakeStays(e)
  BY <1>0, <1>14 DEF RecheckHead
<1>15. ASSUME NEW c \in Consumer, ReloadNext(c)
       PROVE  TakeStays(e)
  BY <1>0, <1>15 DEF ReloadNext
<1>16. ASSUME NEW c \in Consumer, CompareTail(c)
       PROVE  TakeStays(e)
  BY <1>0, <1>16 DEF CompareTail
<1>17. ASSUME NEW c \in Consumer, ConsumerHelpsTail(c)
       PROVE  TakeStays(e)
  BY <1>0, <1>17 DEF ConsumerHelpsTail
<1>18. ASSUME NEW c \in Consumer, MoveHead(c)
       PROVE  TakeStays(e)
  BY <1>0, <1>18 DEF MoveHead
<1>19. ASSUME NEW c \in Consumer, MoveHeadFails(c)
       PROVE  TakeStays(e)
  BY <1>0, <1>19 DEF MoveHeadFails
<1>20. ASSUME NEW c \in Consumer, Take(c)
       PROVE  TakeStays(e)
  BY <1>0, <1>20 DEF Take
<1>21. ASSUME NEW c \in Consumer, Retire(c)
       PROVE  TakeStays(e)
  BY <1>0, <1>21 DEF Retire
<1>22. ASSUME NEW c \in Consumer, Cleanup(c)
       PROVE  TakeStays(e)
  BY <1>0, <1>22 DEF Cleanup
<1>23. ASSUME NEW c \in Consumer, NEW d \in Consumer, NEW i \in Slot, ReadHazardPointer(c, d, i)
       PROVE  TakeStays(e)
  BY <1>0, <1>23 DEF ReadHazardPointer
<1>24. ASSUME NEW c \in Consumer, DeleteUnprotected(c)
       PROVE  TakeStays(e)
  BY <1>0, <1>24 DEF DeleteUnprotected
<1>25. ASSUME NEW c \in Consumer, ClearAndReturn(c)
       PROVE  TakeStays(e)
  BY <1>0, <1>25 DEF ClearAndReturn
<1>26. ASSUME NEW c \in Consumer, StoresBecomeVisible(c)
       PROVE  TakeStays(e)
  BY <1>0, <1>26 DEF StoresBecomeVisible
<1>27. ASSUME NEW c \in Consumer, Destroy(c)
       PROVE  TakeStays(e)
  BY <1>0, <1>27 DEF Destroy
<1>28. CASE UNCHANGED vars
  BY <1>0, <1>28 DEF vars
<1> QED
  BY <1>1, <1>2, <1>3, <1>4, <1>5, <1>6, <1>7, <1>8, <1>9, <1>10, <1>11, <1>12, <1>13, <1>14,
     <1>15, <1>16, <1>17, <1>18, <1>19, <1>20, <1>21, <1>22, <1>23, <1>24, <1>25, <1>26, <1>27, <1>28
  DEF Next, ProducerStep, ConsumerStep, Dequeue, Done

LEMMA ResultsKept ==
  ASSUME FifoInv, [Next]_vars, NEW e \in Consumer
  PROVE  ResultKept(e)
<1> USE DEF Goto, Forget, list_vars, scan_vars, producer_frame, consumer_frame, ResultKept
<1>0. /\ pc \in [Thread -> Label] /\ Producer \cap Consumer = {}
      /\ Producer \subseteq Thread /\ Consumer \subseteq Thread
      /\ nxt \in [Thread -> Node \cup {Null}] /\ snap \in [Thread -> Node \cup {Null}]
      /\ result \in [Consumer -> Value \cup {Nothing}]
      /\ pc[e] \in {"compare tail", "retire"} => snap[e] # Null
      /\ pc[e] \notin {"retire", "scan", "clear"} => result[e] = Nothing
      /\ pc[e] = "scan" /\ snap[e] = Null => result[e] = Nothing
      /\ pc[e] = "clear" => snap[e] # Null
  BY QueueAssumption, Touched DEF FifoInv, QueueInv, Typed, Thread, Delivering, HeadKnown
<1>1. ASSUME NEW p \in Producer, NEW v \in Value, NewNode(p, v)
      PROVE  ResultKept(e)
  BY <1>0, <1>1 DEF NewNode
<1>2. ASSUME NEW p \in Producer, LoadTail(p)
      PROVE  ResultKept(e)
  BY <1>0, <1>2 DEF LoadTail
<1>3. ASSUME NEW p \in Producer, ReadNext(p)
      PROVE  ResultKept(e)
  BY <1>0, <1>3 DEF ReadNext
<1>4. ASSUME NEW p \in Producer, CheckTail(p)
      PROVE  ResultKept(e)
  BY <1>0, <1>4 DEF CheckTail
<1>5. ASSUME NEW p \in Producer, Link(p)
      PROVE  ResultKept(e)
  BY <1>0, <1>5 DEF Link
<1>6. ASSUME NEW p \in Producer, LinkFails(p)
      PROVE  ResultKept(e)
  BY <1>0, <1>6 DEF LinkFails
<1>7. ASSUME NEW p \in Producer, Swing(p)
      PROVE  ResultKept(e)
  BY <1>0, <1>7 DEF Swing
<1>8. ASSUME NEW p \in Producer, HelpTail(p)
      PROVE  ResultKept(e)
  BY <1>0, <1>8 DEF HelpTail
<1>9. ASSUME NEW c \in Consumer, LoadHead(c)
      PROVE  ResultKept(e)
  BY <1>0, <1>9 DEF LoadHead
<1>10. ASSUME NEW c \in Consumer, ProtectHead(c)
       PROVE  ResultKept(e)
  BY <1>0, <1>10 DEF ProtectHead
<1>11. ASSUME NEW c \in Consumer, CheckHead(c)
       PROVE  ResultKept(e)
  BY <1>0, <1>11 DEF CheckHead
<1>12. ASSUME NEW c \in Consumer, LoadNext(c)
       PROVE  ResultKept(e)
  BY <1>0, <1>12 DEF LoadNext
<1>13. ASSUME NEW c \in Consumer, ProtectNext(c)
       PROVE  ResultKept(e)
  BY <1>0, <1>13 DEF ProtectNext
<1>14. ASSUME NEW c \in Consumer, RecheckHead(c)
       PROVE  ResultKept(e)
  BY <1>0, <1>14 DEF RecheckHead
<1>15. ASSUME NEW c \in Consumer, ReloadNext(c)
       PROVE  ResultKept(e)
  BY <1>0, <1>15 DEF ReloadNext
<1>16. ASSUME NEW c \in Consumer, CompareTail(c)
       PROVE  ResultKept(e)
  BY <1>0, <1>16 DEF CompareTail
<1>17. ASSUME NEW c \in Consumer, ConsumerHelpsTail(c)
       PROVE  ResultKept(e)
  BY <1>0, <1>17 DEF ConsumerHelpsTail
<1>18. ASSUME NEW c \in Consumer, MoveHead(c)
       PROVE  ResultKept(e)
  BY <1>0, <1>18 DEF MoveHead
<1>19. ASSUME NEW c \in Consumer, MoveHeadFails(c)
       PROVE  ResultKept(e)
  BY <1>0, <1>19 DEF MoveHeadFails
<1>20. ASSUME NEW c \in Consumer, Take(c)
       PROVE  ResultKept(e)
  BY <1>0, <1>20 DEF Take
<1>21. ASSUME NEW c \in Consumer, Retire(c)
       PROVE  ResultKept(e)
  BY <1>0, <1>21 DEF Retire
<1>22. ASSUME NEW c \in Consumer, Cleanup(c)
       PROVE  ResultKept(e)
  BY <1>0, <1>22 DEF Cleanup
<1>23. ASSUME NEW c \in Consumer, NEW d \in Consumer, NEW i \in Slot, ReadHazardPointer(c, d, i)
       PROVE  ResultKept(e)
  BY <1>0, <1>23 DEF ReadHazardPointer
<1>24. ASSUME NEW c \in Consumer, DeleteUnprotected(c)
       PROVE  ResultKept(e)
  BY <1>0, <1>24 DEF DeleteUnprotected
<1>25. ASSUME NEW c \in Consumer, ClearAndReturn(c)
       PROVE  ResultKept(e)
  BY <1>0, <1>25 DEF ClearAndReturn
<1>26. ASSUME NEW c \in Consumer, StoresBecomeVisible(c)
       PROVE  ResultKept(e)
  BY <1>0, <1>26 DEF StoresBecomeVisible
<1>27. ASSUME NEW c \in Consumer, Destroy(c)
       PROVE  ResultKept(e)
  BY <1>0, <1>27 DEF Destroy
<1>28. CASE UNCHANGED vars
  BY <1>0, <1>28 DEF vars
<1> QED
  BY <1>1, <1>2, <1>3, <1>4, <1>5, <1>6, <1>7, <1>8, <1>9, <1>10, <1>11, <1>12, <1>13, <1>14,
     <1>15, <1>16, <1>17, <1>18, <1>19, <1>20, <1>21, <1>22, <1>23, <1>24, <1>25, <1>26, <1>27, <1>28
  DEF Next, ProducerStep, ConsumerStep, Dequeue, Done

LEMMA DeliveringStep ==
  ASSUME FifoInv, [Next]_vars, Alone \/ NeverScans, NEW e \in Consumer
  PROVE  Delivering(e)'
<1>0. /\ Typed /\ Listed /\ Apart /\ QueueInv /\ Delivering(e) /\ Dequeuing(e)
      /\ TakeStays(e) /\ ResultKept(e)
  BY TakesStay, ResultsKept DEF FifoInv, QueueInv
<1>1. ASSUME pc[e] = "take", NEW m, m = head \/ Past(m), m = nxt[e]
      PROVE  m = head' \/ Past(m)'
  <2>1. CASE Steady
    BY <1>1, <2>1 DEF Steady
  <2>2. ASSUME NEW c \in Consumer, DeleteUnprotected(c)
        PROVE  m = head' \/ Past(m)'
    <3>1. /\ head' = head /\ InChain' = InChain /\ nxt' = nxt
          /\ \A x : Hooked(x)' => x \in InChain \/ Past(x)'
      BY <1>0, <2>2, DeleteEffect DEF Hooked
    <3>2. Hooked(nxt[e])' /\ nxt[e] # Null
      BY <1>0, <1>1, <2>2, DeleteSpares DEF Dequeuing, NextRead, NextKnown
    <3>3. Past(m) => m \notin InChain
      BY <1>0, HookedFacts DEF Hooked, Apart
    <3> QED BY <1>1, <3>1, <3>2, <3>3
  <2>3. ASSUME NEW c \in Consumer, Destroy(c)
        PROVE  FALSE
    BY <1>0, <1>1, <2>3, DestroyEffect DEF Thread
  <2>4. CASE UNCHANGED vars
    BY <1>1, <2>4 DEF vars, list_vars, scan_vars, Past, Taking
  <2>5. \/ Steady \/ UNCHANGED vars
        \/ \E c \in Consumer : DeleteUnprotected(c) \/ Destroy(c)
    <3>1. ASSUME NEW p \in Producer, ProducerStep(p) \/ \E v \in Value : NewNode(p, v)
          PROVE  Steady
      BY <1>0, <3>1, QuietEffect, LinkEffect, NewNodeEffect DEF ProducerStep, QuietOf
    <3>2. ASSUME NEW c \in Consumer, ConsumerStep(c) \/ Dequeue(c) \/ Cleanup(c) \/ StoresBecomeVisible(c)
          PROVE  Steady \/ DeleteUnprotected(c)
      BY <1>0, <3>2, QuietEffect, MoveHeadEffect, RetireEffect DEF ConsumerStep, Dequeue, QuietOf
    <3> QED BY <3>1, <3>2 DEF Next, Done
  <2> QED BY <2>1, <2>2, <2>3, <2>4, <2>5
<1>2. ASSUME (pc[e] = "take")'
      PROVE  (nxt'[e] = head' \/ Past(nxt[e])') /\ data'[nxt'[e]] \in Value
  <2>1. CASE MoveHead(e)
    <3>1. head' = nxt[e] /\ nxt' = nxt /\ nxt[e] = next[head] /\ nxt[e] \in InChain /\ head \in InChain
      BY <1>0, <2>1, MoveHeadEffect
    <3>2. nxt[e] \in InChain \ {head}
      BY <1>0, <3>1, ChainFacts
    <3>3. data'[nxt[e]] \in Value
      BY <3>2, DataStays DEF FifoInv
    <3> QED BY <3>1, <3>3
  <2>2. CASE pc[e] = "take" /\ nxt'[e] = nxt[e]
    <3>1. nxt[e] = head \/ Past(nxt[e])
      BY <1>0, <2>2 DEF Delivering
    <3>2. \A m : m = nxt'[e] => m = head' \/ Past(m)'
      BY <1>1, <2>2, <3>1
    <3>3. ~Take(e)
      <4>1. pc \in [Thread -> Label] /\ e \in Thread
        BY <1>0 DEF Typed, Thread
      <4> QED BY <1>2, <4>1 DEF Take, Goto
    <3>4. data'[nxt[e]] = data[nxt[e]]
      BY <2>2, <3>3, DataStays
    <3> QED BY <1>0, <2>2, <3>2, <3>4 DEF Delivering
  <2> QED BY <1>0, <1>2, <2>1, <2>2 DEF TakeStays
<1> QED BY <1>0, <1>2 DEF Delivering, ResultKept

LEMMA FifoInit ==
  ASSUME Init
  PROVE  FifoInv
<1>1. QueueInv
  BY QueueInit
<1>2. \A th \in Thread : pc[th] = "idle"
  BY DEF Init
<1>3. \A c \in Consumer : result[c] = Nothing
  BY DEF Init
<1>4. InChain = {head}
  <2>1. PICK dummy \in Node : head = dummy
    BY DEF Init
  <2>2. next[dummy] = Null
    BY DEF Init
  <2>3. IsList(<<dummy>>, head, next)
    BY <2>1, <2>2 DEF IsList
  <2>4. Chain = <<dummy>>
    BY <2>3, NodesIs DEF Chain
  <2> QED BY <2>1, <2>4 DEF InChain
<1> QED BY <1>1, <1>2, <1>3, <1>4 DEF FifoInv, Carrying, Delivering, Making, Thread

LEMMA FifoStep ==
  ASSUME FifoInv, [Next]_vars, Alone \/ NeverScans
  PROVE  FifoInv'
<1>1. QueueInv'
  BY QueueStep DEF FifoInv
<1>2. \A p \in Producer : Carrying(p)'
  BY CarryingStep
<1>3. \A m \in InChain' \ {head'} : data'[m] \in Value
  BY ListCarriesStep
<1>4. \A c \in Consumer : Delivering(c)'
  BY DeliveringStep
<1>5. ASSUME NEW c \in Consumer, NEW d \in Consumer,
             pc'[c] = "take", pc'[d] = "take", nxt'[c] = nxt'[d]
      PROVE  c = d
  <2>0. Typed /\ Listed /\ Apart /\ QueueInv /\ TakeStays(c) /\ TakeStays(d)
    BY TakesStay DEF FifoInv, QueueInv
  <2>1. ASSUME NEW x \in Consumer, NEW y \in Consumer, MoveHead(x), pc[y] = "take"
        PROVE  nxt'[x] = nxt[x] /\ nxt[x] # nxt[y]
    <3>1. nxt' = nxt /\ nxt[x] = next[head] /\ nxt[x] \in InChain /\ head \in InChain
      BY <2>0, <2>1, MoveHeadEffect
    <3>2. nxt[x] \in InChain \ {head}
      BY <2>0, <3>1, ChainFacts
    <3> QED BY <2>1, <3>1, <3>2, TakenIsHooked
  <2>2. CASE pc[c] = "take" /\ nxt'[c] = nxt[c] /\ pc[d] = "take" /\ nxt'[d] = nxt[d]
    BY <1>5, <2>2 DEF FifoInv
  <2>3. CASE MoveHead(c) /\ pc[d] = "take" /\ nxt'[d] = nxt[d]
    BY <1>5, <2>1, <2>3
  <2>4. CASE MoveHead(d) /\ pc[c] = "take" /\ nxt'[c] = nxt[c]
    BY <1>5, <2>1, <2>4
  <2>5. CASE MoveHead(c) /\ MoveHead(d)
    <3>1. OnlyMoves(c) /\ ~Taking(d) /\ Taking(d)'
      BY <2>0, <2>5, MoveHeadEffect
    <3> QED BY <3>1 DEF OnlyMoves, Taking, Thread
  <2> QED BY <1>5, <2>0, <2>2, <2>3, <2>4, <2>5 DEF TakeStays
<1> QED BY <1>1, <1>2, <1>3, <1>4, <1>5 DEF FifoInv

-------------------------------------------------------------------------------
(* The queue its callers see.                                              *)

LEMMA ContentsStay ==
  ASSUME FifoInv, [Next]_vars, Chain' = Chain, destroyed' = destroyed
  PROVE  Contents' = Contents
<1>1. CASE destroyed
  BY <1>1 DEF Contents
<1>2. CASE ~destroyed
  <2>1. IsList(Chain, head, next)
    BY <1>2 DEF FifoInv, QueueInv, Listed
  <2>2. \A i \in 1 .. Len(Chain) - 1 : Chain[i + 1] \in InChain \ {head}
    <3>1. Chain \in Seq(Node) /\ Len(Chain) \in Nat \ {0} /\ DOMAIN Chain = 1 .. Len(Chain)
      BY <2>1 DEF IsList
    <3>2. \A i \in 1 .. Len(Chain) - 1 : i + 1 \in 1 .. Len(Chain) /\ i + 1 # 1 /\ 1 \in 1 .. Len(Chain)
      BY <3>1
    <3> QED BY <2>1, <3>1, <3>2 DEF IsList, InChain
  <2>3. \A i \in 1 .. Len(Chain) - 1 : data'[Chain[i + 1]] = data[Chain[i + 1]]
    BY <2>2, DataStays
  <2>4. Items' = Items
    BY <2>3 DEF Items
  <2> QED BY <1>2, <2>4 DEF Contents
<1> QED BY <1>1, <1>2

LEMMA TodoStays ==
  ASSUME FifoInv, [Next]_vars, unsent' = unsent,
         \A p \in Producer : (Making(p)' <=> Making(p)) /\ (Making(p) => new_node'[p] = new_node[p])
  PROVE  Todo' = Todo
<1>1. \A x : x \in Todo <=> x \in unsent \/ \E p \in Producer : Making(p) /\ x = data[new_node[p]]
  BY DEF Todo, Private, Making
<1>2. \A x : x \in Todo' <=> x \in unsent' \/ \E p \in Producer : Making(p)' /\ x = data'[new_node'[p]]
  BY DEF Todo, Private, Making
<1> QED BY <1>1, <1>2, DataStays

LEMMA AnswersStay ==
  ASSUME \A c \in Consumer : Answer(c)' = Answer(c)
  PROVE  Answers' = Answers
BY DEF Answers

LEMMA AnswersChange ==
  ASSUME NEW c \in Consumer, NEW x, Answer(c)' = x, \A d \in Consumer \ {c} : Answer(d)' = Answer(d)
  PROVE  Answers' = [Answers EXCEPT ![c] = x]
BY DEF Answers

\* A step of th changes the answer of no other call.
LEMMA OtherAnswers ==
  ASSUME FifoInv, [Next]_vars, NEW th, OnlyMoves(th), NEW c \in Consumer, c # th,
         result'[c] = result[c]
  PROVE  Answer(c)' = Answer(c)
<1>1. pc'[c] = pc[c] /\ snap'[c] = snap[c] /\ nxt'[c] = nxt[c]
  BY DEF OnlyMoves, Thread
<1>2. ~Take(c)
  <2>1. pc \in [Thread -> Label] /\ c \in Thread
    BY DEF FifoInv, QueueInv, Typed, Thread
  <2> QED BY <1>1, <2>1 DEF Take, Goto
<1>3. pc[c] = "take" => data'[nxt[c]] = data[nxt[c]]
  BY <1>2, DataStays
<1> QED BY <1>1, <1>3 DEF Answer

LEMMA ProducersMap ==
  ASSUME FifoInv, [Next]_vars, NEW p \in Producer, ProducerStep(p) \/ \E v \in Value : NewNode(p, v)
  PROVE  (\E v \in Value : Abs!Enqueue(v)) \/ UNCHANGED Abs!vars
<1>0. Typed /\ Listed /\ Apart /\ QueueInv /\ Carrying(p)
  BY DEF FifoInv, QueueInv
<1>1. OnlyMoves(p) /\ p \notin Consumer /\ UNCHANGED <<head, destroyed>>
  BY <1>0, ProducerMoves
<1>2. result' = result
  <2>1. ASSUME NEW v \in Value, NewNode(p, v) PROVE result' = result
    BY <2>1 DEF NewNode, producer_frame
  <2>2. ASSUME ProducerStep(p) PROVE result' = result
    BY <2>2 DEF ProducerStep, LoadTail, ReadNext, CheckTail, Link, LinkFails, Swing, HelpTail, producer_frame
  <2> QED BY <2>1, <2>2
<1>3. Answers' = Answers
  BY <1>1, <1>2, OtherAnswers, AnswersStay
<1>4. ASSUME NEW v \in Value, NewNode(p, v)
      PROVE  UNCHANGED Abs!vars
  <2>1. Chain' = Chain
    BY <1>0, <1>4, NewNodeEffect
  <2>2. Contents' = Contents
    BY <1>1, <2>1, ContentsStay
  <2>3. PICK m \in Node : data' = [data EXCEPT ![m] = v] /\ new_node' = [new_node EXCEPT ![p] = m]
    BY <1>4 DEF NewNode
  <2>4. /\ new_node'[p] = m /\ data'[m] = v /\ ~Making(p) /\ Making(p)'
        /\ \A q \in Producer \ {p} : (Making(q)' <=> Making(q)) /\ new_node'[q] = new_node[q]
    <3>1. pc \in [Thread -> Label] /\ p \in Thread /\ data \in [Node -> Value \cup {Nothing}]
          /\ new_node \in [Producer -> Node \cup {Null}]
      BY <1>0 DEF Typed, Thread
    <3>2. pc[p] = "idle" /\ pc'[p] = "load tail"
      BY <1>4, <3>1 DEF NewNode, Goto
    <3>3. \A q \in Producer \ {p} : (Making(q)' <=> Making(q)) /\ new_node'[q] = new_node[q]
      BY <1>1 DEF OnlyMoves, Making, Thread
    <3> QED BY <2>3, <3>1, <3>2, <3>3 DEF Making
  <2>5. v \in unsent /\ unsent' = unsent \ {v}
    BY <1>4 DEF NewNode
  <2>6. \A x : x \in Todo <=> x \in unsent \/ \E q \in Producer : Making(q) /\ x = data[new_node[q]]
    BY DEF Todo, Private, Making
  <2>7. \A x : x \in Todo' <=> x \in unsent' \/ \E q \in Producer : Making(q)' /\ x = data'[new_node'[q]]
    BY DEF Todo, Private, Making
  <2>8. \A q \in Producer \ {p} : Making(q) => data'[new_node[q]] = data[new_node[q]]
    BY DataStays
  <2>9. Todo' = Todo
    BY <2>4, <2>5, <2>6, <2>7, <2>8
  <2> QED BY <1>3, <2>2, <2>9 DEF Abs!vars
<1>5. ASSUME QuietOf(p)
      PROVE  UNCHANGED Abs!vars
  <2>1. /\ Chain' = Chain
        /\ \A q \in Producer : (Making(q)' <=> Making(q)) /\ (Making(q) => new_node'[q] = new_node[q])
    BY <1>0, <1>5, QuietEffect, QuietFacts DEF Quiet
  <2>2. unsent' = unsent
    BY <1>1, <1>5 DEF QuietOf, LoadTail, ReadNext, CheckTail, LinkFails, Swing, HelpTail
  <2> QED BY <1>1, <1>3, <2>1, <2>2, ContentsStay, TodoStays DEF Abs!vars
<1>6. ASSUME Link(p)
      PROVE  \E v \in Value : Abs!Enqueue(v)
  <2> DEFINE v == data[new_node[p]]
             N == Len(Chain)
  <2>1. /\ ~destroyed /\ Chain' = Append(Chain, new_node[p]) /\ new_node[p] \in Node
        /\ data' = data /\ unsent' = unsent /\ new_node' = new_node
    BY <1>0, <1>6, LinkEffect DEF Link
  <2>2. Making(p) /\ ~Making(p)' /\ \A q \in Producer \ {p} : Making(q)' <=> Making(q)
    <3>1. pc \in [Thread -> Label] /\ p \in Thread
      BY <1>0 DEF Typed, Thread
    <3>2. Making(p) /\ ~Making(p)'
      BY <1>6, <3>1 DEF Link, Goto, Making
    <3> QED BY <1>1, <3>2 DEF OnlyMoves, Making, Thread
  <2>3. v \in Value /\ v \notin unsent /\ \A q \in Producer \ {p} : Making(q) => data[new_node[q]] # v
    BY <2>2 DEF FifoInv, Carrying
  <2>4. \A x : x \in Todo <=> x \in unsent \/ \E q \in Producer : Making(q) /\ x = data[new_node[q]]
    BY DEF Todo, Private, Making
  <2>5. \A x : x \in Todo' <=> x \in unsent' \/ \E q \in Producer : Making(q)' /\ x = data'[new_node'[q]]
    BY DEF Todo, Private, Making
  <2>6. v \in Todo /\ Todo' = Todo \ {v}
    BY <2>1, <2>2, <2>3, <2>4, <2>5
  <2>7. Chain \in Seq(Node) /\ N \in Nat \ {0}
    <3>1. IsList(Chain, head, next)
      BY <1>0, <2>1 DEF Listed
    <3> QED BY <3>1 DEF IsList
  <2>8. Len(Chain') = N + 1 /\ Chain'[N + 1] = new_node[p] /\ \A i \in 1 .. N : Chain'[i] = Chain[i]
    BY <2>1, <2>7
  <2>9. Items = [i \in 1 .. N - 1 |-> data[Chain[i + 1]]]
    BY DEF Items
  <2>10. Items' = [i \in 1 .. N |-> data[Chain'[i + 1]]]
    <3>1. Items' = [i \in 1 .. Len(Chain') - 1 |-> data'[Chain'[i + 1]]]
      BY DEF Items
    <3>2. Len(Chain') - 1 = N
      BY <2>7, <2>8
    <3> QED BY <2>1, <3>1, <3>2
  <2>11. Contents' = Append(Contents, v)
    <3>1. Contents = Items /\ Contents' = Items'
      BY <1>1, <2>1 DEF Contents
    <3>2. \A i \in 1 .. N - 1 : Items'[i] = Items[i]
      <4>1. \A i \in 1 .. N - 1 : i \in 1 .. N /\ i + 1 \in 1 .. N
        BY <2>7
      <4> QED BY <2>8, <2>9, <2>10, <4>1
    <3>3. Items'[N] = v
      <4>1. N \in 1 .. N
        BY <2>7
      <4> QED BY <2>8, <2>10, <4>1
    <3>4. Len(Items) = N - 1
      BY <2>7, <2>9
    <3>5. Append(Items, v) = [i \in 1 .. N |-> IF i = N THEN v ELSE Items[i]]
      <4>1. Append(Items, v) = [i \in 1 .. Len(Items) + 1 |-> IF i = Len(Items) + 1 THEN v ELSE Items[i]]
        <5> HIDE DEF v
        <5> QED BY <2>7, <2>9
      <4>2. Len(Items) + 1 = N
        BY <2>7, <3>4
      <4> QED BY <4>1, <4>2
    <3> HIDE DEF v, N
    <3>6. \A i \in 1 .. N : i = N \/ i \in 1 .. N - 1
      BY <2>7
    <3> QED BY <2>10, <3>1, <3>2, <3>3, <3>5, <3>6
  <2> HIDE DEF v
  <2> QED BY <1>3, <2>3, <2>6, <2>11 DEF Abs!Enqueue
<1> QED BY <1>4, <1>5, <1>6 DEF ProducerStep, QuietOf

LEMMA ConsumerLeaves ==
  ASSUME FifoInv, [Next]_vars, NEW c \in Consumer,
         ConsumerStep(c) \/ Dequeue(c) \/ Cleanup(c) \/ StoresBecomeVisible(c) \/ Destroy(c)
  PROVE  /\ Todo' = Todo /\ \A d \in Consumer \ {c} : Answer(d)' = Answer(d)
         /\ (~MoveHead(c) /\ ~Destroy(c)) => Contents' = Contents
<1>0. Typed /\ Listed /\ Apart /\ QueueInv
  BY DEF FifoInv, QueueInv
<1>1. OnlyMoves(c) /\ c \notin Producer /\ UNCHANGED <<new_node, unsent>>
  BY <1>0, ConsumerMoves
<1>2. \A p \in Producer : (Making(p)' <=> Making(p)) /\ new_node'[p] = new_node[p]
  BY <1>1 DEF OnlyMoves, Making, Thread
<1>3. Todo' = Todo
  BY <1>1, <1>2, TodoStays
<1>4. \A d \in Consumer \ {c} : result'[d] = result[d]
  <2>1. \/ result' = result \/ result' = [result EXCEPT ![c] = data[nxt[c]]]
        \/ result' = [result EXCEPT ![c] = Nothing]
    <3>1. CASE Destroy(c)
      BY <3>1 DEF Destroy
    <3>2. CASE ConsumerStep(c) \/ Dequeue(c) \/ Cleanup(c) \/ StoresBecomeVisible(c)
      BY <3>2 DEF ConsumerStep, Dequeue, LoadHead, ProtectHead, CheckHead, LoadNext, ProtectNext, RecheckHead,
       ReloadNext, CompareTail, ConsumerHelpsTail, MoveHead, MoveHeadFails, Take, Retire, Cleanup,
       ReadHazardPointer, DeleteUnprotected, ClearAndReturn, StoresBecomeVisible
    <3> QED BY <3>1, <3>2
  <2>2. result \in [Consumer -> Value \cup {Nothing}]
    BY <1>0 DEF Typed
  <2> QED BY <2>1, <2>2
<1>5. \A d \in Consumer \ {c} : Answer(d)' = Answer(d)
  BY <1>1, <1>4, OtherAnswers
<1>6. ASSUME ~MoveHead(c), ~Destroy(c) PROVE Contents' = Contents
  <2>1. CASE QuietOf(c)
    <3>1. Chain' = Chain /\ destroyed' = destroyed
      BY <1>0, <2>1, QuietEffect, QuietFacts
    <3> QED BY <3>1, ContentsStay
  <2>2. CASE Retire(c)
    BY <1>0, <2>2, RetireEffect, ContentsStay
  <2>3. CASE DeleteUnprotected(c)
    BY <1>0, <2>3, DeleteEffect, ContentsStay
  <2> QED BY <1>6, <2>1, <2>2, <2>3 DEF ConsumerStep, Dequeue, QuietOf
<1> QED BY <1>3, <1>5, <1>6

\* What a consumer's own step does to the answer of its call.
AnswerMoves(c) ==
  \/ Answer(c)' = Answer(c)
  \/ Answer(c) = Idle /\ Answer(c)' = Open
  \/ Answer(c) = Open /\ Answer(c)' = Empty /\ Contents = <<>>
  \/ Answer(c) = Empty /\ Answer(c)' = Open
  \/ Answer(c) \notin {Idle, Open} /\ Answer(c)' = Idle

LEMMA AnswersMove ==
  ASSUME FifoInv, [Next]_vars, NEW c \in Consumer,
         ConsumerStep(c) \/ Dequeue(c) \/ Cleanup(c) \/ StoresBecomeVisible(c), ~MoveHead(c)
  PROVE  AnswerMoves(c)
<1>0. Typed /\ Listed /\ Apart /\ QueueInv /\ Delivering(c) /\ Dequeuing(c)
  BY DEF FifoInv, QueueInv
<1>T. /\ pc \in [Thread -> Label] /\ snap \in [Thread -> Node \cup {Null}] /\ c \in Thread
      /\ nxt \in [Thread -> Node \cup {Null}] /\ result \in [Consumer -> Value \cup {Nothing}]
      /\ Null \notin Node
  BY <1>0, QueueAssumption DEF Typed, Thread
<1>V. \A v \in Value : v \notin {Nothing, Idle, Open, Empty}
  BY QueueAssumption DEF Idle, Open, Empty
<1> DEFINE Opened == {"load head", "protect head", "check head", "load next", "protect next", "recheck head",
                      "reload next", "help tail", "move head"}
<1>O. pc[c] \in Opened => Answer(c) = Open
  BY DEF Answer
<1>P. pc'[c] \in Opened => Answer(c)' = Open
  BY DEF Answer
<1> HIDE DEF Opened
<1>1. CASE LoadHead(c)
  <2>1. pc'[c] = "protect head" /\ (pc[c] = "idle" \/ pc[c] = "load head")
    BY <1>1, <1>T DEF LoadHead, Goto
  <2>2. pc[c] = "idle" => Answer(c) = Idle
    BY DEF Answer
  <2> QED BY <1>O, <1>P, <2>1, <2>2 DEF AnswerMoves, Opened
<1>2. CASE ProtectHead(c) \/ CheckHead(c) \/ LoadNext(c) \/ ProtectNext(c) \/ RecheckHead(c)
           \/ ConsumerHelpsTail(c) \/ MoveHeadFails(c)
  <2>1. pc[c] \in Opened /\ pc'[c] \in Opened
    BY <1>2, <1>T DEF ProtectHead, CheckHead, LoadNext, ProtectNext, RecheckHead, ConsumerHelpsTail,
                      MoveHeadFails, Goto, Opened
  <2> QED BY <1>O, <1>P, <2>1 DEF AnswerMoves
<1>3. CASE ReloadNext(c)
  <2>1. /\ pc[c] = "reload next" /\ nxt' = nxt
        /\ pc'[c] = IF next[snap[c]] = nxt[c] THEN "compare tail" ELSE "load head"
    BY <1>3, <1>T DEF ReloadNext, Goto
  <2>2. CASE next[snap[c]] # nxt[c]
    BY <1>O, <1>P, <2>1, <2>2 DEF AnswerMoves, Opened
  <2>3. CASE next[snap[c]] = nxt[c] /\ nxt[c] # Null
    <3>1. Answer(c)' = Open
      BY <2>1, <2>3 DEF Answer
    <3> QED BY <1>O, <2>1, <3>1 DEF AnswerMoves, Opened
  <2>4. CASE next[snap[c]] = nxt[c] /\ nxt[c] = Null
    <3>1. Answer(c)' = Empty
      BY <2>1, <2>4 DEF Answer
    <3>2. snap[c] = head /\ ~destroyed
      BY <1>0, <2>1, <2>4 DEF Dequeuing, HeadKnown, Apart, Listed
    <3>3. IsList(Chain, head, next)
      BY <1>0, <3>2 DEF Listed
    <3>4. Len(Chain) = 1
      <4>1. Chain \in Seq(Node) /\ Len(Chain) \in Nat \ {0} /\ Chain[1] = head
        BY <3>3 DEF IsList
      <4>2. ASSUME Len(Chain) # 1 PROVE FALSE
        <5>1. \A n \in Nat \ {0} : n # 1 => 1 \in 1 .. n - 1 /\ 1 + 1 \in 1 .. n
          OBVIOUS
        <5>2. 1 \in 1 .. Len(Chain) - 1 /\ 1 + 1 \in 1 .. Len(Chain)
          BY <4>1, <4>2, <5>1
        <5>3. next[head] = Chain[1 + 1] /\ Chain[1 + 1] \in Node
          BY <3>3, <4>1, <5>2 DEF IsList
        <5> QED BY <1>T, <2>4, <3>2, <5>3
      <4> QED BY <4>2
    <3>5. Contents = <<>>
      <4>1. Items = [i \in 1 .. 0 |-> data[Chain[i + 1]]]
        BY <3>4 DEF Items
      <4> QED BY <3>2, <4>1 DEF Contents
    <3> QED BY <1>O, <2>1, <3>1, <3>5 DEF AnswerMoves, Opened
  <2> QED BY <2>2, <2>3, <2>4
<1>4. CASE CompareTail(c)
  <2>1. pc[c] = "compare tail" /\ UNCHANGED <<snap, nxt, result>> /\ result[c] = Nothing /\ snap[c] # Null
    BY <1>0, <1>4, <1>T DEF CompareTail, Delivering, Dequeuing, HeadKnown
  <2>2. CASE nxt[c] # Null
    <3>1. pc'[c] \in {"help tail", "move head"}
      BY <1>4, <1>T, <2>2 DEF CompareTail, Goto
    <3>2. Answer(c) = Open
      BY <2>1, <2>2 DEF Answer
    <3> QED BY <1>P, <3>1, <3>2 DEF AnswerMoves, Opened
  <2>3. CASE nxt[c] = Null
    <3>1. pc'[c] \in {"clear", "load head"}
      BY <1>4, <1>T, <2>3 DEF CompareTail, Goto
    <3>2. Answer(c) = Empty
      BY <2>1, <2>3 DEF Answer
    <3>3. pc'[c] = "clear" => Answer(c)' = Empty
      BY <2>1 DEF Answer
    <3> QED BY <1>P, <3>1, <3>2, <3>3 DEF AnswerMoves, Opened
  <2> QED BY <2>2, <2>3
<1>5. CASE Take(c)
  <2>1. pc[c] = "take" /\ result'[c] = data[nxt[c]] /\ pc'[c] = "retire" /\ snap' = snap
    BY <1>5, <1>T DEF Take, Goto
  <2>2. snap[c] # Null /\ data[nxt[c]] # Nothing
    BY <1>0, <1>T, <1>V, <2>1 DEF Apart, Taking, Delivering
  <2>3. Answer(c) = data[nxt[c]]
    BY <2>1 DEF Answer
  <2>4. Answer(c)' = data[nxt[c]]
    BY <2>1, <2>2 DEF Answer
  <2> QED BY <2>3, <2>4 DEF AnswerMoves
<1>6. CASE Retire(c)
  <2>1. pc[c] = "retire" /\ pc'[c] \in {"scan", "clear"} /\ UNCHANGED <<snap, result>>
    BY <1>6, <1>T DEF Retire, Goto
  <2>2. snap[c] # Null
    BY <1>0, <1>T, <2>1 DEF Apart, Taking
  <2>3. Answer(c)' = Answer(c)
    BY <2>1, <2>2 DEF Answer
  <2> QED BY <2>3 DEF AnswerMoves
<1>7. CASE Cleanup(c)
  <2>1. pc[c] = "idle" /\ pc'[c] = "scan" /\ snap' = snap /\ snap[c] = Null
    BY <1>0, <1>7, <1>T DEF Cleanup, Goto, Dequeuing
  <2>2. Answer(c)' = Answer(c)
    BY <2>1 DEF Answer
  <2> QED BY <2>2 DEF AnswerMoves
<1>8. CASE StoresBecomeVisible(c) \/ \E d \in Consumer, i \in Slot : ReadHazardPointer(c, d, i)
  <2>1. UNCHANGED <<pc, snap, nxt, data, result>>
    BY <1>8 DEF StoresBecomeVisible, ReadHazardPointer, list_vars
  <2>2. Answer(c)' = Answer(c)
    BY <2>1 DEF Answer
  <2> QED BY <2>2 DEF AnswerMoves
<1>9. CASE DeleteUnprotected(c)
  <2>1. /\ pc[c] = "scan" /\ UNCHANGED <<snap, result>>
        /\ pc'[c] = IF snap[c] = Null THEN "idle" ELSE "clear"
    BY <1>9, <1>T DEF DeleteUnprotected, Goto
  <2>2. Answer(c)' = Answer(c)
    BY <2>1 DEF Answer
  <2> QED BY <2>2 DEF AnswerMoves
<1>10. CASE ClearAndReturn(c)
  <2>1. pc[c] = "clear" /\ pc'[c] = "idle" /\ snap[c] # Null
    BY <1>0, <1>10, <1>T DEF ClearAndReturn, Goto, Delivering
  <2>2. Answer(c)' = Idle
    BY <2>1 DEF Answer
  <2>3. Answer(c) = IF result[c] = Nothing THEN Empty ELSE result[c]
    BY <2>1 DEF Answer
  <2>4. Empty \notin {Idle, Open}
    BY DEF Empty, Idle, Open
  <2>5. result[c] \in Value \cup {Nothing}
    BY <1>T
  <2>6. Answer(c) \notin {Idle, Open}
    BY <1>V, <2>3, <2>4, <2>5
  <2> QED BY <2>2, <2>6 DEF AnswerMoves
<1> QED
  BY <1>1, <1>2, <1>3, <1>4, <1>5, <1>6, <1>7, <1>8, <1>9, <1>10 DEF ConsumerStep, Dequeue

LEMMA ConsumersMap ==
  ASSUME FifoInv, [Next]_vars, NEW c \in Consumer,
         ConsumerStep(c) \/ Dequeue(c) \/ Cleanup(c) \/ StoresBecomeVisible(c) \/ Destroy(c)
  PROVE  Abs!Next \/ UNCHANGED Abs!vars
<1>0. Typed /\ Listed /\ Apart /\ QueueInv
  BY DEF FifoInv, QueueInv
<1>1. Todo' = Todo /\ \A d \in Consumer \ {c} : Answer(d)' = Answer(d)
  BY ConsumerLeaves
<1>2. \A d \in Consumer : Answers[d] = Answer(d)
  BY DEF Answers
<1>3. CASE ~MoveHead(c) /\ ~Destroy(c)
  <2>1. Contents' = Contents
    BY <1>3, ConsumerLeaves
  <2>2. AnswerMoves(c)
    BY <1>3, AnswersMove
  <2>3. ASSUME NEW x, Answer(c)' = x PROVE Answers' = [Answers EXCEPT ![c] = x]
    BY <1>1, <2>3, AnswersChange
  <2>4. CASE Answer(c)' = Answer(c)
    BY <1>1, <2>1, <2>4, AnswersStay DEF Abs!vars
  <2>5. CASE Answer(c) = Idle /\ Answer(c)' = Open
    <3>1. Abs!Call(c)
      BY <1>1, <1>2, <2>1, <2>3, <2>5 DEF Abs!Call
    <3> QED BY <3>1 DEF Abs!Next
  <2>6. CASE Answer(c) = Open /\ Answer(c)' = Empty /\ Contents = <<>>
    <3>1. Abs!SeeEmpty(c)
      BY <1>1, <1>2, <2>1, <2>3, <2>6 DEF Abs!SeeEmpty
    <3> QED BY <3>1 DEF Abs!Next
  <2>7. CASE Answer(c) = Empty /\ Answer(c)' = Open
    <3>1. Abs!LookAgain(c)
      BY <1>1, <1>2, <2>1, <2>3, <2>7 DEF Abs!LookAgain
    <3> QED BY <3>1 DEF Abs!Next
  <2>8. CASE Answer(c) \notin {Idle, Open} /\ Answer(c)' = Idle
    <3>1. Abs!Return(c)
      BY <1>1, <1>2, <2>1, <2>3, <2>8 DEF Abs!Return
    <3> QED BY <3>1 DEF Abs!Next
  <2> QED BY <2>2, <2>4, <2>5, <2>6, <2>7, <2>8 DEF AnswerMoves
<1>4. CASE MoveHead(c)
  <2> DEFINE N == Len(Chain)
  <2>1. /\ ~destroyed /\ ~destroyed' /\ nxt[c] = next[head] /\ nxt[c] \in InChain
        /\ UNCHANGED <<data, nxt>> /\ Chain' = Tail(Chain)
    BY <1>0, <1>4, MoveHeadEffect
  <2>2. IsList(Chain, head, next)
    BY <1>0, <2>1 DEF Listed
  <2>3. Chain \in Seq(Node) /\ N \in Nat \ {0} /\ Chain[1] = head
    BY <2>2 DEF IsList
  <2>4. N >= 2 /\ Chain[2] = nxt[c]
    <3>1. N # 1
      <4>1. nxt[c] # Null
        BY <1>0, <2>1, ChainFacts
      <4> QED BY <2>1, <2>2, <2>3, <4>1 DEF IsList
    <3>2. \A n \in Nat \ {0} : n # 1 => n >= 2 /\ 1 \in 1 .. n - 1
      OBVIOUS
    <3>3. N >= 2 /\ 1 \in 1 .. N - 1
      BY <2>3, <3>1, <3>2
    <3>4. next[Chain[1]] = Chain[1 + 1]
      BY <2>2, <3>3 DEF IsList
    <3>5. Chain[1 + 1] = Chain[2]
      OBVIOUS
    <3> QED BY <2>1, <2>3, <3>3, <3>4, <3>5
  <2>5. Len(Chain') = N - 1 /\ \A i \in 1 .. N - 1 : Chain'[i] = Chain[i + 1]
    BY <2>1, <2>3, <2>4
  <2>6. Items = [i \in 1 .. N - 1 |-> data[Chain[i + 1]]]
    BY DEF Items
  <2>7. Items' = [i \in 1 .. N - 2 |-> data[Chain'[i + 1]]]
    <3>1. Items' = [i \in 1 .. Len(Chain') - 1 |-> data'[Chain'[i + 1]]]
      BY DEF Items
    <3>2. Len(Chain') - 1 = N - 2
      BY <2>3, <2>5
    <3> QED BY <2>1, <3>1, <3>2
  <2>8. Contents = Items /\ Contents' = Items'
    BY <2>1 DEF Contents
  <2>9. Items # <<>> /\ Head(Items) = data[nxt[c]] /\ Len(Items) = N - 1
    <3>1. 1 \in 1 .. N - 1
      BY <2>3, <2>4
    <3>2. Len(Items) = N - 1
      BY <2>3, <2>6
    <3>3. Items[1] = data[nxt[c]]
      BY <2>4, <2>6, <3>1
    <3> HIDE DEF N
    <3> QED BY <2>3, <2>4, <3>2, <3>3
  <2>10. Items' = Tail(Items)
    <3>1. Tail(Items) = [i \in 1 .. N - 2 |-> Items[i + 1]]
      <4>1. Len(Items) - 1 = N - 2
        BY <2>3, <2>9
      <4> QED BY <2>6, <2>9, <4>1
    <3>2. \A i \in 1 .. N - 2 : Items[i + 1] = data[Chain'[i + 1]]
      <4>1. \A i \in 1 .. N - 2 : i + 1 \in 1 .. N - 1
        BY <2>3
      <4> QED BY <2>5, <2>6, <4>1
    <3> HIDE DEF N
    <3> QED BY <2>7, <3>1, <3>2
  <2>11. pc[c] = "move head" /\ pc'[c] = "take"
    <3>1. pc \in [Thread -> Label] /\ c \in Thread
      BY <1>0 DEF Typed, Thread
    <3> QED BY <1>4, <3>1 DEF MoveHead, Goto
  <2>12. Answer(c) = Open
    BY <2>11 DEF Answer
  <2>13. Answer(c)' = data[nxt[c]]
    BY <2>1, <2>11 DEF Answer
  <2>14. Answers' = [Answers EXCEPT ![c] = Head(Contents)]
    BY <1>1, <2>8, <2>9, <2>13, AnswersChange
  <2>15. Abs!Take(c)
    BY <1>1, <1>2, <2>8, <2>9, <2>10, <2>12, <2>14 DEF Abs!Take
  <2> QED BY <2>15 DEF Abs!Next
<1>5. CASE Destroy(c)
  <2>1. destroyed' /\ UNCHANGED <<pc, snap>> /\ \A th \in Thread : pc[th] = "idle"
    BY <1>0, <1>5, DestroyEffect
  <2>2. Contents' = <<>>
    BY <2>1 DEF Contents
  <2>3. \A d \in Consumer : Answer(d) = Idle /\ Answer(d)' = Idle
    BY <2>1 DEF Answer, Thread
  <2>4. Answers' = Answers
    BY <2>3, AnswersStay
  <2>5. Abs!Destroy
    BY <1>1, <1>2, <2>2, <2>3, <2>4 DEF Abs!Destroy
  <2> QED BY <2>5 DEF Abs!Next
<1> QED BY <1>3, <1>4, <1>5

\* try_dequeue() gives each value that was enqueued to one caller, in the order in
\* which their nodes were linked, and reports an empty queue only when it was empty at
\* a moment of the call: the queue implements FifoQueue.
THEOREM QueueImplementsFifo ==
  ASSUME Alone \/ NeverScans
  PROVE  Spec => ImplementsFifo
<1>1. Init => FifoInv
  BY FifoInit
<1>2. FifoInv /\ [Next]_vars => FifoInv'
  BY FifoStep
<1>3. Init => Abs!Init
  <2> SUFFICES ASSUME Init PROVE Abs!Init
    OBVIOUS
  <2>1. FifoInv /\ ~destroyed /\ unsent = Value /\ \A th \in Thread : pc[th] = "idle"
    BY FifoInit DEF Init
  <2>2. Todo = Value
    BY <2>1 DEF Todo, Private, Thread
  <2>3. Contents = <<>>
    <3>1. PICK dummy \in Node : head = dummy
      BY DEF Init
    <3>2. next[dummy] = Null
      BY DEF Init
    <3>3. IsList(<<dummy>>, head, next)
      BY <3>1, <3>2 DEF IsList
    <3>4. Chain = <<dummy>>
      BY <3>3, NodesIs DEF Chain
    <3>5. Len(Chain) - 1 = 0
      BY <3>4
    <3>6. Items = [i \in 1 .. 0 |-> data[Chain[i + 1]]]
      BY <3>5 DEF Items
    <3> QED BY <2>1, <3>6 DEF Contents
  <2>4. Answers = [c \in Consumer |-> Idle]
    BY <2>1 DEF Answers, Answer, Thread
  <2> QED BY <2>2, <2>3, <2>4 DEF Abs!Init
<1>4. FifoInv /\ [Next]_vars => Abs!Next \/ UNCHANGED Abs!vars
  <2> SUFFICES ASSUME FifoInv, [Next]_vars PROVE Abs!Next \/ UNCHANGED Abs!vars
    OBVIOUS
  <2>1. ASSUME NEW p \in Producer, ProducerStep(p) \/ \E v \in Value : NewNode(p, v)
        PROVE  Abs!Next \/ UNCHANGED Abs!vars
    BY <2>1, ProducersMap DEF Abs!Next
  <2>2. ASSUME NEW c \in Consumer,
               ConsumerStep(c) \/ Dequeue(c) \/ Cleanup(c) \/ StoresBecomeVisible(c) \/ Destroy(c)
        PROVE  Abs!Next \/ UNCHANGED Abs!vars
    BY <2>2, ConsumersMap
  <2>3. CASE UNCHANGED vars
    <3>1. UNCHANGED <<head, next, data, pc, snap, nxt, new_node, unsent, result, destroyed>>
      BY <2>3 DEF vars, list_vars
    <3>2. Chain' = Chain
      BY <3>1 DEF Chain
    <3>3. Todo' = Todo
      BY <3>1 DEF Todo, Private
    <3>4. Contents' = Contents
      BY <3>1, <3>2 DEF Contents, Items
    <3>5. Answers' = Answers
      BY <3>1 DEF Answers, Answer
    <3> QED BY <3>3, <3>4, <3>5 DEF Abs!vars
  <2> QED BY <2>1, <2>2, <2>3 DEF Next, Done
<1> QED BY <1>1, <1>2, <1>3, <1>4, PTL DEF Spec, ImplementsFifo, Abs!Spec
===============================================================================
