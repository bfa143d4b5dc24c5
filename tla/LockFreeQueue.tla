----------------------------- MODULE LockFreeQueue -----------------------------
(***************************************************************************)
(* toolbox::container::lock_free_queue_t: a Michael & Scott queue whose    *)
(* consumers protect the nodes they read with hazard pointers, and whose   *)
(* producers do not.                                                       *)
(*                                                                         *)
(* One action per access to shared memory.  Nodes are addresses that new   *)
(* may hand out again once they have been deleted, so a stale pointer may  *)
(* alias a younger node.                                                   *)
(***************************************************************************)
EXTENDS Integers, Sequences, FiniteSets

CONSTANTS
  Producer, Consumer,
  Value,          \* each is enqueued once
  Source,         \* Source[v]: the producer that enqueues v
  Node, Null,     \* addresses, and nullptr
  Nothing,        \* no value: the moved-from and default constructed T
  ScanThreshold,  \* RETIRE_SCAN_THRESHOLD
  CleanUp,        \* consumers call cleanup_this_thread_retired_nodes()
  DelayedStores,  \* a release store may become visible after a later acquire load
  SpuriousCas     \* compare_exchange_weak may fail for no reason

Thread == Producer \cup Consumer
Slot == {0, 1}    \* MAX_HAZARD_POINTERS_PER_THREAD

ASSUME QueueAssumption ==
  /\ Producer \cap Consumer = {}
  /\ Source \in [Value -> Producer]
  /\ IsFiniteSet(Node) /\ Null \notin Node
  /\ Value \cap {Nothing, "idle", "open", "empty"} = {}
  /\ ScanThreshold \in Nat \ {0}
  /\ CleanUp \in BOOLEAN
  /\ DelayedStores \in BOOLEAN
  /\ SpuriousCas \in BOOLEAN

VARIABLES
  head, tail,     \* head_, tail_
  next, data,     \* Node::next, Node::data
  allocated,      \* the nodes that have been new'ed and not deleted
  pc,             \* where each thread stands in enqueue() or try_dequeue()
  snap,           \* its local tail_snapshot or head_snapshot
  nxt,            \* its local next_snapshot
  new_node,       \* of a producer
  unsent,         \* values whose enqueue() has not been called
  result,         \* of a consumer's call
  hp,             \* hazard_pointers, as their owner has stored them
  seen,           \* hazard_pointers, as the other threads see them
  retired,        \* t_retired_list
  unread, found,  \* a scan: slots it has yet to read, pointers it has found
  destroyed       \* the queue is gone

list_vars == <<head, tail, next, data>>
scan_vars == <<retired, unread, found>>
vars == <<list_vars, allocated, pc, snap, nxt, new_node, unsent, result,
          hp, seen, scan_vars, destroyed>>

\* Operators called Mutant_... are faulty variants of the definition that follows
\* them; no specification uses them.

-------------------------------------------------------------------------------
(* What the properties say about a state.                                  *)

\* The nodes of a list, from its first on.
Longer(nodes, first, link) ==
  LET m == IF nodes = <<>> THEN first ELSE link[nodes[Len(nodes)]]
  IN  IF m = Null THEN nodes ELSE Append(nodes, m)
Nodes(first, link) ==
  LET upto[n \in 0 .. Cardinality(Node)] ==
        IF n = 0 THEN <<>> ELSE Longer(upto[n - 1], first, link)
  IN  upto[Cardinality(Node)]

\* The first node from head_ on is the dummy.
Chain == Nodes(head, next)

InChain == {Chain[i] : i \in DOMAIN Chain}

\* The nodes a thread's next step dereferences.
Touches(th) ==
  CASE pc[th] \in {"read next", "link", "load next", "reload next"} -> {snap[th]}
    [] pc[th] = "take" -> {nxt[th]}
    [] OTHER -> {}

Private == {new_node[p] : p \in {q \in Producer : pc[q] \notin {"idle", "swing"}}}

\* head_ is past the node but retire_queue_node() has not been called yet.
Unhooked == {snap[c] : c \in {d \in Consumer : pc[d] \in {"take", "retire"}}}

-------------------------------------------------------------------------------
Init ==
  /\ \E dummy \in Node :
       head = dummy /\ tail = dummy /\ allocated = {dummy}
  /\ next = [m \in Node |-> Null]
  /\ data = [m \in Node |-> Nothing]
  /\ pc = [th \in Thread |-> "idle"]
  /\ snap = [th \in Thread |-> Null]
  /\ nxt = [th \in Thread |-> Null]
  /\ new_node = [p \in Producer |-> Null]
  /\ unsent = Value
  /\ result = [c \in Consumer |-> Nothing]
  /\ hp = [c \in Consumer |-> [i \in Slot |-> Null]]
  /\ seen = hp
  /\ retired = [c \in Consumer |-> {}]
  /\ unread = [c \in Consumer |-> {}]
  /\ found = [c \in Consumer |-> {}]
  /\ destroyed = FALSE

Goto(th, label) == pc' = [pc EXCEPT ![th] = label]

Forget(th) ==
  /\ snap' = [snap EXCEPT ![th] = Null]
  /\ nxt' = [nxt EXCEPT ![th] = Null]

-------------------------------------------------------------------------------
(* enqueue()                                                               *)

producer_frame == <<result, hp, seen, scan_vars, destroyed>>

NewNode(p, v) ==
  /\ pc[p] = "idle" /\ ~destroyed
  /\ v \in unsent /\ Source[v] = p
  /\ unsent' = unsent \ {v}
  /\ \E m \in Node \ allocated :
       /\ allocated' = allocated \cup {m}
       /\ next' = [next EXCEPT ![m] = Null]
       /\ data' = [data EXCEPT ![m] = v]
       /\ new_node' = [new_node EXCEPT ![p] = m]
  /\ Goto(p, "load tail")
  /\ UNCHANGED <<head, tail, snap, nxt, producer_frame>>

LoadTail(p) ==
  /\ pc[p] = "load tail"
  /\ snap' = [snap EXCEPT ![p] = tail]
  /\ Goto(p, "read next")
  /\ UNCHANGED <<list_vars, allocated, nxt, new_node, unsent, producer_frame>>

ReadNext(p) ==
  /\ pc[p] = "read next"
  /\ nxt' = [nxt EXCEPT ![p] = next[snap[p]]]
  /\ Goto(p, "check tail")
  /\ UNCHANGED <<list_vars, allocated, snap, new_node, unsent, producer_frame>>

CheckTail(p) ==
  /\ pc[p] = "check tail"
  /\ Goto(p, CASE tail # snap[p] -> "load tail"
               [] tail = snap[p] /\ nxt[p] = Null -> "link"
               [] tail = snap[p] /\ nxt[p] # Null -> "help tail")
  /\ UNCHANGED <<list_vars, allocated, snap, nxt, new_node, unsent, producer_frame>>

Mutant_StoreNotCas(m) == TRUE
IsLast(m) == next[m] = Null

Link(p) ==
  /\ pc[p] = "link"
  /\ IsLast(snap[p])
  /\ next' = [next EXCEPT ![snap[p]] = new_node[p]]
  /\ Goto(p, "swing")
  /\ UNCHANGED <<head, tail, data, allocated, snap, nxt, new_node, unsent, producer_frame>>

LinkFails(p) ==
  /\ pc[p] = "link"
  /\ ~IsLast(snap[p]) \/ SpuriousCas
  /\ Goto(p, "load tail")
  /\ UNCHANGED <<list_vars, allocated, snap, nxt, new_node, unsent, producer_frame>>

Mutant_NeverMoved(from, to) == tail

\* compare_exchange_strong on tail_: moved only if it still is the snapshot.
TailMoved(from, to) == IF tail = from THEN to ELSE tail

Swing(p) ==
  /\ pc[p] = "swing"
  /\ tail' = TailMoved(snap[p], new_node[p])
  /\ new_node' = [new_node EXCEPT ![p] = Null]
  /\ Forget(p)
  /\ Goto(p, "idle")
  /\ UNCHANGED <<head, next, data, allocated, unsent, producer_frame>>

HelpTail(p) ==
  /\ pc[p] = "help tail"
  /\ tail' = TailMoved(snap[p], nxt[p])
  /\ Goto(p, "load tail")
  /\ UNCHANGED <<head, next, data, allocated, snap, nxt, new_node, unsent, producer_frame>>

-------------------------------------------------------------------------------
(* try_dequeue()                                                           *)

consumer_frame == <<new_node, unsent, destroyed>>

\* The visible hazard pointers of c after c stored the record r.
Visible(c, r) == IF DelayedStores THEN seen ELSE [seen EXCEPT ![c] = r]

Mutant_Unprotected(c, i, m) ==
  UNCHANGED <<hp, seen>>

SetHazardPointer(c, i, m) ==
  LET r == [hp[c] EXCEPT ![i] = m]
  IN  hp' = [hp EXCEPT ![c] = r] /\ seen' = Visible(c, r)

\* The store buffer drains, at any time or at an atomic read-modify-write.
Drained(c) == seen' = [seen EXCEPT ![c] = hp[c]]

StoresBecomeVisible(c) ==
  /\ seen[c] # hp[c]
  /\ Drained(c)
  /\ UNCHANGED <<list_vars, allocated, pc, snap, nxt, result, hp, scan_vars, consumer_frame>>

LoadHead(c) ==
  /\ \/ pc[c] = "idle" /\ ~destroyed
     \/ pc[c] = "load head"
  /\ snap' = [snap EXCEPT ![c] = head]
  /\ Goto(c, "protect head")
  /\ UNCHANGED <<list_vars, allocated, nxt, result, hp, seen, scan_vars, consumer_frame>>

ProtectHead(c) ==
  /\ pc[c] = "protect head"
  /\ SetHazardPointer(c, 0, snap[c])
  /\ Goto(c, "check head")
  /\ UNCHANGED <<list_vars, allocated, snap, nxt, result, scan_vars, consumer_frame>>

Mutant_Validated(c) == TRUE
StillHead(c) == head = snap[c]

CheckHead(c) ==
  /\ pc[c] = "check head"
  /\ Goto(c, IF StillHead(c) THEN "load next" ELSE "load head")
  /\ UNCHANGED <<list_vars, allocated, snap, nxt, result, hp, seen, scan_vars, consumer_frame>>

LoadNext(c) ==
  /\ pc[c] = "load next"
  /\ nxt' = [nxt EXCEPT ![c] = next[snap[c]]]
  /\ Goto(c, "protect next")
  /\ UNCHANGED <<list_vars, allocated, snap, result, hp, seen, scan_vars, consumer_frame>>

ProtectNext(c) ==
  /\ pc[c] = "protect next"
  /\ SetHazardPointer(c, 1, nxt[c])
  /\ Goto(c, "recheck head")
  /\ UNCHANGED <<list_vars, allocated, snap, nxt, result, scan_vars, consumer_frame>>

RecheckHead(c) ==
  /\ pc[c] = "recheck head"
  /\ Goto(c, IF StillHead(c) THEN "reload next" ELSE "load head")
  /\ UNCHANGED <<list_vars, allocated, snap, nxt, result, hp, seen, scan_vars, consumer_frame>>

ReloadNext(c) ==
  /\ pc[c] = "reload next"
  /\ Goto(c, IF next[snap[c]] = nxt[c] THEN "compare tail" ELSE "load head")
  /\ UNCHANGED <<list_vars, allocated, snap, nxt, result, hp, seen, scan_vars, consumer_frame>>

Mutant_NeverHelps(c) == FALSE
HeadIsTail(c) == snap[c] = tail

CompareTail(c) ==
  /\ pc[c] = "compare tail"
  /\ Goto(c, CASE HeadIsTail(c) /\ nxt[c] = Null -> "clear"
               [] HeadIsTail(c) /\ nxt[c] # Null -> "help tail"
               [] ~HeadIsTail(c) /\ nxt[c] = Null -> "load head"
               [] ~HeadIsTail(c) /\ nxt[c] # Null -> "move head")
  /\ UNCHANGED <<list_vars, allocated, snap, nxt, result, hp, seen, scan_vars, consumer_frame>>

ConsumerHelpsTail(c) ==
  /\ pc[c] = "help tail"
  /\ tail' = TailMoved(snap[c], nxt[c])
  /\ Drained(c)
  /\ Goto(c, "load head")
  /\ UNCHANGED <<head, next, data, allocated, snap, nxt, result, hp, scan_vars, consumer_frame>>

MoveHead(c) ==
  /\ pc[c] = "move head"
  /\ StillHead(c)
  /\ head' = nxt[c]
  /\ Drained(c)
  /\ Goto(c, "take")
  /\ UNCHANGED <<tail, next, data, allocated, snap, nxt, result, hp, scan_vars, consumer_frame>>

MoveHeadFails(c) ==
  /\ pc[c] = "move head"
  /\ ~StillHead(c) \/ SpuriousCas
  /\ Drained(c)
  /\ Goto(c, "load head")
  /\ UNCHANGED <<list_vars, allocated, snap, nxt, result, hp, scan_vars, consumer_frame>>

\* result = std::move(next_snapshot->data)
Take(c) ==
  /\ pc[c] = "take"
  /\ result' = [result EXCEPT ![c] = data[nxt[c]]]
  /\ data' = [data EXCEPT ![nxt[c]] = Nothing]
  /\ Goto(c, "retire")
  /\ UNCHANGED <<head, tail, next, allocated, snap, nxt, hp, seen, scan_vars, consumer_frame>>

\* retire_queue_node(head_snapshot): a scan when the list has grown long enough.
Retire(c) ==
  /\ pc[c] = "retire"
  /\ retired' = [retired EXCEPT ![c] = @ \cup {snap[c]}]
  /\ IF Cardinality(retired'[c]) >= ScanThreshold
     THEN /\ unread' = [unread EXCEPT ![c] = Consumer \X Slot]
          /\ Drained(c)
          /\ Goto(c, "scan")
     ELSE /\ Goto(c, "clear")
          /\ UNCHANGED <<unread, seen>>
  /\ UNCHANGED <<list_vars, allocated, snap, nxt, result, hp, found, consumer_frame>>

\* cleanup_this_thread_retired_nodes()
Cleanup(c) ==
  /\ CleanUp
  /\ pc[c] = "idle" /\ retired[c] # {}
  /\ unread' = [unread EXCEPT ![c] = Consumer \X Slot]
  /\ Drained(c)
  /\ Goto(c, "scan")
  /\ UNCHANGED <<list_vars, allocated, snap, nxt, result, hp, retired, found, consumer_frame>>

\* A scan reads one hazard pointer after the other while their owners go on: of
\* each record slot 0, then slot 1.
ReadHazardPointer(c, d, i) ==
  /\ pc[c] = "scan"
  /\ <<d, i>> \in unread[c]
  /\ i = 1 => <<d, 0>> \notin unread[c]
  /\ unread' = [unread EXCEPT ![c] = @ \ {<<d, i>>}]
  /\ found' = [found EXCEPT ![c] = @ \cup ({seen[d][i]} \ {Null})]
  /\ UNCHANGED <<list_vars, allocated, pc, snap, nxt, result, hp, seen, retired, consumer_frame>>

Deletable(c) == retired[c] \ found[c]

DeleteUnprotected(c) ==
  /\ pc[c] = "scan"
  /\ unread[c] = {}
  /\ allocated' = allocated \ Deletable(c)
  /\ retired' = [retired EXCEPT ![c] = @ \ Deletable(c)]
  /\ found' = [found EXCEPT ![c] = {}]
  /\ Goto(c, IF snap[c] = Null THEN "idle" ELSE "clear")
  /\ UNCHANGED <<list_vars, snap, nxt, result, hp, seen, unread, consumer_frame>>

\* Both hazard pointers are cleared and the call returns.
ClearAndReturn(c) ==
  /\ pc[c] = "clear"
  /\ LET r == [i \in Slot |-> Null]
     IN  hp' = [hp EXCEPT ![c] = r] /\ seen' = Visible(c, r)
  /\ result' = [result EXCEPT ![c] = Nothing]
  /\ Forget(c)
  /\ Goto(c, "idle")
  /\ UNCHANGED <<list_vars, allocated, scan_vars, consumer_frame>>

\* ~lock_free_queue_t, run by consumer c while nobody uses the queue: it dequeues
\* everything, deletes what it has retired and no hazard pointer protects, and
\* deletes the last dummy.
Destroy(c) ==
  /\ ~destroyed
  /\ \A th \in Thread : pc[th] = "idle"
  /\ destroyed' = TRUE
  /\ LET protected == {seen[d][i] : d \in Consumer \ {c}, i \in Slot}
         dummy == Chain[Len(Chain)]
         all == retired[c] \cup (InChain \ {dummy})
     IN  /\ retired' = [retired EXCEPT ![c] = all \cap protected]
         /\ allocated' = allocated \ ((all \ protected) \cup {dummy})
  /\ head' = Null /\ tail' = Null
  /\ Drained(c)
  /\ UNCHANGED <<next, data, pc, snap, nxt, new_node, unsent, result, hp, unread, found>>

-------------------------------------------------------------------------------
ProducerStep(p) ==
  \/ LoadTail(p) \/ ReadNext(p) \/ CheckTail(p)
  \/ Link(p) \/ LinkFails(p) \/ Swing(p) \/ HelpTail(p)

\* What a consumer does inside a call.
ConsumerStep(c) ==
  \/ pc[c] # "idle" /\ LoadHead(c)
  \/ ProtectHead(c) \/ CheckHead(c)
  \/ LoadNext(c) \/ ProtectNext(c) \/ RecheckHead(c) \/ ReloadNext(c)
  \/ CompareTail(c) \/ ConsumerHelpsTail(c) \/ MoveHead(c) \/ MoveHeadFails(c)
  \/ Take(c) \/ Retire(c)
  \/ \E d \in Consumer, i \in Slot : ReadHazardPointer(c, d, i)
  \/ DeleteUnprotected(c) \/ ClearAndReturn(c)

Dequeue(c) == pc[c] = "idle" /\ LoadHead(c)

Done == destroyed /\ UNCHANGED vars

Next ==
  \/ \E p \in Producer : ProducerStep(p) \/ \E v \in Value : NewNode(p, v)
  \/ \E c \in Consumer : ConsumerStep(c) \/ Dequeue(c) \/ Cleanup(c)
                         \/ StoresBecomeVisible(c) \/ Destroy(c)
  \/ Done

Spec == Init /\ [][Next]_vars

\* Threads inside a call run on.  Whether anybody calls try_dequeue() is up to the
\* program; FairSpec assumes consumers that poll, as the repository's tests do.
Fairness ==
  /\ \A p \in Producer : WF_vars(ProducerStep(p))
  /\ \A c \in Consumer : WF_vars(ConsumerStep(c)) /\ WF_vars(Dequeue(c))

FairSpec == Spec /\ Fairness

-------------------------------------------------------------------------------
(* Properties                                                              *)

ProducerLabel == {"idle", "load tail", "read next", "check tail", "link", "swing", "help tail"}
ConsumerLabel == {"idle", "load head", "protect head", "check head", "load next", "protect next",
                  "recheck head", "reload next", "compare tail", "help tail", "move head",
                  "take", "retire", "scan", "clear"}

TypeOK ==
  /\ {head, tail} \subseteq allocated \cup {Null}
  /\ next \in [Node -> Node \cup {Null}]
  /\ data \in [Node -> Value \cup {Nothing}]
  /\ allocated \subseteq Node
  /\ \A p \in Producer : pc[p] \in ProducerLabel
  /\ \A c \in Consumer : pc[c] \in ConsumerLabel
  /\ snap \in [Thread -> Node \cup {Null}]
  /\ nxt \in [Thread -> Node \cup {Null}]
  /\ new_node \in [Producer -> Node \cup {Null}]
  /\ unsent \subseteq Value
  /\ result \in [Consumer -> Value \cup {Nothing}]
  /\ hp \in [Consumer -> [Slot -> Node \cup {Null}]]
  /\ seen \in [Consumer -> [Slot -> Node \cup {Null}]]
  /\ retired \in [Consumer -> SUBSET Node]
  /\ unread \in [Consumer -> SUBSET (Consumer \X Slot)]
  /\ found \in [Consumer -> SUBSET Node]
  /\ destroyed \in BOOLEAN

\* "Uses raw pointers, atomic operations, and Hazard Pointers for safe memory
\* reclamation": no thread is about to read or write a node that was deleted.
NoUseAfterFree == \A th \in Thread : Touches(th) \subseteq allocated

\* Who answers for node m.
Owners(m) ==
  {<<"list", x>> : x \in {y \in {"head_"} : m \in InChain}}
  \cup {<<"producer", p>> : p \in {q \in Producer : pc[q] \notin {"idle", "swing"} /\ new_node[q] = m}}
  \cup {<<"dequeuing", c>> : c \in {d \in Consumer : pc[d] \in {"take", "retire"} /\ snap[d] = m}}
  \cup {<<"retired", c>> : c \in {d \in Consumer : m \in retired[d]}}

\* No leak and no double free: a node that is allocated has exactly one owner - the
\* list, a producer, a consumer or one list of retired nodes - and no other has one.
MemoryAccounted ==
  /\ TypeOK
  /\ \A m \in Node : Cardinality(Owners(m)) = IF m \in allocated THEN 1 ELSE 0

\* head_ never overtakes tail_, so tail_ never points to a retired node: what makes
\* it safe for try_dequeue() to retire the old head.
TailInChain == ~destroyed => tail \in InChain

Idle == "idle"
Open == "open"
Empty == "empty"

Items == [i \in 1 .. Len(Chain) - 1 |-> data[Chain[i + 1]]]

Answer(c) ==
  CASE pc[c] = "idle" \/ (pc[c] = "scan" /\ snap[c] = Null) -> Idle
    [] pc[c] = "compare tail" /\ nxt[c] = Null -> Empty
    [] pc[c] = "take" -> data[nxt[c]]
    [] pc[c] \in {"retire", "scan", "clear"} /\ snap[c] # Null ->
         IF result[c] = Nothing THEN Empty ELSE result[c]
    [] OTHER -> Open

Todo == unsent \cup {data[m] : m \in Private}
Contents == IF destroyed THEN <<>> ELSE Items
Answers == [c \in Consumer |-> Answer(c)]

Abs == INSTANCE FifoQueue WITH todo <- Todo, items <- Contents, answer <- Answers

\* Seen from outside, the queue is linearizable: an enqueue takes effect when its
\* node is linked, a dequeue when head_ moves, and a call answers that the queue is
\* empty only if it was empty at a moment of the call.
ImplementsFifo == Abs!Spec

\* No enqueue() and no try_dequeue() retries for ever, and consumers that poll get
\* everything, unless the queue is destroyed first.
Queued(v) == \E i \in DOMAIN Items : Items[i] = v
EverythingLeaves ==
  /\ \A th \in Thread : (pc[th] # "idle") ~> (pc[th] = "idle")
  /\ \A v \in Value : Queued(v) ~> ~Queued(v)
===============================================================================
