------------------------------ MODULE DataLoader ------------------------------
(***************************************************************************)
(* toolbox::io::dataloader_t with sampler_t: a range-for loop over batches *)
(* that a pool fetches ahead.  The pool is a TaskPool, which ThreadPool    *)
(* implements: fetches may finish in any order, the loop must not see it.  *)
(***************************************************************************)
EXTENDS Integers, Sequences, SequenceFacts

CONSTANTS
  Size,         \* items in the dataset
  Orders,       \* permutations of the indices that the sampling policy may produce
  BatchSizes, Prefetches,   \* arguments to construct a loader with
  MissingSets,  \* sets of indices for which get_item() may return nullopt
  FailingSets,  \* sets of indices for which get_item() may throw
  PoolStops,    \* the owner of the pool may begin to destroy it during the loop
  LeavesEarly   \* the loop body may break

Index == 0 .. Size - 1

ASSUME LoaderAssumption ==
  /\ Size \in Nat /\ BatchSizes \subseteq Nat /\ Prefetches \subseteq Nat
  /\ PoolStops \in BOOLEAN /\ LeavesEarly \in BOOLEAN
  /\ MissingSets \cup FailingSets \subseteq SUBSET Index
  /\ Orders \subseteq [1 .. Size -> Index]
  /\ \A o \in Orders : \A i, j \in 1 .. Size : o[i] = o[j] => i = j

\* Fetches are numbered in the order of their submission.
Fetch == 1 .. Size

VARIABLES
  loader,          \* the constructor's arguments, and what the dataset is like
  order, taken,    \* sampler_t: m_indices, and how many m_iter has passed
  indices,         \* indices[k]: what fetch k captured
  queue,           \* m_queue: fetches whose future has not been read
  current,         \* m_current_batch
  attached,        \* m_dataset_ptr # nullptr; what operator!= compares
  pc, prefetched,  \* where the loop stands; the constructor's loop counter
  delivered,       \* the batches the loop body has seen
  status, closed   \* the pool

Pool == INSTANCE TaskPool WITH Task <- Fetch

sampler_vars == <<order, taken>>
pool_vars == <<status, closed>>
vars == <<loader, sampler_vars, indices, queue, current, attached, pc, prefetched,
          delivered, pool_vars>>

BatchSize == loader.batch_size
DropLast == loader.drop_last

\* Operators called Mutant_... are faulty variants of the definition that follows
\* them; no specification uses them.

HasNext == taken < Size

AtMost(a, b) == IF a < b THEN a ELSE b

\* next_batch(): up to BatchSize indices from m_iter on.
NextBatch == SubSeq(order, taken + 1, AtMost(taken + BatchSize, Size))

\* What the body of fetch k computes: its items in order, without the missing ones.
ItemsOf(s) == Without(s, loader.missing)
Throws(s) == \E j \in DOMAIN s : s[j] \in loader.failing

Submitted == {k \in Fetch : indices[k] # <<>>}
NextFetch == CHOOSE k \in Fetch : indices[k] = <<>> /\ \A j \in Fetch : j < k => indices[j] # <<>>

-------------------------------------------------------------------------------
\* begin() resets the sampler and constructs the iterator.
Init ==
  /\ loader \in [batch_size : BatchSizes, prefetch_batches : Prefetches,
                 drop_last : BOOLEAN, pooled : BOOLEAN,
                 missing : MissingSets, failing : FailingSets]
  /\ order \in Orders
  /\ taken = 0
  /\ indices = [k \in Fetch |-> <<>>]
  /\ queue = <<>>
  /\ current = <<>>
  /\ attached = TRUE
  /\ pc = "construct" /\ prefetched = 0
  /\ delivered = <<>>
  /\ Pool!Init

Mutant_PushFront(q, k) == <<k>> \o q
Pushed(q, k) == Append(q, k)

\* The future of fetch k goes to the back of m_queue; the caller goes on to "label".
Enqueue(k, label) ==
  /\ queue' = Pushed(queue, k)
  /\ pc' = label

\* enqueue_fetch() ends in one of these ways.  The indices are gone from the sampler
\* in all of them.
NoIndices(label) ==
  /\ NextBatch = <<>>
  /\ pc' = label
  /\ UNCHANGED <<taken, indices, queue, pool_vars>>

Advanced == taken + Len(NextBatch)

TakeIndices(k) ==
  /\ NextBatch # <<>>
  /\ k = NextFetch
  /\ indices' = [indices EXCEPT ![k] = NextBatch]
  /\ taken' = Advanced

FetchSubmitted(k, label) ==
  /\ loader.pooled
  /\ TakeIndices(k)
  /\ Pool!Accept(k)
  /\ Enqueue(k, label)

SubmitThrows(k) ==
  /\ loader.pooled /\ PoolStops
  /\ TakeIndices(k)
  /\ Pool!Reject(k)
  /\ pc' = "thrown"
  /\ UNCHANGED queue

\* Without a pool the task runs here and now.
FetchedInline(k, label) ==
  /\ ~loader.pooled
  /\ TakeIndices(k)
  /\ IF Throws(NextBatch)
     THEN pc' = "thrown" /\ UNCHANGED <<queue, status>>
     ELSE Enqueue(k, label) /\ status' = [status EXCEPT ![k] = "value"]
  /\ UNCHANGED closed

EnqueueFetch(label) ==
  /\ HasNext
  /\ \/ NoIndices(label)
     \/ \E k \in Fetch : \/ FetchSubmitted(k, label)
                         \/ SubmitThrows(k)
                         \/ FetchedInline(k, label)
  /\ UNCHANGED <<loader, order, current, attached, delivered>>

-------------------------------------------------------------------------------
(* The iterator's constructor: prefetch_batches fetches, or one, then ++   *)

FetchesAhead == IF loader.prefetch_batches = 0 THEN 1 ELSE loader.prefetch_batches

Construct ==
  /\ pc = "construct"
  /\ prefetched < FetchesAhead
  /\ EnqueueFetch("construct")
  /\ prefetched' = prefetched + 1

Constructed ==
  /\ pc = "construct"
  /\ prefetched = FetchesAhead \/ ~HasNext
  /\ pc' = "increment"
  /\ UNCHANGED <<loader, sampler_vars, indices, queue, current, attached, prefetched,
                 delivered, pool_vars>>

-------------------------------------------------------------------------------
(* operator++                                                              *)

Mutant_LoopsAgain == "increment"
AfterLast == "over"

QueueEmpty ==
  /\ pc = "increment"
  /\ queue = <<>>
  /\ attached' = FALSE
  /\ pc' = AfterLast
  /\ UNCHANGED <<loader, sampler_vars, indices, queue, current, prefetched, delivered, pool_vars>>

Mutant_NotPopped == queue
Popped == Tail(queue)

\* fut.get() blocks until the fetch is done, returns its batch or rethrows.
GetBatch ==
  /\ pc = "increment"
  /\ queue # <<>>
  /\ LET k == Head(queue)
     IN  \/ /\ status[k] = "value"
            /\ current' = ItemsOf(indices[k])
            /\ pc' = "refill"
         \/ /\ status[k] = "exception"
            /\ pc' = "thrown"
            /\ UNCHANGED current
  /\ queue' = Popped
  /\ UNCHANGED <<loader, sampler_vars, indices, attached, prefetched, delivered, pool_vars>>

Refill ==
  /\ pc = "refill"
  /\ \/ EnqueueFetch("decide")
     \/ /\ ~HasNext
        /\ pc' = "decide"
        /\ UNCHANGED <<loader, sampler_vars, indices, queue, current, attached, delivered, pool_vars>>
  /\ UNCHANGED prefetched

Mutant_DropsFull == DropLast /\ Len(current) <= BatchSize
Dropped == DropLast /\ Len(current) < BatchSize

EndsHere == queue = <<>> /\ ~HasNext /\ current = <<>>

\* The loop goes on with this batch unless the iterator has detached itself.
Decide ==
  /\ pc = "decide"
  /\ attached' = ~(Dropped \/ EndsHere)
  /\ pc' = IF attached' THEN "body" ELSE "over"
  /\ UNCHANGED <<loader, sampler_vars, indices, queue, current, prefetched, delivered, pool_vars>>

\* One round of the loop body.
Body ==
  /\ pc = "body"
  /\ delivered' = Append(delivered, current)
  /\ \/ pc' = "increment"
     \/ LeavesEarly /\ pc' = "left"
  /\ UNCHANGED <<loader, sampler_vars, indices, queue, current, attached, prefetched, pool_vars>>

-------------------------------------------------------------------------------
(* The pool runs fetches, in any order and side by side.                   *)

loop_vars == <<loader, sampler_vars, indices, queue, current, attached, pc, prefetched, delivered>>

FetchStarts(k) == Pool!Start(k) /\ UNCHANGED loop_vars

FetchEnds(k) ==
  /\ Pool!Finish(k, IF Throws(indices[k]) THEN "exception" ELSE "value")
  /\ UNCHANGED loop_vars

\* The pool outlives the loop; its destructor may have begun before, which is when
\* submit() throws.
PoolCloses ==
  /\ PoolStops
  /\ pc \in {"over", "thrown", "left"}
  /\ Pool!Close
  /\ UNCHANGED loop_vars

\* The loop is over; what is left of the fetches runs on.
Finished ==
  /\ pc \in {"over", "thrown", "left"}
  /\ Pool!Owed = {}
  /\ UNCHANGED vars

LoaderStep ==
  \/ Construct \/ Constructed
  \/ QueueEmpty \/ GetBatch \/ Refill \/ Decide \/ Body

PoolStep == \E k \in Fetch : FetchStarts(k) \/ FetchEnds(k)

Next == LoaderStep \/ PoolStep \/ PoolCloses \/ Finished

Spec == Init /\ [][Next]_vars

\* The loop's thread runs on, and the pool gets round to every fetch: what
\* AcceptedEventuallyReady says of ThreadPool.
FairSpec ==
  /\ Spec
  /\ WF_vars(LoaderStep)
  /\ \A k \in Fetch : WF_vars(FetchStarts(k) \/ FetchEnds(k))

-------------------------------------------------------------------------------
(* Properties                                                              *)

TypeOK ==
  /\ loader.batch_size \in BatchSizes /\ loader.prefetch_batches \in Prefetches
  /\ order \in Orders /\ taken \in 0 .. Size
  /\ indices \in [Fetch -> Seq(Index)]
  /\ queue \in Seq(Fetch)
  /\ current \in Seq(Index)
  /\ attached \in BOOLEAN
  /\ pc \in {"construct", "increment", "refill", "decide", "body", "over", "thrown", "left"}
  /\ prefetched \in 0 .. FetchesAhead
  /\ delivered \in Seq(Seq(Index))
  /\ Pool!TypeOK

\* How many batches the order falls into, and the k-th of them.
Chunks == IF BatchSize = 0 THEN 0 ELSE (Size + BatchSize - 1) \div BatchSize
Chunk(k) == SubSeq(order, (k - 1) * BatchSize + 1, AtMost(k * BatchSize, Size))

\* However the fetches overtake each other in the pool, the k-th round of the loop
\* sees the k-th batch of the sampler's order, and a loop that runs to its end without
\* drop_last has seen every item there is.
InOrder ==
  /\ \A k \in DOMAIN delivered : k <= Chunks /\ delivered[k] = ItemsOf(Chunk(k))
  /\ pc = "over" /\ ~DropLast =>
       \A k \in 1 .. Chunks : k \in DOMAIN delivered \/ ItemsOf(Chunk(k)) = <<>>

\* "Whether to drop last incomplete batch": with drop_last the body never sees a
\* short batch, and it sees every complete one if no item is missing: the first
\* short batch ends the loop wherever it is.
OnlyRestDropped ==
  DropLast =>
    /\ \A k \in DOMAIN delivered : Len(delivered[k]) = BatchSize
    /\ pc = "over" /\ loader.missing = {} =>
         \A k \in 1 .. Chunks : Len(Chunk(k)) = BatchSize => k \in DOMAIN delivered

\* The loader is never further ahead of the loop than it was told to be, and no fetch
\* still runs on the dataset when the loop has come to its end - unless drop_last
\* took a batch with missing items for the last one.
PrefetchBounded ==
  /\ TypeOK
  /\ Len(queue) <= FetchesAhead
  /\ pc = "over" /\ (loader.missing = {} \/ ~DropLast) => Pool!Owed = {}

\* The loop ends, whatever its fetches do.
LoopEnds == <>(pc \in {"over", "thrown", "left"})
===============================================================================
