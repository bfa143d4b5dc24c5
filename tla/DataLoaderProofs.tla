--------------------------- MODULE DataLoaderProofs ---------------------------
(***************************************************************************)
(* Theorems about DataLoader for any dataset, order, batch size, prefetch  *)
(* and any behaviour of the pool.                                          *)
(***************************************************************************)
EXTENDS DataLoader, SequenceFacts

-------------------------------------------------------------------------------
(* The inductive invariant.  It speaks of n, how many fetches have taken   *)
(* their indices, and of g, how many of them the loop has asked for their  *)
(* batch.                                                                  *)

Loader == [batch_size : BatchSizes, prefetch_batches : Prefetches, drop_last : BOOLEAN,
           pooled : BOOLEAN, missing : MissingSets, failing : FailingSets]

\* The order falls into a k-th batch.
IsChunk(k) == k >= 1 /\ BatchSize > 0 /\ (k - 1) * BatchSize < Size

\* The fetches took one batch after the other from the sampler.
Sampled(n) ==
  /\ n \in 0 .. Size
  /\ n > 0 => IsChunk(n)
  /\ taken = AtMost(n * BatchSize, Size)
  /\ indices \in [Fetch -> Seq(Index)]
  /\ \A k \in Fetch : indices[k] = IF k <= n THEN Chunk(k) ELSE <<>>

\* m_queue holds those that are left to ask, in order.
QueuedInOrder(g, n) ==
  /\ queue \in Seq(Fetch) /\ Len(queue) <= FetchesAhead
  /\ pc # "thrown" =>
       /\ Len(queue) = n - g
       /\ \A i \in 1 .. n - g : queue[i] = g + i

\* A fetch that was asked has come to its end; one without indices is not the pool's.
Asked(g, n) ==
  /\ status \in [Fetch -> Pool!Status]
  /\ \A k \in 1 .. g : status[k] \in {"value", "exception"}
  /\ pc # "thrown" => \A k \in n + 1 .. Size : status[k] = "new"

DeliveredInOrder(n) ==
  /\ delivered \in Seq(Seq(Index))
  /\ Len(delivered) <= n
  /\ \A k \in 1 .. Len(delivered) : delivered[k] = ItemsOf(Chunk(k))
  /\ DropLast => \A k \in 1 .. Len(delivered) : Len(delivered[k]) = BatchSize

\* Where the loop stands, and what it must have done by then.
Ahead == queue # <<>> \/ ~HasNext \/ BatchSize = 0
Standing(g, n) ==
  /\ pc = "construct" => /\ g = 0 /\ delivered = <<>> /\ n <= prefetched
                         /\ prefetched > 0 => Ahead
  /\ pc \in {"increment", "left"} => Len(delivered) = g
  /\ pc \in {"increment", "decide", "body"} => Ahead
  /\ pc \in {"refill", "decide", "body"} =>
       g >= 1 /\ Len(delivered) = g - 1 /\ current = ItemsOf(Chunk(g))
  /\ pc = "refill" => Len(queue) < FetchesAhead
  /\ pc = "body" /\ DropLast => Len(current) >= BatchSize

\* What is true of a loop that has come to its end.
AtItsEnd ==
  pc = "over" =>
    /\ ~DropLast => \A k \in 1 .. Size : IsChunk(k) => k <= Len(delivered) \/ ItemsOf(Chunk(k)) = <<>>
    /\ loader.missing = {} =>
         \A k \in 1 .. Size : IsChunk(k) /\ k * BatchSize <= Size => k <= Len(delivered)
    /\ loader.missing = {} \/ ~DropLast => Pool!Owed = {}

Rest ==
  /\ loader \in Loader /\ order \in Orders
  /\ prefetched \in 0 .. FetchesAhead
  /\ current \in Seq(Index)
  /\ attached \in BOOLEAN /\ closed \in BOOLEAN
  /\ pc \in {"construct", "increment", "refill", "decide", "body", "over", "thrown", "left"}
  /\ AtItsEnd

InvAt(g, n) ==
  /\ g \in 0 .. n
  /\ Sampled(n)
  /\ QueuedInOrder(g, n) /\ Asked(g, n)
  /\ DeliveredInOrder(n) /\ Standing(g, n)

LoaderInv == Rest /\ \E n \in 0 .. Size : \E g \in 0 .. n : InvAt(g, n)

-------------------------------------------------------------------------------
(* Batches.                                                                *)

LEMMA Times ==
  ASSUME NEW a \in Nat, NEW c \in Nat, NEW b \in Nat
  PROVE  /\ a * b \in Nat
         /\ (a + 1) * b = a * b + b
         /\ a <= c => a * b <= c * b
         /\ b > 0 => a <= a * b
OBVIOUS

LEMMA ChunkFacts ==
  ASSUME order \in Orders, BatchSize \in Nat, NEW k \in Nat, IsChunk(k)
  PROVE  /\ k \in 1 .. Size
         /\ (k - 1) * BatchSize \in Nat
         /\ k * BatchSize = (k - 1) * BatchSize + BatchSize
         /\ Chunk(k) \in Seq(Index) /\ Chunk(k) # <<>>
         /\ Len(Chunk(k)) <= BatchSize
         /\ Len(Chunk(k)) < BatchSize <=> k * BatchSize > Size
<1> DEFINE m == (k - 1) * BatchSize
           e == AtMost(k * BatchSize, Size)
<1>1. Size \in Nat /\ order \in [1 .. Size -> Index]
  BY LoaderAssumption
<1>2. k - 1 \in Nat /\ (k - 1) + 1 = k
  BY DEF IsChunk
<1>3. m \in Nat /\ k * BatchSize = m + BatchSize /\ k - 1 <= m
  BY <1>2, Times DEF IsChunk
<1>4. m < Size /\ BatchSize > 0 /\ k >= 1
  BY DEF IsChunk
<1>5. Chunk(k) = SubSeq(order, m + 1, e)
  BY DEF Chunk
<1> HIDE DEF m
<1>6. e \in m + 1 .. Size /\ e - m <= BatchSize /\ (e - m < BatchSize <=> m + BatchSize > Size)
  BY <1>1, <1>3, <1>4 DEF AtMost
<1>7. \A i \in m + 1 .. e : order[i] \in Index
  BY <1>1, <1>3, <1>6
<1>8. /\ SubSeq(order, m + 1, e) \in Seq(Index)
      /\ Len(SubSeq(order, m + 1, e)) = e - m
  <2> HIDE DEF e
  <2> QED BY <1>1, <1>3, <1>6, <1>7, SubSeqProperties
<1>9. SubSeq(order, m + 1, e) # <<>>
  <2>1. Len(SubSeq(order, m + 1, e)) # 0
    BY <1>3, <1>6, <1>8
  <2>2. Len(<<>>) = 0
    OBVIOUS
  <2> HIDE DEF e
  <2> QED BY <2>1, <2>2
<1>10. k \in 1 .. Size
  BY <1>1, <1>3, <1>4
<1> QED BY <1>3, <1>5, <1>6, <1>8, <1>9, <1>10 DEF m

\* Chunks counts the batches.
LEMMA ChunksCounts ==
  ASSUME BatchSize \in Nat, NEW k \in Nat
  PROVE  k \in 1 .. Chunks <=> IsChunk(k)
<1>1. Size \in Nat
  BY LoaderAssumption
<1>2. CASE BatchSize = 0
  BY <1>2 DEF Chunks, IsChunk
<1>3. CASE BatchSize > 0 /\ k > 0
  <2>1. Chunks = (Size + BatchSize - 1) \div BatchSize
    BY <1>3 DEF Chunks
  <2>2. /\ Chunks \in Nat
        /\ Chunks * BatchSize <= Size + BatchSize - 1
        /\ Size + BatchSize - 1 < (Chunks + 1) * BatchSize
    BY <1>1, <1>3, <2>1
  <2>3. /\ k <= Chunks => k * BatchSize <= Chunks * BatchSize
        /\ Chunks + 1 <= k => (Chunks + 1) * BatchSize <= k * BatchSize
        /\ Chunks * BatchSize \in Nat /\ (Chunks + 1) * BatchSize \in Nat
    BY <2>2, Times
  <2>4. k - 1 \in Nat /\ (k - 1) + 1 = k
    BY <1>3
  <2>5. k * BatchSize = (k - 1) * BatchSize + BatchSize /\ (k - 1) * BatchSize \in Nat
    BY <2>4, Times
  <2>6. IsChunk(k) <=> (k - 1) * BatchSize < Size
    BY <1>3 DEF IsChunk
  <2> QED BY <1>1, <1>3, <2>2, <2>3, <2>5, <2>6
<1>4. CASE k = 0
  BY <1>4 DEF IsChunk
<1> QED BY <1>2, <1>3, <1>4

-------------------------------------------------------------------------------
(* enqueue_fetch().                                                        *)

LEMMA RestTypes ==
  ASSUME Rest
  PROVE  /\ Size \in Nat /\ BatchSize \in Nat
         /\ FetchesAhead \in Nat \ {0}
         /\ order \in [1 .. Size -> Index]
         /\ DropLast \in BOOLEAN
<1>1. loader.batch_size \in Nat /\ loader.prefetch_batches \in Nat /\ loader.drop_last \in BOOLEAN
  BY LoaderAssumption DEF Rest, Loader
<1>2. Size \in Nat /\ order \in [1 .. Size -> Index]
  BY LoaderAssumption DEF Rest
<1> QED BY <1>1, <1>2 DEF BatchSize, FetchesAhead, DropLast

\* The arguments and the order stay what they are.
LEMMA Constant ==
  ASSUME UNCHANGED <<loader, order>>
  PROVE  /\ BatchSize' = BatchSize /\ DropLast' = DropLast /\ FetchesAhead' = FetchesAhead
         /\ \A k : Chunk(k)' = Chunk(k)
         /\ \A k : IsChunk(k)' <=> IsChunk(k)
         /\ \A s : ItemsOf(s)' = ItemsOf(s)
BY DEF BatchSize, DropLast, FetchesAhead, Chunk, IsChunk, ItemsOf

\* What next_batch() yields is the next batch of the order, none only if batches
\* have no room for an item.
LEMMA NextIs ==
  ASSUME Rest, NEW n \in 0 .. Size, Sampled(n), HasNext
  PROVE  /\ NextBatch = <<>> => BatchSize = 0
         /\ NextBatch # <<>> => /\ n < Size /\ IsChunk(n + 1)
                               /\ NextFetch = n + 1
                               /\ NextBatch = Chunk(n + 1)
                               /\ Advanced = AtMost((n + 1) * BatchSize, Size)
<1>1. Size \in Nat /\ BatchSize \in Nat /\ order \in [1 .. Size -> Index] /\ n \in Nat
  BY RestTypes
<1>2. n * BatchSize \in Nat /\ (n + 1) * BatchSize = n * BatchSize + BatchSize
      /\ (BatchSize > 0 => n <= n * BatchSize)
  BY <1>1, Times
<1>3. taken = n * BatchSize /\ taken < Size
  BY <1>1, <1>2 DEF Sampled, HasNext, AtMost
<1>4. NextBatch = SubSeq(order, n * BatchSize + 1, AtMost(n * BatchSize + BatchSize, Size))
  BY <1>3 DEF NextBatch
<1>5. CASE BatchSize = 0
  <2>1. AtMost(n * BatchSize + BatchSize, Size) < n * BatchSize + 1
    BY <1>1, <1>2, <1>3, <1>5 DEF AtMost
  <2>2. AtMost(n * BatchSize + BatchSize, Size) \in Int /\ n * BatchSize + 1 \in Int
    BY <1>1, <1>2 DEF AtMost
  <2>3. NextBatch = <<>>
    BY <1>4, <2>1, <2>2, SubSeqEmpty
  <2> QED BY <1>5, <2>3
<1>6. CASE BatchSize > 0
  <2>1. n < Size
    BY <1>1, <1>2, <1>3, <1>6
  <2>2. (n + 1) - 1 = n
    BY <1>1
  <2>3. IsChunk(n + 1)
    BY <1>1, <1>3, <1>6, <2>2 DEF IsChunk
  <2>4. NextBatch = Chunk(n + 1)
    BY <1>2, <1>4, <2>2 DEF Chunk
  <2>5. Chunk(n + 1) # <<>> /\ \A k \in 1 .. n : Chunk(k) # <<>>
    <3>1. \A k \in 1 .. n : IsChunk(k)
      <4> SUFFICES ASSUME NEW k \in 1 .. n PROVE IsChunk(k)
        OBVIOUS
      <4>1. k - 1 \in Nat /\ (k - 1) * BatchSize <= n * BatchSize /\ (k - 1) * BatchSize \in Nat
        BY <1>1, Times
      <4> QED BY <1>1, <1>2, <1>3, <1>6, <4>1 DEF IsChunk
    <3>2. order \in Orders
      BY DEF Rest
    <3>3. n + 1 \in Nat /\ \A k \in 1 .. n : k \in Nat
      BY <1>1
    <3> QED BY <1>1, <2>3, <3>1, <3>2, <3>3, ChunkFacts
  <2>6. NextFetch = n + 1
    <3>1. \A k \in Fetch : indices[k] = <<>> <=> k > n
      <4>1. \A k \in Fetch : indices[k] = IF k <= n THEN Chunk(k) ELSE <<>>
        BY DEF Sampled
      <4> QED BY <1>1, <2>5, <4>1 DEF Fetch
    <3>2. n + 1 \in Fetch
      BY <1>1, <2>1 DEF Fetch
    <3>3. \A k \in Fetch : (indices[k] = <<>> /\ \A j \in Fetch : j < k => indices[j] # <<>>)
                          <=> k = n + 1
      BY <1>1, <3>1, <3>2 DEF Fetch
    <3> QED BY <3>2, <3>3 DEF NextFetch
  <2>7. Len(NextBatch) = AtMost((n + 1) * BatchSize, Size) - n * BatchSize
    <3> DEFINE e == AtMost(n * BatchSize + BatchSize, Size)
           m == n * BatchSize
    <3> HIDE DEF m
    <3>0. m \in Nat /\ m = n * BatchSize
      BY <1>2 DEF m
    <3>1. e \in m + 1 .. Size
      BY <1>1, <1>3, <1>6, <3>0 DEF AtMost
    <3> HIDE DEF e
    <3>2. \A i \in m + 1 .. e : order[i] \in Index
      BY <1>1, <3>0, <3>1
    <3>3. Len(SubSeq(order, m + 1, e)) = e - m
      BY <1>1, <3>0, <3>1, <3>2, SubSeqProperties
    <3> QED BY <1>2, <1>4, <3>0, <3>3 DEF e
  <2>8. Advanced = AtMost((n + 1) * BatchSize, Size)
    BY <1>1, <1>2, <1>3, <2>7 DEF Advanced, AtMost
  <2> QED BY <1>6, <2>1, <2>3, <2>4, <2>5, <2>6, <2>8
<1> QED BY <1>1, <1>5, <1>6

\* The ways in which enqueue_fetch() ends.
LEMMA EnqueueFetchIs ==
  ASSUME Rest, NEW n \in 0 .. Size, NEW g \in 0 .. n, Sampled(n), Asked(g, n),
         NEW label, pc # "thrown", EnqueueFetch(label)
  PROVE  \/ /\ BatchSize = 0
            /\ pc' = label
            /\ UNCHANGED <<taken, indices, queue, status, closed>>
         \/ /\ n < Size
            /\ Sampled(n + 1)' /\ Asked(g, n + 1)'
            /\ \/ pc' = "thrown" /\ queue' = queue
               \/ pc' = label /\ queue' = Append(queue, n + 1)
            /\ closed' = closed
<1>1. HasNext /\ UNCHANGED <<loader, order, current, attached, delivered>>
  BY DEF EnqueueFetch
<1>2. Size \in Nat /\ BatchSize \in Nat /\ n \in Nat
  BY RestTypes
<1>3. ASSUME NEW k \in Fetch, TakeIndices(k)
      PROVE  k = n + 1 /\ n < Size /\ Sampled(n + 1)'
  <2>1. NextBatch # <<>> /\ k = NextFetch
    BY <1>3 DEF TakeIndices
  <2>2. /\ n < Size /\ IsChunk(n + 1) /\ k = n + 1
        /\ NextBatch = Chunk(n + 1)
        /\ Advanced = AtMost((n + 1) * BatchSize, Size)
    BY <1>1, <2>1, NextIs
  <2>3. taken' = Advanced /\ indices' = [indices EXCEPT ![n + 1] = Chunk(n + 1)]
    BY <1>3, <2>2 DEF TakeIndices
  <2>4. BatchSize' = BatchSize /\ (\A j : Chunk(j)' = Chunk(j)) /\ (\A j : IsChunk(j)' <=> IsChunk(j))
    BY <1>1, Constant
  <2>5. indices' \in [Fetch -> Seq(Index)]
        /\ \A j \in Fetch : indices'[j] = IF j <= n + 1 THEN Chunk(j) ELSE <<>>
    <3>1. indices \in [Fetch -> Seq(Index)]
          /\ \A j \in Fetch : indices[j] = IF j <= n THEN Chunk(j) ELSE <<>>
      BY DEF Sampled
    <3>2. Chunk(n + 1) \in Seq(Index)
      BY <1>2, <2>2, ChunkFacts DEF Rest
    <3>3. \A j \in Fetch : j # n + 1 => (j <= n + 1 <=> j <= n)
      BY <1>2 DEF Fetch
    <3>4. n + 1 \in Fetch /\ n + 1 <= n + 1
      BY <1>2, <2>2 DEF Fetch
    <3>5. indices' \in [Fetch -> Seq(Index)]
      BY <2>3, <3>1, <3>2
    <3>6. indices'[n + 1] = Chunk(n + 1) /\ \A j \in Fetch : j # n + 1 => indices'[j] = indices[j]
      BY <2>3, <3>1, <3>4
    <3> QED BY <3>1, <3>3, <3>4, <3>5, <3>6
  <2>6. taken' = AtMost((n + 1) * BatchSize', Size)
    BY <2>2, <2>3, <2>4
  <2>7. IsChunk(n + 1)'
    BY <2>2, <2>4
  <2>8. n + 1 \in 0 .. Size
    BY <1>2, <2>2
  <2> QED BY <2>2, <2>4, <2>5, <2>6, <2>7, <2>8 DEF Sampled
<1>4. CASE NoIndices(label)
  BY <1>1, <1>4, NextIs DEF NoIndices, pool_vars
<1>5. ASSUME NEW k \in Fetch, FetchSubmitted(k, label)
      PROVE  /\ n < Size /\ Sampled(n + 1)' /\ Asked(g, n + 1)'
             /\ pc' = label /\ queue' = Append(queue, n + 1) /\ closed' = closed
  <2>1. k = n + 1 /\ n < Size /\ Sampled(n + 1)'
    BY <1>3, <1>5 DEF FetchSubmitted
  <2>2. pc' = label /\ queue' = Append(queue, n + 1) /\ closed' = closed
    BY <1>5, <2>1 DEF FetchSubmitted, Enqueue, Pushed, Pool!Accept
  <2>3. status' = [status EXCEPT ![n + 1] = "queued"]
    BY <1>5, <2>1 DEF FetchSubmitted, Pool!Accept
  <2>4. Asked(g, n + 1)'
    BY <1>2, <2>1, <2>3 DEF Asked, Fetch, Pool!Status
  <2> QED BY <2>1, <2>2, <2>4
<1>6. ASSUME NEW k \in Fetch, SubmitThrows(k)
      PROVE  /\ n < Size /\ Sampled(n + 1)' /\ Asked(g, n + 1)'
             /\ pc' = "thrown" /\ queue' = queue /\ closed' = closed
  <2>1. k = n + 1 /\ n < Size /\ Sampled(n + 1)'
    BY <1>3, <1>6 DEF SubmitThrows
  <2>2. pc' = "thrown" /\ queue' = queue /\ closed' = closed
    BY <1>6 DEF SubmitThrows, Pool!Reject
  <2>3. status' = [status EXCEPT ![n + 1] = "rejected"]
    BY <1>6, <2>1 DEF SubmitThrows, Pool!Reject
  <2>4. Asked(g, n + 1)'
    BY <1>2, <2>1, <2>2, <2>3 DEF Asked, Fetch, Pool!Status
  <2> QED BY <2>1, <2>2, <2>4
<1>7. ASSUME NEW k \in Fetch, FetchedInline(k, label)
      PROVE  /\ n < Size /\ Sampled(n + 1)' /\ Asked(g, n + 1)'
             /\ \/ pc' = "thrown" /\ queue' = queue
                \/ pc' = label /\ queue' = Append(queue, n + 1)
             /\ closed' = closed
  <2>1. k = n + 1 /\ n < Size /\ Sampled(n + 1)'
    BY <1>3, <1>7 DEF FetchedInline
  <2>2. closed' = closed
    BY <1>7 DEF FetchedInline
  <2>3. CASE Throws(NextBatch)
    <3>1. pc' = "thrown" /\ queue' = queue /\ status' = status
      BY <1>7, <2>3 DEF FetchedInline
    <3>2. Asked(g, n + 1)'
      BY <1>2, <2>1, <3>1 DEF Asked, Fetch
    <3> QED BY <2>1, <2>2, <3>1, <3>2
  <2>4. CASE ~Throws(NextBatch)
    <3>1. /\ pc' = label /\ queue' = Append(queue, n + 1)
          /\ status' = [status EXCEPT ![n + 1] = "value"]
      BY <1>7, <2>1, <2>4 DEF FetchedInline, Enqueue, Pushed
    <3>2. Asked(g, n + 1)'
      BY <1>2, <2>1, <3>1 DEF Asked, Fetch, Pool!Status
    <3> QED BY <2>1, <2>2, <3>1, <3>2
  <2> QED BY <2>3, <2>4
<1> QED BY <1>4, <1>5, <1>6, <1>7 DEF EnqueueFetch

-------------------------------------------------------------------------------
(* The invariant is inductive.                                             *)

LEMMA SampledStays ==
  ASSUME NEW n, Sampled(n), UNCHANGED <<loader, order, taken, indices>>
  PROVE  Sampled(n)'
BY Constant DEF Sampled

LEMMA DeliveredStays ==
  ASSUME NEW n \in Nat, DeliveredInOrder(n), UNCHANGED <<loader, order, delivered>>,
         NEW m \in Nat, n <= m
  PROVE  DeliveredInOrder(m)'
BY Constant DEF DeliveredInOrder

LEMMA AskedStays ==
  ASSUME NEW g, NEW n, Asked(g, n), pc # "thrown", UNCHANGED status
  PROVE  Asked(g, n)'
BY DEF Asked

LEMMA QueueGrows ==
  ASSUME NEW n \in 0 .. Size - 1, NEW g \in 0 .. n, Size \in Nat,
         QueuedInOrder(g, n), pc # "thrown", FetchesAhead \in Nat,
         queue' = Append(queue, n + 1), Len(queue) < FetchesAhead, FetchesAhead' = FetchesAhead
  PROVE  QueuedInOrder(g, n + 1)' /\ queue' # <<>>
<1>1. queue \in Seq(Fetch) /\ Len(queue) = n - g /\ \A i \in 1 .. n - g : queue[i] = g + i
  BY DEF QueuedInOrder
<1>2. n + 1 \in Fetch
  BY DEF Fetch
<1>3. /\ queue' \in Seq(Fetch) /\ queue' # <<>>
      /\ Len(queue') = n - g + 1
      /\ \A i \in 1 .. n - g : queue'[i] = queue[i]
      /\ queue'[n - g + 1] = n + 1
  BY <1>1, <1>2, AppendProperties
<1>4. \A i \in 1 .. n + 1 - g : queue'[i] = g + i
  BY <1>1, <1>3
<1> QED BY <1>1, <1>3, <1>4 DEF QueuedInOrder

LEMMA ConstructKeeps ==
  ASSUME Rest, NEW n \in 0 .. Size, NEW g \in 0 .. n, InvAt(g, n), Construct
  PROVE  LoaderInv'
<1> USE DEF InvAt
<1>1. Size \in Nat /\ FetchesAhead \in Nat \ {0} /\ n \in Nat
  BY RestTypes
<1>2. /\ pc = "construct" /\ prefetched < FetchesAhead /\ prefetched' = prefetched + 1
      /\ EnqueueFetch("construct")
  BY DEF Construct
<1>3. UNCHANGED <<loader, order, current, attached, delivered>>
  BY <1>2 DEF EnqueueFetch
<1>4. /\ BatchSize' = BatchSize /\ FetchesAhead' = FetchesAhead
      /\ DeliveredInOrder(n)' /\ DeliveredInOrder(n + 1)'
  BY <1>1, <1>3, Constant, DeliveredStays
<1>5. g = 0 /\ delivered = <<>> /\ n <= prefetched
  BY <1>2 DEF Standing
<1>6. prefetched' \in 0 .. FetchesAhead' /\ loader' \in Loader /\ order' \in Orders
      /\ current' \in Seq(Index) /\ attached' \in BOOLEAN
  BY <1>1, <1>2, <1>3, <1>4 DEF Rest
<1>7. CASE /\ BatchSize = 0 /\ pc' = "construct"
           /\ UNCHANGED <<taken, indices, queue, status, closed>>
  <2>1. Sampled(n)' /\ Asked(g, n)' /\ QueuedInOrder(g, n)'
    BY <1>2, <1>3, <1>4, <1>7, SampledStays, AskedStays DEF QueuedInOrder
  <2>2. Standing(g, n)'
    BY <1>1, <1>2, <1>3, <1>4, <1>5, <1>7 DEF Standing, Ahead, Rest
  <2>3. Rest'
    BY <1>6, <1>7 DEF Rest, AtItsEnd
  <2> QED BY <1>4, <2>1, <2>2, <2>3 DEF LoaderInv
<1>8. CASE /\ n < Size
           /\ Sampled(n + 1)' /\ Asked(g, n + 1)'
           /\ \/ pc' = "thrown" /\ queue' = queue
              \/ pc' = "construct" /\ queue' = Append(queue, n + 1)
           /\ closed' = closed
  <2>1. Rest'
    BY <1>6, <1>8 DEF Rest, AtItsEnd
  <2>2. QueuedInOrder(g, n + 1)' /\ Standing(g, n + 1)'
    <3>1. CASE pc' = "thrown" /\ queue' = queue
      BY <1>4, <3>1 DEF QueuedInOrder, Standing
    <3>2. CASE pc' = "construct" /\ queue' = Append(queue, n + 1)
      <4>1. Len(queue) < FetchesAhead
        BY <1>1, <1>2, <1>5 DEF QueuedInOrder, Rest
      <4>2. QueuedInOrder(g, n + 1)' /\ queue' # <<>>
        BY <1>1, <1>2, <1>4, <1>8, <3>2, <4>1, QueueGrows
      <4>3. Standing(g, n + 1)'
        BY <1>1, <1>2, <1>3, <1>5, <3>2, <4>2 DEF Standing, Ahead, Rest
      <4> QED BY <4>2, <4>3
    <3> QED BY <1>8, <3>1, <3>2
  <2>3. n + 1 \in 0 .. Size /\ g \in 0 .. n + 1
    BY <1>1, <1>8
  <2> QED BY <1>4, <1>8, <2>1, <2>2, <2>3 DEF LoaderInv
<1> QED BY <1>2, <1>7, <1>8, EnqueueFetchIs

LEMMA ConstructedKeeps ==
  ASSUME Rest, NEW n \in 0 .. Size, NEW g \in 0 .. n, InvAt(g, n), Constructed
  PROVE  LoaderInv'
<1> USE DEF InvAt
<1>1. Size \in Nat /\ FetchesAhead \in Nat \ {0} /\ n \in Nat
  BY RestTypes
<1>2. /\ pc = "construct" /\ pc' = "increment"
      /\ prefetched = FetchesAhead \/ ~HasNext
      /\ UNCHANGED <<loader, order, taken, indices, queue, current, attached, prefetched,
                     delivered, status, closed>>
  BY DEF Constructed, sampler_vars, pool_vars
<1>3. BatchSize' = BatchSize /\ FetchesAhead' = FetchesAhead
  BY <1>2, Constant
<1>4. Sampled(n)' /\ Asked(g, n)' /\ QueuedInOrder(g, n)' /\ DeliveredInOrder(n)'
  BY <1>1, <1>2, <1>3, SampledStays, AskedStays, DeliveredStays DEF QueuedInOrder
<1>5. Standing(g, n)'
  <2>1. g = 0 /\ delivered = <<>> /\ Ahead
    BY <1>1, <1>2 DEF Standing, Ahead
  <2> QED BY <1>2, <1>3, <2>1 DEF Standing, Ahead, HasNext
<1>6. Rest'
  BY <1>2, <1>3 DEF Rest, AtItsEnd
<1> QED BY <1>4, <1>5, <1>6 DEF LoaderInv

\* When the sampler has no index left, all batches have been taken.
LEMMA AllTaken ==
  ASSUME Rest, NEW n \in 0 .. Size, Sampled(n), ~HasNext, NEW k \in Nat, IsChunk(k)
  PROVE  k <= n
<1>1. Size \in Nat /\ BatchSize \in Nat /\ n \in Nat
  BY RestTypes
<1>2. n * BatchSize \in Nat
  BY <1>1, Times
<1>3. n * BatchSize >= Size
  BY <1>1, <1>2 DEF Sampled, HasNext, AtMost
<1>4. k - 1 \in Nat /\ (k - 1) * BatchSize \in Nat
  BY <1>1, Times DEF IsChunk
<1>5. n <= k - 1 => n * BatchSize <= (k - 1) * BatchSize
  BY <1>1, <1>4, Times
<1>6. (k - 1) * BatchSize < Size
  BY DEF IsChunk
<1> HIDE DEF IsChunk
<1> QED BY <1>1, <1>2, <1>3, <1>4, <1>5, <1>6

\* The batches up to the last one taken are batches.
LEMMA Chunked ==
  ASSUME Rest, NEW n \in 0 .. Size, Sampled(n), NEW k \in 1 .. n
  PROVE  IsChunk(k) /\ k \in Nat
<1>1. Size \in Nat /\ BatchSize \in Nat /\ n \in Nat /\ n > 0
  BY RestTypes
<1>2. IsChunk(n)
  BY <1>1 DEF Sampled
<1>3. k - 1 \in Nat /\ n - 1 \in Nat /\ k - 1 <= n - 1
  BY <1>1
<1>4. /\ (k - 1) * BatchSize <= (n - 1) * BatchSize
      /\ (k - 1) * BatchSize \in Nat /\ (n - 1) * BatchSize \in Nat
  BY <1>1, <1>3, Times
<1> QED BY <1>1, <1>2, <1>4 DEF IsChunk

LEMMA NothingOwed ==
  ASSUME NEW n \in 0 .. Size, Size \in Nat, Asked(n, n), pc # "thrown"
  PROVE  Pool!Owed = {}
<1>1. \A k \in Fetch : k \in 1 .. n \/ k \in n + 1 .. Size
  BY DEF Fetch
<1> QED BY <1>1 DEF Asked, Pool!Owed

LEMMA ItemsFacts ==
  ASSUME Rest, NEW k \in Nat, IsChunk(k)
  PROVE  /\ ItemsOf(Chunk(k)) \in Seq(Index)
         /\ Len(ItemsOf(Chunk(k))) <= BatchSize
         /\ loader.missing = {} => ItemsOf(Chunk(k)) = Chunk(k)
<1>1. BatchSize \in Nat /\ order \in Orders
  BY RestTypes DEF Rest
<1>2. Chunk(k) \in Seq(Index) /\ Len(Chunk(k)) <= BatchSize
  BY <1>1, ChunkFacts
<1>3. /\ Without(Chunk(k), loader.missing) \in Seq(Index)
      /\ Len(Without(Chunk(k), loader.missing)) <= Len(Chunk(k))
      /\ loader.missing = {} => Without(Chunk(k), loader.missing) = Chunk(k)
  BY <1>2, WithoutFacts
<1>4. /\ Len(Chunk(k)) \in Nat /\ Len(Without(Chunk(k), loader.missing)) \in Nat
  BY <1>2, <1>3, LenProperties
<1> QED BY <1>1, <1>2, <1>3, <1>4 DEF ItemsOf

LEMMA QueueEmptyKeeps ==
  ASSUME Rest, NEW n \in 0 .. Size, NEW g \in 0 .. n, InvAt(g, n), QueueEmpty
  PROVE  LoaderInv'
<1> USE DEF InvAt
<1>1. Size \in Nat /\ FetchesAhead \in Nat \ {0} /\ n \in Nat /\ BatchSize \in Nat
  BY RestTypes
<1>2. /\ pc = "increment" /\ queue = <<>> /\ attached' = FALSE /\ pc' = "over"
      /\ UNCHANGED <<loader, order, taken, indices, queue, current, prefetched,
                     delivered, status, closed>>
  BY DEF QueueEmpty, AfterLast, sampler_vars, pool_vars
<1>3. BatchSize' = BatchSize /\ FetchesAhead' = FetchesAhead
  BY <1>2, Constant
<1>4. g = n /\ Len(delivered) = n
  BY <1>1, <1>2 DEF QueuedInOrder, Standing
<1>5. Sampled(n)' /\ Asked(n, n)' /\ QueuedInOrder(n, n)' /\ DeliveredInOrder(n)'
  BY <1>1, <1>2, <1>3, <1>4, SampledStays, AskedStays, DeliveredStays DEF QueuedInOrder
<1>6. Standing(n, n)'
  BY <1>2 DEF Standing
<1>7. \A k \in 1 .. Size : IsChunk(k) => k <= Len(delivered)
  <2>1. ~HasNext \/ BatchSize = 0
    BY <1>2 DEF Standing, Ahead
  <2>2. CASE ~HasNext
    BY <1>1, <1>4, <2>2, AllTaken
  <2>3. CASE BatchSize = 0
    BY <2>3 DEF IsChunk
  <2> QED BY <2>1, <2>2, <2>3
<1>8. Pool!Owed = {}
  BY <1>1, <1>2, <1>4, NothingOwed
<1>9. AtItsEnd'
  <2>1. \A k : IsChunk(k)' <=> IsChunk(k)
    BY <1>2, Constant
  <2>2. Len(delivered') = Len(delivered) /\ (Pool!Owed)' = {}
    BY <1>2, <1>8 DEF Pool!Owed
  <2> QED BY <1>7, <2>1, <2>2 DEF AtItsEnd
<1>10. Rest'
  BY <1>2, <1>3, <1>9 DEF Rest
<1>11. n \in 0 .. n
  BY <1>1
<1> QED BY <1>5, <1>6, <1>10, <1>11 DEF LoaderInv

LEMMA GetBatchKeeps ==
  ASSUME Rest, NEW n \in 0 .. Size, NEW g \in 0 .. n, InvAt(g, n), GetBatch
  PROVE  LoaderInv'
<1> USE DEF InvAt
<1>1. Size \in Nat /\ FetchesAhead \in Nat \ {0} /\ n \in Nat /\ BatchSize \in Nat
  BY RestTypes
<1>2. /\ pc = "increment" /\ queue # <<>> /\ queue' = Tail(queue)
      /\ UNCHANGED <<loader, order, taken, indices, attached, prefetched, delivered, status, closed>>
      /\ \/ /\ status[Head(queue)] = "value"
            /\ current' = ItemsOf(indices[Head(queue)]) /\ pc' = "refill"
         \/ /\ status[Head(queue)] = "exception"
            /\ pc' = "thrown" /\ current' = current
  BY DEF GetBatch, Popped, sampler_vars, pool_vars
<1>3. /\ queue \in Seq(Fetch) /\ Len(queue) = n - g /\ Len(queue) <= FetchesAhead
      /\ \A i \in 1 .. n - g : queue[i] = g + i
  BY <1>2 DEF QueuedInOrder
<1>4. /\ Len(queue) \in Nat \ {0} /\ Tail(queue) \in Seq(Fetch)
      /\ Len(Tail(queue)) = Len(queue) - 1
      /\ \A i \in 1 .. Len(queue) - 1 : Tail(queue)[i] = queue[i + 1]
      /\ Head(queue) = queue[1]
  BY <1>2, <1>3
<1>5. g + 1 \in 1 .. n /\ Head(queue) = g + 1
  BY <1>1, <1>3, <1>4
<1>6. BatchSize' = BatchSize /\ FetchesAhead' = FetchesAhead
      /\ (\A k : Chunk(k)' = Chunk(k)) /\ \A s : ItemsOf(s)' = ItemsOf(s)
  BY <1>2, Constant
<1>7. Sampled(n)' /\ DeliveredInOrder(n)'
  BY <1>1, <1>2, SampledStays, DeliveredStays
<1>8. CASE status[g + 1] = "value" /\ current' = ItemsOf(indices[g + 1]) /\ pc' = "refill"
  <2>1. indices[g + 1] = Chunk(g + 1)
    BY <1>1, <1>5 DEF Sampled, Fetch
  <2>2. ItemsOf(Chunk(g + 1)) \in Seq(Index)
    BY <1>5, Chunked, ItemsFacts
  <2>3. Rest'
    BY <1>2, <1>6, <1>8, <2>1, <2>2 DEF Rest, AtItsEnd
  <2>4. QueuedInOrder(g + 1, n)'
    <3>1. \A i \in 1 .. n - (g + 1) : queue'[i] = (g + 1) + i
      BY <1>1, <1>2, <1>3, <1>4
    <3> QED BY <1>1, <1>2, <1>3, <1>4, <1>6, <3>1 DEF QueuedInOrder
  <2>5. Asked(g + 1, n)'
    <3>1. \A k \in 1 .. g + 1 : k \in 1 .. g \/ k = g + 1
      BY <1>1
    <3> QED BY <1>2, <1>8, <3>1 DEF Asked
  <2>6. Standing(g + 1, n)'
    <3>1. Len(delivered) = g
      BY <1>2 DEF Standing
    <3>2. g + 1 >= 1 /\ (g + 1) - 1 = g /\ Len(queue') < FetchesAhead
      BY <1>1, <1>2, <1>3, <1>4
    <3> QED BY <1>2, <1>6, <1>8, <2>1, <3>1, <3>2 DEF Standing
  <2>7. g + 1 \in 0 .. n
    BY <1>5
  <2> QED BY <1>7, <2>3, <2>4, <2>5, <2>6, <2>7 DEF LoaderInv
<1>9. CASE pc' = "thrown" /\ current' = current
  <2>1. Rest'
    BY <1>2, <1>6, <1>9 DEF Rest, AtItsEnd
  <2>2. Asked(g, n)' /\ Standing(g, n)'
    BY <1>2, <1>9 DEF Asked, Standing
  <2>3. QueuedInOrder(g, n)'
    BY <1>1, <1>2, <1>3, <1>4, <1>6, <1>9 DEF QueuedInOrder
  <2> QED BY <1>7, <2>1, <2>2, <2>3 DEF LoaderInv
<1> QED BY <1>2, <1>5, <1>8, <1>9

LEMMA RefillKeeps ==
  ASSUME Rest, NEW n \in 0 .. Size, NEW g \in 0 .. n, InvAt(g, n), Refill
  PROVE  LoaderInv'
<1> USE DEF InvAt
<1>1. Size \in Nat /\ FetchesAhead \in Nat \ {0} /\ n \in Nat
  BY RestTypes
<1>2. /\ pc = "refill" /\ prefetched' = prefetched
      /\ \/ EnqueueFetch("decide")
         \/ /\ ~HasNext /\ pc' = "decide"
            /\ UNCHANGED <<loader, order, taken, indices, queue, current, attached, delivered,
                           status, closed>>
  BY DEF Refill, sampler_vars, pool_vars
<1>3. UNCHANGED <<loader, order, current, attached, delivered>>
  BY <1>2 DEF EnqueueFetch
<1>4. /\ BatchSize' = BatchSize /\ FetchesAhead' = FetchesAhead
      /\ (\A k : Chunk(k)' = Chunk(k)) /\ (\A s : ItemsOf(s)' = ItemsOf(s))
      /\ DeliveredInOrder(n)' /\ DeliveredInOrder(n + 1)'
  BY <1>1, <1>3, Constant, DeliveredStays
<1>5. /\ g >= 1 /\ Len(delivered) = g - 1 /\ current = ItemsOf(Chunk(g))
      /\ Len(queue) < FetchesAhead
  BY <1>2 DEF Standing
<1>6. prefetched' \in 0 .. FetchesAhead' /\ loader' \in Loader /\ order' \in Orders
      /\ current' \in Seq(Index) /\ attached' \in BOOLEAN
  BY <1>1, <1>2, <1>3, <1>4 DEF Rest
<1>7. CASE /\ ~HasNext \/ BatchSize = 0
           /\ pc' = "decide"
           /\ UNCHANGED <<taken, indices, queue, status, closed>>
  <2>1. Sampled(n)' /\ Asked(g, n)' /\ QueuedInOrder(g, n)'
    BY <1>2, <1>3, <1>4, <1>7, SampledStays, AskedStays DEF QueuedInOrder
  <2>2. Ahead'
    BY <1>4, <1>7 DEF Ahead, HasNext
  <2>3. Standing(g, n)'
    BY <1>3, <1>4, <1>5, <1>7, <2>2 DEF Standing
  <2>4. Rest'
    BY <1>6, <1>7 DEF Rest, AtItsEnd
  <2> QED BY <1>4, <2>1, <2>3, <2>4 DEF LoaderInv
<1>8. CASE /\ n < Size
           /\ Sampled(n + 1)' /\ Asked(g, n + 1)'
           /\ \/ pc' = "thrown" /\ queue' = queue
              \/ pc' = "decide" /\ queue' = Append(queue, n + 1)
           /\ closed' = closed
  <2>1. Rest'
    BY <1>6, <1>8 DEF Rest, AtItsEnd
  <2>2. QueuedInOrder(g, n + 1)' /\ Standing(g, n + 1)'
    <3>1. CASE pc' = "thrown" /\ queue' = queue
      BY <1>4, <3>1 DEF QueuedInOrder, Standing
    <3>2. CASE pc' = "decide" /\ queue' = Append(queue, n + 1)
      <4>1. QueuedInOrder(g, n + 1)' /\ queue' # <<>>
        BY <1>1, <1>2, <1>4, <1>5, <1>8, <3>2, QueueGrows
      <4>2. Standing(g, n + 1)'
        BY <1>3, <1>4, <1>5, <3>2, <4>1 DEF Standing, Ahead
      <4> QED BY <4>1, <4>2
    <3> QED BY <1>8, <3>1, <3>2
  <2>3. n + 1 \in 0 .. Size /\ g \in 0 .. n + 1
    BY <1>1, <1>8
  <2> QED BY <1>4, <1>8, <2>1, <2>2, <2>3 DEF LoaderInv
<1> QED BY <1>2, <1>7, <1>8, EnqueueFetchIs

\* What Decide finds when it ends the loop.
LEMMA DecideEnds ==
  ASSUME Rest, NEW n \in 0 .. Size, NEW g \in 0 .. n, InvAt(g, n),
         pc = "decide", Dropped \/ EndsHere
  PROVE  /\ ~DropLast => \A k \in 1 .. Size :
                           IsChunk(k) => k <= Len(delivered) \/ ItemsOf(Chunk(k)) = <<>>
         /\ loader.missing = {} => \A k \in 1 .. Size :
                           IsChunk(k) /\ k * BatchSize <= Size => k <= Len(delivered)
         /\ loader.missing = {} \/ ~DropLast => Pool!Owed = {}
<1> USE DEF InvAt
<1>1. Size \in Nat /\ n \in Nat /\ g \in Nat /\ BatchSize \in Nat /\ order \in Orders
  BY RestTypes DEF Rest
<1>2. g \in 1 .. n /\ Len(delivered) = g - 1 /\ current = ItemsOf(Chunk(g))
  BY <1>1 DEF Standing
<1>3. IsChunk(g)
  BY <1>2, Chunked
<1>4. CASE Dropped /\ loader.missing = {}
  <2>1. DropLast /\ Len(Chunk(g)) < BatchSize
    BY <1>1, <1>2, <1>3, <1>4, ItemsFacts DEF Dropped
  <2>2. g * BatchSize > Size /\ g * BatchSize \in Nat
    BY <1>1, <1>3, <2>1, ChunkFacts, Times
  <2>3. \A k \in 1 .. Size : k * BatchSize <= Size => k <= Len(delivered)
    <3> SUFFICES ASSUME NEW k \in 1 .. Size, k * BatchSize <= Size
                 PROVE  k < g
      BY <1>1, <1>2
    <3>1. k * BatchSize \in Nat /\ (g <= k => g * BatchSize <= k * BatchSize)
      BY <1>1, Times
    <3> QED BY <1>1, <2>2, <3>1
  <2>4. g = n
    <3>1. IsChunk(n)
      BY <1>1, <1>2 DEF Sampled
    <3>2. n - 1 \in Nat /\ (n - 1) * BatchSize \in Nat
          /\ (g <= n - 1 => g * BatchSize <= (n - 1) * BatchSize)
      BY <1>1, <1>2, Times
    <3>3. (n - 1) * BatchSize < Size
      BY <3>1 DEF IsChunk
    <3> QED BY <1>1, <1>2, <2>2, <3>2, <3>3
  <2>5. Pool!Owed = {}
    BY <1>1, <2>4, NothingOwed
  <2> QED BY <2>1, <2>3, <2>5
<1>5. CASE Dropped /\ loader.missing # {}
  BY <1>5 DEF Dropped
<1>6. CASE EndsHere
  <2>1. queue = <<>> /\ ~HasNext /\ current = <<>>
    BY <1>6 DEF EndsHere
  <2>2. g = n
    BY <1>1, <2>1 DEF QueuedInOrder
  <2>3. \A k \in 1 .. Size : IsChunk(k) => k <= n
    BY <1>1, <2>1, AllTaken
  <2>4. Pool!Owed = {}
    BY <1>1, <2>2, NothingOwed
  <2>5. loader.missing # {}
    <3>1. Chunk(g) # <<>>
      BY <1>1, <1>3, ChunkFacts
    <3> QED BY <1>1, <1>2, <1>3, <2>1, <3>1, ItemsFacts
  <2>6. \A k \in 1 .. Size : IsChunk(k) => k <= Len(delivered) \/ ItemsOf(Chunk(k)) = <<>>
    <3>1. \A k \in 1 .. Size : k <= n => k <= n - 1 \/ k = n
      BY <1>1
    <3> QED BY <1>2, <2>1, <2>2, <2>3, <3>1
  <2> QED BY <2>4, <2>5, <2>6
<1> QED BY <1>4, <1>5, <1>6

LEMMA DecideKeeps ==
  ASSUME Rest, NEW n \in 0 .. Size, NEW g \in 0 .. n, InvAt(g, n), Decide
  PROVE  LoaderInv'
<1> USE DEF InvAt
<1>1. Size \in Nat /\ FetchesAhead \in Nat \ {0} /\ n \in Nat /\ BatchSize \in Nat
  BY RestTypes
<1>2. /\ pc = "decide" /\ attached' = ~(Dropped \/ EndsHere)
      /\ pc' = IF attached' THEN "body" ELSE "over"
      /\ UNCHANGED <<loader, order, taken, indices, queue, current, prefetched,
                     delivered, status, closed>>
  BY DEF Decide, sampler_vars, pool_vars
<1>3. /\ BatchSize' = BatchSize /\ DropLast' = DropLast /\ FetchesAhead' = FetchesAhead
      /\ (\A k : Chunk(k)' = Chunk(k)) /\ (\A s : ItemsOf(s)' = ItemsOf(s))
      /\ \A k : IsChunk(k)' <=> IsChunk(k)
  BY <1>2, Constant
<1>4. Sampled(n)' /\ Asked(g, n)' /\ DeliveredInOrder(n)'
  BY <1>1, <1>2, SampledStays, AskedStays, DeliveredStays
<1>5. QueuedInOrder(g, n)'
  BY <1>2, <1>3 DEF QueuedInOrder
<1>6. CASE Dropped \/ EndsHere
  <2>1. pc' = "over" /\ attached' = FALSE
    BY <1>2, <1>6
  <2>2. Standing(g, n)'
    BY <2>1 DEF Standing
  <2>3. (Pool!Owed)' = Pool!Owed
    BY <1>2 DEF Pool!Owed
  <2>4. AtItsEnd'
    BY <1>2, <1>3, <1>6, <2>3, DecideEnds DEF AtItsEnd
  <2>5. Rest'
    BY <1>2, <1>3, <2>1, <2>4 DEF Rest
  <2> QED BY <1>4, <1>5, <2>2, <2>5 DEF LoaderInv
<1>7. CASE ~(Dropped \/ EndsHere)
  <2>1. pc' = "body" /\ attached' = TRUE
    BY <1>2, <1>7
  <2>2. DropLast => Len(current) >= BatchSize
    <3>1. current \in Seq(Index)
      BY DEF Rest
    <3>2. Len(current) \in Nat
      BY <3>1
    <3> QED BY <1>1, <1>7, <3>2 DEF Dropped
  <2>3. Ahead' /\ g >= 1 /\ Len(delivered) = g - 1 /\ current = ItemsOf(Chunk(g))
    BY <1>2, <1>3 DEF Standing, Ahead, HasNext
  <2>4. Standing(g, n)'
    BY <1>2, <1>3, <2>1, <2>2, <2>3 DEF Standing
  <2>5. Rest'
    BY <1>2, <1>3, <2>1 DEF Rest, AtItsEnd
  <2> QED BY <1>4, <1>5, <2>4, <2>5 DEF LoaderInv
<1> QED BY <1>6, <1>7

LEMMA BodyKeeps ==
  ASSUME Rest, NEW n \in 0 .. Size, NEW g \in 0 .. n, InvAt(g, n), Body
  PROVE  LoaderInv'
<1> USE DEF InvAt
<1>1. Size \in Nat /\ FetchesAhead \in Nat \ {0} /\ n \in Nat /\ g \in Nat /\ BatchSize \in Nat
  BY RestTypes
<1>2. /\ pc = "body" /\ delivered' = Append(delivered, current)
      /\ pc' \in {"increment", "left"}
      /\ UNCHANGED <<loader, order, taken, indices, queue, current, attached, prefetched,
                     status, closed>>
  BY DEF Body, sampler_vars, pool_vars
<1>3. /\ BatchSize' = BatchSize /\ DropLast' = DropLast /\ FetchesAhead' = FetchesAhead
      /\ (\A k : Chunk(k)' = Chunk(k)) /\ (\A s : ItemsOf(s)' = ItemsOf(s))
  BY <1>2, Constant
<1>4. /\ g \in 1 .. n /\ Len(delivered) = g - 1 /\ current = ItemsOf(Chunk(g))
      /\ Ahead /\ (DropLast => Len(current) >= BatchSize)
  BY <1>1, <1>2 DEF Standing
<1>5. Sampled(n)' /\ Asked(g, n)' /\ QueuedInOrder(g, n)'
  BY <1>2, <1>3, SampledStays, AskedStays DEF QueuedInOrder
<1>6. DeliveredInOrder(n)' /\ Len(delivered') = g
  <2>1. delivered \in Seq(Seq(Index)) /\ current \in Seq(Index)
    BY DEF DeliveredInOrder, Rest
  <2>2. /\ delivered' \in Seq(Seq(Index)) /\ Len(delivered') = g
        /\ \A k \in 1 .. g - 1 : delivered'[k] = delivered[k]
        /\ delivered'[g] = current
    BY <1>1, <1>2, <1>4, <2>1, AppendProperties
  <2>3. DropLast => Len(current) = BatchSize
    <3>1. Len(current) <= BatchSize /\ Len(current) \in Nat
      BY <1>4, <2>1, Chunked, ItemsFacts
    <3> QED BY <1>1, <1>4, <3>1
  <2>4. \A k \in 1 .. g : k \in 1 .. g - 1 \/ k = g
    BY <1>1
  <2>5. \A k \in 1 .. g : delivered'[k] = ItemsOf(Chunk(k))
    BY <1>4, <2>2, <2>4 DEF DeliveredInOrder
  <2>6. DropLast => \A k \in 1 .. g : Len(delivered'[k]) = BatchSize
    BY <1>4, <2>2, <2>3, <2>4 DEF DeliveredInOrder
  <2>7. g <= n
    BY <1>1, <1>4
  <2> QED BY <1>3, <2>2, <2>5, <2>6, <2>7 DEF DeliveredInOrder
<1>7. Standing(g, n)'
  BY <1>2, <1>3, <1>4, <1>6 DEF Standing, Ahead, HasNext
<1>8. Rest'
  BY <1>2, <1>3 DEF Rest, AtItsEnd
<1> QED BY <1>5, <1>6, <1>7, <1>8 DEF LoaderInv

\* The pool finishes what it has accepted and touches nothing of the loop.
LEMMA PoolKeeps ==
  ASSUME Rest, NEW n \in 0 .. Size, NEW g \in 0 .. n, InvAt(g, n),
         PoolStep \/ PoolCloses \/ UNCHANGED vars
  PROVE  LoaderInv'
<1> USE DEF InvAt
<1>1. Size \in Nat /\ n \in Nat
  BY RestTypes
<1>2. /\ UNCHANGED <<loader, order, taken, indices, queue, current, attached, pc, prefetched, delivered>>
      /\ closed' \in BOOLEAN
      /\ \/ status' = status
         \/ \E k \in Fetch : /\ status[k] \in {"queued", "running"}
                             /\ \E x \in Pool!Status \ {"new"} : status' = [status EXCEPT ![k] = x]
  <2>1. CASE PoolStep
    BY <2>1 DEF PoolStep, FetchStarts, FetchEnds, loop_vars, sampler_vars, Pool!Start, Pool!Finish,
                Pool!Status, Rest
  <2>2. CASE PoolCloses
    BY <2>2 DEF PoolCloses, loop_vars, sampler_vars, Pool!Close
  <2>3. CASE UNCHANGED vars
    BY <2>3 DEF vars, sampler_vars, pool_vars, Rest
  <2> QED BY <2>1, <2>2, <2>3
<1>3. /\ BatchSize' = BatchSize /\ DropLast' = DropLast /\ FetchesAhead' = FetchesAhead
      /\ (\A k : Chunk(k)' = Chunk(k)) /\ (\A s : ItemsOf(s)' = ItemsOf(s))
      /\ \A k : IsChunk(k)' <=> IsChunk(k)
  BY <1>2, Constant
<1>4. Sampled(n)' /\ DeliveredInOrder(n)'
  BY <1>1, <1>2, SampledStays, DeliveredStays
<1>5. QueuedInOrder(g, n)' /\ Standing(g, n)'
  BY <1>2, <1>3 DEF QueuedInOrder, Standing, Ahead, HasNext
<1>6. Asked(g, n)' /\ (Pool!Owed = {} => (Pool!Owed)' = {})
  <2>1. CASE status' = status
    BY <1>2, <2>1 DEF Asked, Pool!Owed
  <2>2. ASSUME NEW k \in Fetch, status[k] \in {"queued", "running"},
               NEW x \in Pool!Status \ {"new"}, status' = [status EXCEPT ![k] = x]
        PROVE  Asked(g, n)' /\ (Pool!Owed = {} => (Pool!Owed)' = {})
    <3>1. status \in [Fetch -> Pool!Status]
      BY DEF Asked
    <3>2. k \notin 1 .. g /\ k \in Pool!Owed
      BY <2>2 DEF Asked, Pool!Owed
    <3>3. pc # "thrown" => k \notin n + 1 .. Size
      BY <2>2 DEF Asked
    <3>4. \A j \in Fetch : j # k => status'[j] = status[j]
      BY <2>2, <3>1
    <3>5. \A j \in 1 .. g : j \in Fetch
      BY <1>1 DEF Fetch
    <3>6. \A j \in n + 1 .. Size : j \in Fetch
      BY <1>1 DEF Fetch
    <3>7. status' \in [Fetch -> Pool!Status]
      BY <2>2, <3>1
    <3>8. Asked(g, n)'
      BY <1>2, <3>2, <3>3, <3>4, <3>5, <3>6, <3>7 DEF Asked
    <3> QED BY <3>2, <3>8
  <2> QED BY <1>2, <2>1, <2>2
<1>7. Rest'
  BY <1>2, <1>3, <1>6 DEF Rest, AtItsEnd
<1> QED BY <1>4, <1>5, <1>6, <1>7 DEF LoaderInv

LEMMA LoaderInductive ==
  ASSUME LoaderInv, [Next]_vars
  PROVE  LoaderInv'
<1>1. PICK n \in 0 .. Size : \E g \in 0 .. n : InvAt(g, n)
  BY DEF LoaderInv
<1>2. PICK g \in 0 .. n : InvAt(g, n)
  BY <1>1
<1>3. Rest
  BY DEF LoaderInv
<1> QED
  BY <1>2, <1>3, ConstructKeeps, ConstructedKeeps, QueueEmptyKeeps, GetBatchKeeps, RefillKeeps,
     DecideKeeps, BodyKeeps, PoolKeeps
  DEF Next, LoaderStep, Finished

LEMMA LoaderInitially == Init => LoaderInv
<1> SUFFICES ASSUME Init PROVE LoaderInv
  OBVIOUS
<1>1. Rest
  <2>1. loader \in Loader /\ order \in Orders
    BY DEF Init, Loader
  <2>2. FetchesAhead \in Nat
    <3>1. loader.prefetch_batches \in Nat
      BY <2>1, LoaderAssumption DEF Loader
    <3> QED BY <3>1 DEF FetchesAhead
  <2>3. prefetched \in 0 .. FetchesAhead
    BY <2>2 DEF Init
  <2>4. /\ current = <<>> /\ attached = TRUE /\ closed = FALSE /\ pc = "construct"
    BY DEF Init, Pool!Init
  <2>5. <<>> \in Seq(Index)
    OBVIOUS
  <2> QED BY <2>1, <2>3, <2>4, <2>5 DEF Rest, AtItsEnd
<1>2. Size \in Nat /\ BatchSize \in Nat /\ FetchesAhead \in Nat
  BY <1>1, RestTypes
<1>3. Sampled(0)
  <2>1. 0 * BatchSize = 0
    BY <1>2
  <2>2. taken = AtMost(0 * BatchSize, Size)
    BY <1>2, <2>1 DEF Init, AtMost
  <2>3. indices \in [Fetch -> Seq(Index)] /\ \A k \in Fetch : indices[k] = <<>> /\ ~(k <= 0)
    BY <1>2 DEF Init, Fetch
  <2> QED BY <1>2, <2>2, <2>3 DEF Sampled
<1>4. QueuedInOrder(0, 0) /\ Asked(0, 0) /\ DeliveredInOrder(0) /\ Standing(0, 0)
  BY <1>2 DEF Init, QueuedInOrder, Asked, DeliveredInOrder, Standing, Pool!Init, Pool!Status, Fetch
<1>5. 0 \in 0 .. Size /\ 0 \in 0 .. 0
  BY <1>2
<1> QED BY <1>1, <1>3, <1>4, <1>5 DEF LoaderInv, InvAt

LEMMA LoaderAlways == Spec => []LoaderInv
<1>1. Init => LoaderInv BY LoaderInitially
<1>2. LoaderInv /\ [Next]_vars => LoaderInv' BY LoaderInductive
<1> QED BY <1>1, <1>2, PTL DEF Spec

-------------------------------------------------------------------------------
(* What follows from it.                                                   *)

\* However the fetches overtake each other in the pool, the k-th round of the loop over
\* dataloader_t sees the k-th batch of the sampler's order, and a loop that ends without
\* drop_last has seen every item: for every dataset, order, batch size and prefetch.
THEOREM BatchesInOrder == Spec => []InOrder
<1>1. ASSUME LoaderInv
      PROVE  InOrder
  <2>1. PICK n \in 0 .. Size : \E g \in 0 .. n : InvAt(g, n)
    BY <1>1 DEF LoaderInv
  <2>2. PICK g \in 0 .. n : InvAt(g, n)
    BY <2>1
  <2>3. Rest /\ Size \in Nat /\ BatchSize \in Nat /\ Sampled(n) /\ DeliveredInOrder(n)
    BY <1>1, <2>2, RestTypes DEF LoaderInv, InvAt
  <2>4. \A k \in DOMAIN delivered : k \in 1 .. n /\ delivered[k] = ItemsOf(Chunk(k))
    BY <2>3 DEF DeliveredInOrder
  <2>5. \A k \in 1 .. n : k <= Chunks
    <3>1. \A k \in 1 .. n : k \in Nat /\ IsChunk(k)
      BY <2>3, Chunked
    <3> QED BY <2>3, <3>1, ChunksCounts
  <2>6. ASSUME pc = "over", ~DropLast, NEW k \in 1 .. Chunks
        PROVE  k \in DOMAIN delivered \/ ItemsOf(Chunk(k)) = <<>>
    <3>1. IsChunk(k) /\ k \in 1 .. Size
      BY <2>3, ChunksCounts, ChunkFacts DEF Rest
    <3>2. k <= Len(delivered) \/ ItemsOf(Chunk(k)) = <<>>
      BY <2>3, <2>6, <3>1 DEF Rest, AtItsEnd
    <3>3. DOMAIN delivered = 1 .. Len(delivered) /\ Len(delivered) \in Nat
      BY <2>3 DEF DeliveredInOrder
    <3> QED BY <3>1, <3>2, <3>3
  <2> QED BY <2>4, <2>5, <2>6 DEF InOrder
<1> QED BY <1>1, LoaderAlways, PTL

\* With drop_last the body never sees a short batch, and it sees every complete one if
\* no item is missing.
THEOREM DropsOnlyTheRest == Spec => []OnlyRestDropped
<1>1. ASSUME LoaderInv
      PROVE  OnlyRestDropped
  <2>1. PICK n \in 0 .. Size : \E g \in 0 .. n : InvAt(g, n)
    BY <1>1 DEF LoaderInv
  <2>2. PICK g \in 0 .. n : InvAt(g, n)
    BY <2>1
  <2>3. Rest /\ Size \in Nat /\ BatchSize \in Nat /\ DeliveredInOrder(n)
    BY <1>1, <2>2, RestTypes DEF LoaderInv, InvAt
  <2>4. DOMAIN delivered = 1 .. Len(delivered) /\ Len(delivered) \in Nat
    BY <2>3 DEF DeliveredInOrder
  <2>5. DropLast => \A k \in DOMAIN delivered : Len(delivered[k]) = BatchSize
    BY <2>3, <2>4 DEF DeliveredInOrder
  <2>6. ASSUME pc = "over", loader.missing = {}, NEW k \in 1 .. Chunks, Len(Chunk(k)) = BatchSize
        PROVE  k \in DOMAIN delivered
    <3>1. IsChunk(k) /\ k \in 1 .. Size /\ k * BatchSize <= Size
      <4>1. IsChunk(k) /\ k \in Nat
        BY <2>3, ChunksCounts
      <4>2. k \in 1 .. Size /\ ~(k * BatchSize > Size)
        BY <2>3, <2>6, <4>1, ChunkFacts DEF Rest
      <4>3. k * BatchSize \in Nat
        BY <2>3, <4>1, Times
      <4> QED BY <2>3, <4>1, <4>2, <4>3
    <3> QED BY <2>3, <2>4, <2>6, <3>1 DEF Rest, AtItsEnd
  <2> QED BY <2>5, <2>6 DEF OnlyRestDropped
<1> QED BY <1>1, LoaderAlways, PTL

\* The loader is never further ahead of the loop than prefetch_batches, and a loop that
\* ran to its end leaves no fetch behind in the pool.
THEOREM PrefetchStaysBounded == Spec => []PrefetchBounded
<1>1. ASSUME LoaderInv
      PROVE  PrefetchBounded
  <2>1. PICK n \in 0 .. Size : \E g \in 0 .. n : InvAt(g, n)
    BY <1>1 DEF LoaderInv
  <2>2. PICK g \in 0 .. n : InvAt(g, n)
    BY <2>1
  <2>3. /\ Rest /\ Size \in Nat /\ BatchSize \in Nat /\ n \in Nat
        /\ Sampled(n) /\ QueuedInOrder(g, n) /\ Asked(g, n) /\ DeliveredInOrder(n)
    BY <1>1, <2>2, RestTypes DEF LoaderInv, InvAt
  <2>4. TypeOK
    <3>1. taken \in 0 .. Size
      <4>1. n * BatchSize \in Nat
        BY <2>3, Times
      <4> QED BY <2>3, <4>1 DEF Sampled, AtMost
    <3>2. loader.batch_size \in BatchSizes /\ loader.prefetch_batches \in Prefetches
      BY <2>3 DEF Rest, Loader
    <3> QED BY <2>3, <3>1, <3>2
            DEF TypeOK, Rest, Sampled, QueuedInOrder, Asked, DeliveredInOrder, Pool!TypeOK
  <2> QED BY <2>3, <2>4 DEF PrefetchBounded, Rest, AtItsEnd, QueuedInOrder
<1> QED BY <1>1, LoaderAlways, PTL

===============================================================================
