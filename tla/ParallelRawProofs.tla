--------------------------- MODULE ParallelRawProofs ---------------------------
(***************************************************************************)
(* Theorems about ParallelRaw for ranges of any length, any number of      *)
(* threads and any pool.                                                   *)
(***************************************************************************)
EXTENDS ParallelRaw, SequenceFacts, FiniteSetTheorems

-------------------------------------------------------------------------------
(* Cutting a range.                                                        *)

LEMMA CeilDivFacts ==
  ASSUME NEW a \in Nat, NEW b \in Nat \ {0}
  PROVE  /\ CeilDiv(a, b) \in Nat
         /\ CeilDiv(a, b) * b >= a
         /\ \A k \in 1 .. CeilDiv(a, b) : (k - 1) * b < a
         /\ a > 0 => CeilDiv(a, b) >= 1
<1> DEFINE q == (a + b - 1) \div b
<1>1. q \in Int /\ b * q <= a + b - 1 /\ a + b - 1 < b * q + b
  OBVIOUS
<1>2. q \in Nat
  OBVIOUS
<1> HIDE DEF q
<1>3. q * b >= a
  BY <1>1, <1>2
<1>4. ASSUME NEW k \in 1 .. q PROVE (k - 1) * b < a
  <2>1. k - 1 \in Nat /\ q - 1 \in Nat /\ k - 1 <= q - 1
    BY <1>2
  <2>2. (k - 1) * b <= (q - 1) * b /\ ((q - 1) + 1) * b = (q - 1) * b + b
    BY <2>1, Products
  <2>3. (q - 1) + 1 = q
    BY <1>2
  <2> QED BY <1>1, <2>1, <2>2, <2>3
<1>5. a > 0 => q >= 1
  BY <1>3, <1>2
<1>6. CeilDiv(a, b) = q
  BY DEF CeilDiv, q
<1> QED BY <1>2, <1>3, <1>4, <1>5, <1>6

-------------------------------------------------------------------------------
(* Pieces that follow one another from the beginning of the range to its   *)
(* end.                                                                    *)

Bounds == [lo : 0 .. Total, hi : 0 .. Total]

Tiles(rs) ==
  /\ rs \in Seq(Bounds) /\ rs # <<>>
  /\ rs[1].lo = 0 /\ rs[Len(rs)].hi = Total
  /\ \A k \in 1 .. Len(rs) : rs[k].lo <= rs[k].hi
  /\ \A k \in 1 .. Len(rs) - 1 : rs[k].hi = rs[k + 1].lo
  /\ \A k, l \in 1 .. Len(rs) : k < l => rs[k].hi <= rs[l].lo

Called == call \in [op : Ops, size : Sizes, threads : ThreadCounts, hardware : HardwareCounts]

LEMMA TotalIs == Called => Total \in Nat
BY ParallelAssumption DEF Called, Total

LEMMA ChunkSizeIs ==
  ASSUME Called
  PROVE  ChunkSize \in Nat \ {0}
<1>1. call.threads \in Nat \ {0} /\ call.hardware \in Nat /\ Total \in Nat
  BY ParallelAssumption DEF Called, Total
<1>2. NumTasks \in Nat \ {0}
  BY <1>1 DEF NumTasks, AtLeast, AtMost
<1>3. PerTask(NumTasks) \in Nat
  BY <1>1, <1>2, CeilDivFacts DEF PerTask
<1>4. Run \in Nat \ {0} /\ MinChunk \in Nat \ {0}
  BY ParallelAssumption
<1> QED BY <1>3, <1>4 DEF ChunkSize, AtLeast

LEMMA ChunksTile ==
  ASSUME Called, Total # 0
  PROVE  Tiles(Chunks)
<1> DEFINE c == ChunkSize
           m == CeilDiv(Total, c)
           begin(k) == (k - 1) * c
<1>1. Total \in Nat /\ c \in Nat \ {0}
  BY TotalIs, ChunkSizeIs
<1>2. m \in Nat /\ m >= 1 /\ m * c >= Total /\ \A k \in 1 .. m : begin(k) < Total
  BY <1>1, CeilDivFacts
<1>3. Chunks = [k \in 1 .. m |-> Piece(begin(k), AtMost(begin(k) + c, Total))]
  BY DEF Chunks, ChunkEnd
<1> HIDE DEF m, c
<1>4. ASSUME NEW k \in 1 .. m, NEW l \in 1 .. m, k < l
      PROVE  /\ begin(k) + c <= begin(l)
             /\ l = k + 1 => begin(k) + c = begin(l)
  <2>1. k - 1 \in Nat /\ k \in Nat /\ l - 1 \in Nat /\ k <= l - 1 /\ k - 1 + 1 = k
    BY <1>2, <1>4
  <2>2. k * c = (k - 1) * c + c
    BY <1>1, <2>1, Products
  <2>3. k * c <= (l - 1) * c
    BY <1>1, <2>1, Products
  <2>4. l = k + 1 => l - 1 = k
    BY <2>1
  <2> QED BY <2>2, <2>3, <2>4
<1>5. \A k \in 1 .. m : begin(k) \in Nat
  <2>1. \A k \in 1 .. m : k - 1 \in Nat
    BY <1>2
  <2> QED BY <1>1, <2>1, Products
<1>6. begin(1) = 0 /\ begin(m) + c >= Total
  <2>1. m - 1 \in Nat /\ (m - 1) + 1 = m
    BY <1>2
  <2>2. m * c = (m - 1) * c + c
    BY <1>1, <2>1, Products
  <2>3. (1 - 1) * c = 0
    BY <1>1
  <2> QED BY <1>2, <2>2, <2>3
<1> HIDE DEF begin
<1>7. Len(Chunks) = m /\ \A k \in 1 .. m : Chunks[k] = [lo |-> begin(k), hi |-> AtMost(begin(k) + c, Total)]
  BY <1>2, <1>3 DEF Piece
<1>8. \A k \in 1 .. m :
        /\ Chunks[k] \in Bounds
        /\ Chunks[k].lo = begin(k) /\ Chunks[k].lo <= Chunks[k].hi
        /\ Chunks[k].hi <= begin(k) + c
        /\ begin(k) + c <= Total => Chunks[k].hi = begin(k) + c
        /\ begin(k) + c >= Total => Chunks[k].hi = Total
  <2> TAKE k \in 1 .. m
  <2> DEFINE b == begin(k)
             e == AtMost(b + c, Total)
  <2>1. b \in Nat /\ b < Total /\ Chunks[k] = [lo |-> b, hi |-> e]
    BY <1>2, <1>5, <1>7
  <2> HIDE DEF b
  <2>2. e \in 0 .. Total /\ b \in 0 .. Total /\ b <= e /\ e <= b + c
    BY <1>1, <2>1 DEF AtMost
  <2>3. (b + c <= Total => e = b + c) /\ (b + c >= Total => e = Total)
    BY <1>1, <2>1 DEF AtMost
  <2> HIDE DEF e
  <2> QED BY <2>1, <2>2, <2>3 DEF Bounds, b
<1>9. Chunks \in Seq(Bounds)
  BY <1>2, <1>3, <1>7, <1>8
<1>10. \A k \in 1 .. m - 1 : Chunks[k].hi = Chunks[k + 1].lo
  <2> TAKE k \in 1 .. m - 1
  <2>1. k \in 1 .. m /\ k + 1 \in 1 .. m /\ k < k + 1
    BY <1>2
  <2>2. begin(k) + c = begin(k + 1) /\ begin(k + 1) < Total
    BY <1>2, <1>4, <2>1
  <2> QED BY <1>1, <1>5, <1>8, <2>1, <2>2
<1>11. \A k, l \in 1 .. m : k < l => Chunks[k].hi <= Chunks[l].lo
  <2> SUFFICES ASSUME NEW k \in 1 .. m, NEW l \in 1 .. m, k < l
               PROVE  Chunks[k].hi <= Chunks[l].lo
    OBVIOUS
  <2>1. begin(k) + c <= begin(l) /\ begin(k) \in Nat /\ begin(l) \in Nat
    BY <1>4, <1>5
  <2>2. Chunks[k].hi <= begin(k) + c /\ Chunks[l].lo = begin(l) /\ Chunks[k].hi \in Nat
    BY <1>8 DEF Bounds
  <2> QED BY <1>1, <2>1, <2>2
<1>12. 1 \in 1 .. m /\ m \in 1 .. m
  BY <1>2
<1>13. Chunks[1].lo = 0 /\ Chunks[m].hi = Total /\ Chunks # <<>>
  BY <1>2, <1>6, <1>7, <1>8, <1>12
<1> QED BY <1>7, <1>8, <1>9, <1>10, <1>11, <1>13 DEF Tiles

\* Nothing of the range is between the pieces.
LEMMA TilesCover ==
  ASSUME Called, NEW rs, Tiles(rs), NEW i \in 0 .. Total - 1
  PROVE  \E k \in 1 .. Len(rs) : i \in Positions(rs[k])
<1> DEFINE T == {k \in 1 .. Len(rs) : rs[k].hi > i}
<1>1. Len(rs) \in Nat \ {0} /\ \A k \in 1 .. Len(rs) : rs[k] \in Bounds
  BY DEF Tiles
<1>2. Total \in Nat
  BY TotalIs
<1>3. Len(rs) \in T
  BY <1>1, <1>2 DEF Tiles
<1>4. T \subseteq Nat /\ T # {}
  BY <1>3
<1>5. PICK k \in T : \A l \in T : k <= l
  <2> HIDE DEF T
  <2> QED BY <1>4, Least
<1>6. rs[k].lo <= i
  <2>1. CASE k = 1
    BY <2>1 DEF Tiles
  <2>2. CASE k # 1
    <3>1. k - 1 \in 1 .. Len(rs) - 1 /\ k - 1 \in 1 .. Len(rs) /\ (k - 1) + 1 = k
      BY <1>1, <2>2
    <3>2. ~(rs[k - 1].hi > i)
      BY <1>5, <3>1
    <3>3. rs[k - 1].hi = rs[k].lo
      BY <3>1 DEF Tiles
    <3> QED BY <1>1, <3>1, <3>2, <3>3 DEF Bounds
  <2> QED BY <2>1, <2>2
<1>7. rs[k] \in Bounds /\ rs[k].hi > i
  BY <1>1, <1>5
<1> QED BY <1>6, <1>7 DEF Positions, Bounds

LEMMA HalvesFacts ==
  ASSUME NEW n \in Nat \ {0}
  PROVE  /\ CeilDiv(n, 2) \in Nat \ {0} /\ n \div 2 \in Nat
         /\ n - 1 <= 2 * (n \div 2) /\ 2 * (n \div 2) <= n
         /\ n <= 2 * CeilDiv(n, 2) /\ 2 * CeilDiv(n, 2) <= n + 1
         /\ n > 1 => CeilDiv(n, 2) < n
BY DEF CeilDiv

LEMMA NewRangesTile ==
  ASSUME Called, NEW rs, Tiles(rs)
  PROVE  Tiles(NewRanges(rs))
<1> DEFINE n == Len(rs)
           m == CeilDiv(n, 2)
           last(k) == AtMost(2 * k, n)
           new == NewRanges(rs)
<1>1. n \in Nat \ {0} /\ \A k \in 1 .. n : rs[k] \in Bounds
  BY DEF Tiles
<1>2. m \in Nat \ {0} /\ n <= 2 * m /\ 2 * m <= n + 1
  BY <1>1, HalvesFacts
<1>3. new = [k \in 1 .. m |-> Piece(rs[2 * k - 1].lo, rs[last(k)].hi)]
  BY DEF NewRanges
<1> HIDE DEF m, new
<1>4. Total \in Nat
  BY TotalIs
<1>5. ASSUME NEW k \in 1 .. m
      PROVE  /\ 2 * k - 1 \in 1 .. n /\ last(k) \in 1 .. n
             /\ last(k) = 2 * k - 1 \/ last(k) = (2 * k - 1) + 1
             /\ \A l \in 1 .. m : k < l => last(k) < 2 * l - 1
             /\ k < m => last(k) + 1 = 2 * (k + 1) - 1 /\ last(k) \in 1 .. n - 1
             /\ k = m => last(k) = n
  <2> HIDE DEF n
  <2> QED BY <1>1, <1>2 DEF AtMost
<1> HIDE DEF last, n
<1>6. Len(new) = m /\ \A k \in 1 .. m : new[k] = [lo |-> rs[2 * k - 1].lo, hi |-> rs[last(k)].hi]
  BY <1>2, <1>3 DEF Piece
<1>7. \A k \in 1 .. m : /\ new[k] \in Bounds
                        /\ new[k].lo = rs[2 * k - 1].lo /\ new[k].hi = rs[last(k)].hi
  BY <1>1, <1>5, <1>6 DEF Bounds
<1>8. new \in Seq(Bounds) /\ new # <<>>
  BY <1>2, <1>3, <1>6, <1>7
<1>9. /\ rs[1].lo = 0 /\ rs[n].hi = Total
      /\ \A k \in 1 .. n : rs[k].lo <= rs[k].hi
      /\ \A k \in 1 .. n - 1 : rs[k].hi = rs[k + 1].lo
      /\ \A k, l \in 1 .. n : k < l => rs[k].hi <= rs[l].lo
  BY DEF Tiles, n
<1>10. \A k \in 1 .. m : new[k].lo <= new[k].hi
  <2> TAKE k \in 1 .. m
  <2>1. CASE last(k) = 2 * k - 1
    BY <1>5, <1>7, <1>9, <2>1
  <2>2. CASE last(k) = (2 * k - 1) + 1
    <3>1. 2 * k - 1 \in 1 .. n /\ last(k) \in 1 .. n /\ 2 * k - 1 < last(k)
      BY <1>5, <2>2
    <3>2. /\ rs[2 * k - 1].lo <= rs[2 * k - 1].hi /\ rs[2 * k - 1].hi <= rs[last(k)].lo
          /\ rs[last(k)].lo <= rs[last(k)].hi
      BY <1>9, <3>1
    <3> QED BY <1>1, <1>7, <3>1, <3>2 DEF Bounds
  <2> QED BY <1>5, <2>1, <2>2
<1>11. \A k \in 1 .. m - 1 : new[k].hi = new[k + 1].lo
  <2> TAKE k \in 1 .. m - 1
  <2>1. k \in 1 .. m /\ k + 1 \in 1 .. m /\ k < m
    BY <1>2
  <2>2. last(k) + 1 = 2 * (k + 1) - 1 /\ last(k) \in 1 .. n - 1
    BY <1>5, <2>1
  <2>3. new[k].hi = rs[last(k)].hi /\ new[k + 1].lo = rs[last(k) + 1].lo
    BY <1>7, <2>1, <2>2
  <2> QED BY <1>9, <2>2, <2>3
<1>12. \A k, l \in 1 .. m : k < l => new[k].hi <= new[l].lo
  <2> SUFFICES ASSUME NEW k \in 1 .. m, NEW l \in 1 .. m, k < l
               PROVE  new[k].hi <= new[l].lo
    OBVIOUS
  <2>1. last(k) < 2 * l - 1 /\ last(k) \in 1 .. n /\ 2 * l - 1 \in 1 .. n
    BY <1>5
  <2> QED BY <1>7, <1>9, <2>1
<1>13. new[1].lo = 0 /\ new[m].hi = Total
  <2>1. 1 \in 1 .. m /\ m \in 1 .. m /\ 2 * 1 - 1 = 1
    BY <1>2
  <2>2. last(m) = n
    BY <1>5, <2>1
  <2> QED BY <1>7, <1>9, <2>1, <2>2
<1>14. Tiles(new)
  BY <1>6, <1>8, <1>10, <1>11, <1>12, <1>13 DEF Tiles
<1> QED BY <1>14 DEF new

-------------------------------------------------------------------------------
(* Types.                                                                  *)

WorkKind == {"none", "apply", "transform", "accumulate", "write", "sort", "merge"}
Sums == Seq(-1 .. Total - 1)
Works ==
  {w \in [kind : WorkKind, lo : 0 .. Total, mid : 0 .. Total, hi : 0 .. Total, offset : Sums] :
     w.lo <= w.hi /\ (w.kind = "merge" => w.lo <= w.mid /\ w.mid <= w.hi)}
Datas == [0 .. Total - 1 -> [key : Key \cup {0}, id : 0 .. Total - 1]]
Outs == [0 .. Total - 1 -> Sums]
Results == [Task \cup {0} -> Sums]

Typed ==
  /\ Called
  /\ data \in Datas /\ out \in Outs /\ result \in Results
  /\ ranges = <<>> \/ Tiles(ranges)
  /\ todo \in Seq(Works) /\ work \in [Task -> Works]
  /\ futures \in Seq(Task)
  /\ sums \in Seq(Sums) /\ sums # <<>>
  /\ pc \in {"split", "submit", "returned", "thrown"}
  /\ Pool!TypeOK
  /\ pc = "submit" => Total # 0

LEMMA SetsStay ==
  ASSUME call' = call
  PROVE  /\ Total' = Total /\ Called' = Called /\ Works' = Works /\ Sums' = Sums /\ Datas' = Datas
         /\ Outs' = Outs /\ Results' = Results /\ Sorts' = Sorts
         /\ \A rs : rs' = rs => Tiles(rs)' = Tiles(rs)
BY DEF Total, Called, Works, Sums, Datas, Outs, Results, Tiles, Bounds, Sorts, WorkKind

LEMMA WorkIs ==
  ASSUME NEW kind, NEW p
  PROVE  Work(kind, p) = [kind |-> kind, lo |-> p.lo, mid |-> 0, hi |-> p.hi, offset |-> <<>>]
BY DEF Work

LEMMA SeqFrom ==
  ASSUME NEW S, NEW n \in Nat, NEW f, f = [i \in 1 .. n |-> f[i]], \A i \in 1 .. n : f[i] \in S
  PROVE  f \in Seq(S) /\ Len(f) = n
<1>1. f \in [1 .. n -> S]
  OBVIOUS
<1> QED BY <1>1

LEMMA WorkTyped ==
  ASSUME Called, NEW kind \in WorkKind \ {"merge"}, NEW p \in Bounds, p.lo <= p.hi
  PROVE  Work(kind, p) \in Works
<1>1. Total \in Nat /\ <<>> \in Sums
  BY TotalIs DEF Sums
<1> HIDE DEF Sums
<1> QED BY <1>1, WorkIs DEF Works, Bounds

LEMMA NoWorkTyped == Called => NoWork \in Works
<1> SUFFICES ASSUME Called PROVE NoWork \in Works
  OBVIOUS
<1>1. Total \in Nat /\ <<>> \in Sums
  BY TotalIs DEF Sums
<1> QED BY <1>1 DEF Works, NoWork, WorkKind

\* The pieces of a merge round: every second range and the one after it.
LEMMA PairsFacts ==
  ASSUME Called, NEW rs, Tiles(rs)
  PROVE  /\ Pairs(rs) \in Seq(Works) /\ Len(Pairs(rs)) = Len(rs) \div 2
         /\ \A k \in 1 .. Len(rs) \div 2 :
              /\ 2 * k - 1 \in 1 .. Len(rs) /\ 2 * k \in 1 .. Len(rs)
              /\ Pairs(rs)[k] = [kind |-> "merge", lo |-> rs[2 * k - 1].lo, mid |-> rs[2 * k - 1].hi,
                                 hi |-> rs[2 * k].hi, offset |-> <<>>]
              /\ rs[2 * k - 1].hi = rs[2 * k].lo
<1> DEFINE n == Len(rs)
           h == n \div 2
<1>1. n \in Nat \ {0} /\ \A k \in 1 .. n : rs[k] \in Bounds
  BY DEF Tiles
<1>2. h \in Nat /\ 2 * h <= n
  BY <1>1, HalvesFacts
<1>3. Pairs(rs) = [k \in 1 .. h |-> [Work("merge", Piece(rs[2 * k - 1].lo, rs[2 * k].hi))
                                       EXCEPT !.mid = rs[2 * k - 1].hi]]
  BY DEF Pairs
<1> HIDE DEF h
<1>4. \A k \in 1 .. h : /\ 2 * k - 1 \in 1 .. n - 1 /\ 2 * k - 1 \in 1 .. n /\ 2 * k \in 1 .. n
                        /\ (2 * k - 1) + 1 = 2 * k
  <2> HIDE DEF n
  <2> QED BY <1>1, <1>2
<1>5. /\ \A k \in 1 .. n : rs[k].lo <= rs[k].hi
      /\ \A k \in 1 .. n - 1 : rs[k].hi = rs[k + 1].lo
  BY DEF Tiles
<1> HIDE DEF n
<1>6. ASSUME NEW k \in 1 .. h
      PROVE  /\ Pairs(rs)[k] = [kind |-> "merge", lo |-> rs[2 * k - 1].lo, mid |-> rs[2 * k - 1].hi,
                                hi |-> rs[2 * k].hi, offset |-> <<>>]
             /\ rs[2 * k - 1].hi = rs[2 * k].lo
             /\ rs[2 * k - 1].lo <= rs[2 * k - 1].hi /\ rs[2 * k].lo <= rs[2 * k].hi
             /\ rs[2 * k - 1] \in Bounds /\ rs[2 * k] \in Bounds
  <2>1. Pairs(rs)[k] = [Work("merge", Piece(rs[2 * k - 1].lo, rs[2 * k].hi))
                          EXCEPT !.mid = rs[2 * k - 1].hi]
    BY <1>3
  <2>2. rs[2 * k - 1].hi = rs[2 * k].lo
    BY <1>4, <1>5
  <2> QED BY <1>1, <1>4, <1>5, <2>1, <2>2, WorkIs DEF Piece
<1>7. ASSUME NEW k \in 1 .. h PROVE Pairs(rs)[k] \in Works
  <2>1. <<>> \in Sums
    BY DEF Sums
  <2> HIDE DEF Sums
  <2> DEFINE a == rs[2 * k - 1].lo
             b == rs[2 * k - 1].hi
             c == rs[2 * k].hi
  <2>2. a \in 0 .. Total /\ b \in 0 .. Total /\ c \in 0 .. Total /\ a <= b /\ b <= c
    BY <1>6 DEF Bounds
  <2>3. Total \in Nat
    BY TotalIs
  <2>4. a <= c
    BY <2>2, <2>3
  <2>5. Pairs(rs)[k] = [kind |-> "merge", lo |-> a, mid |-> b, hi |-> c, offset |-> <<>>]
    BY <1>6
  <2> HIDE DEF a, b, c
  <2> QED BY <2>1, <2>2, <2>4, <2>5 DEF Works, WorkKind
<1>8. Pairs(rs) \in Seq(Works) /\ Len(Pairs(rs)) = h
  <2>1. Pairs(rs) = [k \in 1 .. h |-> Pairs(rs)[k]]
    BY <1>3
  <2> QED BY <1>2, <1>7, <2>1, SeqFrom
<1> QED BY <1>4, <1>6, <1>8 DEF h, n

LEMMA ElementsFacts ==
  ASSUME Typed, NEW lo \in 0 .. Total, NEW hi \in 0 .. Total, lo <= hi
  PROVE  /\ Elements(lo, hi) \in Sums
         /\ Len(Elements(lo, hi)) = hi - lo
         /\ \A i \in 1 .. hi - lo : Elements(lo, hi)[i] = data[lo + i - 1].id
<1>1. Total \in Nat /\ hi - lo \in Nat
  BY TotalIs DEF Typed
<1>2. \A i \in 1 .. hi - lo : lo + i - 1 \in 0 .. Total - 1
  BY <1>1
<1>3. \A i \in 1 .. hi - lo : data[lo + i - 1].id \in -1 .. Total - 1
  BY <1>1, <1>2 DEF Typed, Datas
<1> DEFINE e == Elements(lo, hi)
<1>4. e = [i \in 1 .. hi - lo |-> data[lo + i - 1].id]
  BY DEF Elements
<1>5. e = [i \in 1 .. hi - lo |-> e[i]] /\ \A i \in 1 .. hi - lo : e[i] = data[lo + i - 1].id
  BY <1>4
<1>6. \A i \in 1 .. hi - lo : e[i] \in -1 .. Total - 1
  BY <1>3, <1>5
<1> DEFINE S == -1 .. Total - 1
<1> HIDE DEF e, S
<1>7. e \in Seq(S) /\ Len(e) = hi - lo
  <2> DEFINE n == hi - lo
  <2>1. n \in Nat /\ e = [i \in 1 .. n |-> e[i]] /\ \A i \in 1 .. n : e[i] \in S
    BY <1>1, <1>5, <1>6 DEF S
  <2> HIDE DEF n
  <2>2. e \in Seq(S) /\ Len(e) = n
    BY <2>1, SeqFrom
  <2> QED BY <2>2 DEF n
<1> QED BY <1>5, <1>7 DEF e, S, Sums

LEMMA PositionsTyped ==
  ASSUME Called, NEW w \in Works, NEW i \in Positions(w)
  PROVE  i \in 0 .. Total - 1 /\ w.lo <= i /\ i < w.hi /\ w.lo \in Nat /\ w.hi \in 0 .. Total
BY TotalIs DEF Positions, Works

\* What a sort leaves where.
LEMMA SortedFacts ==
  ASSUME NEW N \in Nat, NEW D, NEW d \in [0 .. N - 1 -> D], NEW pieces,
         \A p \in pieces : Positions(p) \subseteq 0 .. N - 1,
         NEW e \in SortedOver(d, pieces)
  PROVE  \E g \in Shuffles(pieces) :
           /\ e = [i \in 0 .. N - 1 |-> IF i \in Covered(pieces) THEN d[g[i]] ELSE d[i]]
           /\ \A i \in Covered(pieces) : g[i] \in Covered(pieces) /\ g[i] \in 0 .. N - 1
           /\ e \in [0 .. N - 1 -> D]
           /\ \A p \in pieces : Ascending(e, p)
<1>1. PICK g \in Shuffles(pieces) : e = Shuffled(d, g) /\ \A p \in pieces : Ascending(e, p)
  BY DEF SortedOver
<1>2. DOMAIN g = Covered(pieces) /\ \A i \in Covered(pieces) : g[i] \in Covered(pieces)
  BY DEF Shuffles
<1>3. Covered(pieces) \subseteq 0 .. N - 1
  BY DEF Covered
<1>4. e = [i \in 0 .. N - 1 |-> IF i \in Covered(pieces) THEN d[g[i]] ELSE d[i]]
  BY <1>1, <1>2 DEF Shuffled
<1> QED BY <1>1, <1>2, <1>3, <1>4

LEMMA MergedTyped ==
  ASSUME Called, NEW d \in Datas, NEW w \in Works
  PROVE  Merged(d, w) \in Datas
<1>1. \A i \in Positions(w) : i \in 0 .. Total - 1
  BY PositionsTyped
<1>2. ASSUME NEW k \in 0 .. Total - 1
      PROVE  Merged(d, w)[k] \in [key : Key \cup {0}, id : 0 .. Total - 1]
  <2>1. CASE k \in Positions(w) /\ \E i \in Positions(w) : MergedTo(d, w, i) = k
    <3> DEFINE c == CHOOSE i \in Positions(w) : MergedTo(d, w, i) = k
    <3>1. c \in Positions(w)
      BY <2>1
    <3>2. Merged(d, w)[k] = d[c]
      BY <2>1 DEF Merged, Datas
    <3> QED BY <1>1, <3>1, <3>2 DEF Datas
  <2>2. CASE ~(k \in Positions(w) /\ \E i \in Positions(w) : MergedTo(d, w, i) = k)
    BY <2>2 DEF Merged, Datas
  <2> QED BY <2>1, <2>2
<1>3. Merged(d, w) = [k \in 0 .. Total - 1 |-> Merged(d, w)[k]]
  BY DEF Merged, Datas
<1> QED BY <1>2, <1>3 DEF Datas

-------------------------------------------------------------------------------
(* Every step keeps the types, and the number of pieces a sum is made of.  *)

LEMMA HeadTail ==
  ASSUME NEW S, NEW s \in Seq(S), s # <<>>
  PROVE  /\ Head(s) = s[1] /\ Head(s) \in S /\ Len(s) \in Nat \ {0}
         /\ Tail(s) \in Seq(S) /\ Len(Tail(s)) = Len(s) - 1
         /\ \A i \in 1 .. Len(s) - 1 : Tail(s)[i] = s[i + 1]
OBVIOUS

LEMMA AppendIs ==
  ASSUME NEW S, NEW s \in Seq(S), NEW e \in S
  PROVE  /\ Append(s, e) \in Seq(S) /\ Len(Append(s, e)) = Len(s) + 1 /\ Append(s, e) # <<>>
         /\ \A i \in 1 .. Len(s) : Append(s, e)[i] = s[i]
         /\ Append(s, e)[Len(s) + 1] = e
OBVIOUS

LEMMA LastIs ==
  ASSUME NEW S, NEW s \in Seq(S), s # <<>>
  PROVE  Last(s) = s[Len(s)] /\ Last(s) \in S /\ Len(s) \in Nat \ {0}
BY DEF Last

\* Every future of a first round, or of the one of parallel_reduce, is one addend.
Counted ==
  pc = "submit" /\ call.op \in {"reduce", "scan"} /\ ranges # <<>>
    => Len(sums) - 1 + Len(futures) + Len(todo) = Len(ranges)

\* Nothing has happened before the range is cut.
Fresh ==
  pc = "split" =>
    /\ ranges = <<>> /\ todo = <<>> /\ futures = <<>> /\ sums = <<<<>>>>
    /\ work = [t \in Task |-> NoWork] /\ status = [t \in Task |-> "new"]
    /\ out = [i \in 0 .. Total - 1 |-> <<>>] /\ result = [t \in Task \cup {0} |-> <<>>]

LEMMA CallStays ==
  ASSUME [Next]_vars
  PROVE  call' = call
BY DEF Next, CallerStep, ReturnAtOnce, Split, Submit, Get, SecondRound, MergeRound, Return,
       TaskStarts, TaskEnds, TaskThrows, caller_vars, vars

\* What the body of a task does.
LEMMA BodyTyped ==
  ASSUME Typed, NEW t \in Task, NEW w \in Works,
         Apply(w) \/ Transform(w) \/ Accumulate(t, w) \/ WriteSums(w) \/ Sort(w) \/ Merge(w)
  PROVE  data' \in Datas /\ out' \in Outs /\ result' \in Results
<1>0. /\ Called /\ data \in Datas /\ out \in Outs /\ result \in Results /\ Total \in Nat
      /\ w.lo \in 0 .. Total /\ w.hi \in 0 .. Total /\ w.lo <= w.hi /\ w.offset \in Sums
  BY TotalIs DEF Typed, Works
<1>1. \A i \in Positions(w) : i \in 0 .. Total - 1
  BY <1>0, PositionsTyped
<1>2. \A i \in 0 .. Total - 1 : data[i].id \in -1 .. Total - 1 /\ out[i] \in Sums
  BY <1>0 DEF Datas, Outs
<1>3. CASE Apply(w)
  <2>1. \A i \in 0 .. Total - 1 : Append(out[i], data[i].id) \in Sums
    BY <1>2 DEF Sums
  <2> HIDE DEF Sums
  <2> QED BY <1>0, <1>2, <1>3, <2>1 DEF Apply, Outs
<1>4. CASE Transform(w)
  <2>1. \A i \in 0 .. Total - 1 : <<data[i].id>> \in Sums
    BY <1>2 DEF Sums
  <2> HIDE DEF Sums
  <2> QED BY <1>0, <1>2, <1>4, <2>1 DEF Transform, Outs
<1>5. CASE Accumulate(t, w)
  BY <1>0, <1>5, ElementsFacts DEF Accumulate, Results
<1>6. CASE WriteSums(w)
  <2>1. ASSUME NEW i \in Positions(w)
        PROVE  w.offset \o Elements(w.lo, i + 1) \in Sums
    <3>1. i + 1 \in 0 .. Total /\ w.lo <= i + 1
      BY <1>0, PositionsTyped
    <3>2. Elements(w.lo, i + 1) \in Sums
      BY <1>0, <3>1, ElementsFacts
    <3> QED BY <1>0, <3>2 DEF Sums
  <2> HIDE DEF Sums
  <2> QED BY <1>0, <1>2, <1>6, <2>1 DEF WriteSums, Outs
<1>7. CASE Sort(w)
  <2>1. data' \in SortedOver(data, {w}) /\ UNCHANGED <<out, result>>
    BY <1>7 DEF Sort
  <2>2. \A p \in {w} : Positions(p) \subseteq 0 .. Total - 1
    BY <1>1
  <2>3. data' \in Datas
    BY <1>0, <2>1, <2>2, SortedFacts DEF Datas
  <2> QED BY <1>0, <2>1, <2>3
<1>8. CASE Merge(w)
  BY <1>0, <1>8, MergedTyped DEF Merge
<1> QED BY <1>3, <1>4, <1>5, <1>6, <1>7, <1>8

LEMMA TypedInductive ==
  ASSUME Typed, Counted, Fresh, [Next]_vars
  PROVE  Typed'
<1>C. call' = call
  BY CallStays
<1>S. /\ Total' = Total /\ Called' = Called /\ Works' = Works /\ Sums' = Sums /\ Datas' = Datas
      /\ Outs' = Outs /\ Results' = Results
      /\ ranges' = ranges => Tiles(ranges)' = Tiles(ranges)
  BY <1>C, SetsStay
<1>T. /\ Called /\ Total \in Nat
      /\ data \in Datas /\ out \in Outs /\ result \in Results
      /\ ranges = <<>> \/ Tiles(ranges)
      /\ todo \in Seq(Works) /\ work \in [Task -> Works] /\ futures \in Seq(Task)
      /\ sums \in Seq(Sums) /\ sums # <<>> /\ Len(sums) \in Nat \ {0}
      /\ pc \in {"split", "submit", "returned", "thrown"}
      /\ status \in [Task -> Pool!Status] /\ closed \in BOOLEAN
      /\ pc = "submit" => Total # 0
  BY TotalIs DEF Typed, Pool!TypeOK
<1>P. ASSUME /\ data' \in Datas /\ out' \in Outs /\ result' \in Results
             /\ ranges' = <<>> \/ Tiles(ranges)'
             /\ todo' \in Seq(Works) /\ work' \in [Task -> Works] /\ futures' \in Seq(Task)
             /\ sums' \in Seq(Sums) /\ sums' # <<>>
             /\ pc' \in {"split", "submit", "returned", "thrown"}
             /\ status' \in [Task -> Pool!Status] /\ closed' \in BOOLEAN
             /\ pc' = "submit" => Total # 0
      PROVE  Typed'
  BY <1>P, <1>S, <1>T DEF Typed, Pool!TypeOK
<1>N. <<<<>>>> \in Seq(Sums) /\ <<<<>>>> # <<>>
  BY DEF Sums
<1> HIDE DEF Sums
<1>1. CASE ReturnAtOnce
  BY <1>1, <1>S, <1>T, <1>P DEF ReturnAtOnce
<1>2. CASE Split
  <2>1. Total # 0 /\ ranges' = Chunks /\ pc' = "submit"
        /\ UNCHANGED <<call, work, futures, sums, out, result, status, closed>>
    BY <1>2 DEF Split, TooSmall
  <2>2. Tiles(Chunks)
    BY <1>T, <2>1, ChunksTile
  <2>3. Tiles(ranges)'
    BY <1>C, <2>1, <2>2 DEF Tiles, Bounds, Total
  <2>4. \A k \in 1 .. Len(Chunks) : Chunks[k] \in Bounds /\ Chunks[k].lo <= Chunks[k].hi
    BY <2>2 DEF Tiles
  <2>5. CASE call.op = "tim_sort"
    <3>1. data' \in SortedOver(data, ToSet(Chunks)) /\ todo' = todo
      BY <1>2, <2>5 DEF Split
    <3>2. ASSUME NEW p \in ToSet(Chunks)
          PROVE  Positions(p) \subseteq 0 .. Total - 1
      <4>1. PICK k \in 1 .. Len(Chunks) : p = Chunks[k]
        BY <2>2 DEF ToSet, Tiles
      <4>2. p.lo \in 0 .. Total /\ p.hi \in 0 .. Total
        BY <2>4, <4>1 DEF Bounds
      <4> QED BY <1>T, <4>2 DEF Positions
    <3>3. data' \in Datas
      BY <1>T, <3>1, <3>2, SortedFacts DEF Datas
    <3> QED BY <1>T, <1>P, <2>1, <2>3, <3>1, <3>3
  <2>6. CASE call.op # "tim_sort"
    <3>1. todo' = [k \in DOMAIN Chunks |-> Work(FirstKind, Chunks[k])] /\ data' = data
      BY <1>2, <2>6 DEF Split
    <3>2. FirstKind \in WorkKind \ {"merge"}
      BY <1>T, <2>6, ParallelAssumption DEF FirstKind, WorkKind, Called
    <3>3. DOMAIN Chunks = 1 .. Len(Chunks) /\ Len(Chunks) \in Nat
      BY <2>2 DEF Tiles
    <3>4. \A k \in 1 .. Len(Chunks) : Work(FirstKind, Chunks[k]) \in Works
      BY <1>T, <2>4, <3>2, WorkTyped
    <3>5. todo' = [k \in 1 .. Len(Chunks) |-> todo'[k]] /\ \A k \in 1 .. Len(Chunks) : todo'[k] \in Works
      BY <3>1, <3>3, <3>4
    <3>6. todo' \in Seq(Works)
      BY <3>3, <3>5, SeqFrom
    <3> QED BY <1>T, <1>P, <2>1, <2>3, <3>1, <3>6
  <2> QED BY <2>5, <2>6
<1>3. CASE Submit
  <2>1. PICK t \in Task : /\ Pool!Accept(t)
                          /\ work' = [work EXCEPT ![t] = Head(todo)]
                          /\ futures' = Append(futures, t)
    BY <1>3 DEF Submit
  <2>2. /\ todo # <<>> /\ todo' = Tail(todo)
        /\ UNCHANGED <<call, ranges, sums, pc, data, out, result>>
    BY <1>3 DEF Submit
  <2>3. Head(todo) \in Works /\ Tail(todo) \in Seq(Works)
    BY <1>T, <2>2, HeadTail
  <2>4. status' \in [Task -> Pool!Status] /\ closed' = closed
    BY <1>T, <2>1 DEF Pool!Accept, Pool!Status
  <2>5. futures' \in Seq(Task)
    BY <1>T, <2>1, AppendIs
  <2> QED BY <1>S, <1>T, <1>P, <2>1, <2>2, <2>3, <2>4, <2>5
<1>4. CASE Get
  <2>1. /\ futures # <<>> /\ futures' = Tail(futures)
        /\ sums' = Append(sums, Last(sums) \o result[Head(futures)])
        /\ pc' \in {"thrown", "submit"} /\ pc = "submit"
        /\ UNCHANGED <<call, ranges, todo, work, data, out, result, status, closed>>
    BY <1>4 DEF Get
  <2>2. Head(futures) \in Task /\ futures' \in Seq(Task)
    BY <1>T, <2>1, HeadTail
  <2>3. Last(sums) \in Sums /\ result[Head(futures)] \in Sums
    BY <1>T, <2>2, LastIs DEF Results
  <2>4. Last(sums) \o result[Head(futures)] \in Sums
    BY <2>3 DEF Sums
  <2>5. sums' \in Seq(Sums) /\ sums' # <<>>
    BY <1>T, <2>1, <2>4, AppendIs
  <2> QED BY <1>S, <1>T, <1>P, <2>1, <2>2, <2>5
<1>5. CASE SecondRound
  <2>1. /\ pc = "submit" /\ todo = <<>> /\ futures = <<>> /\ call.op = "scan" /\ ranges # <<>>
        /\ todo' = [k \in DOMAIN ranges |-> [Work("write", ranges[k]) EXCEPT !.offset = Offset(k)]]
        /\ ranges' = <<>> /\ sums' = <<<<>>>>
        /\ UNCHANGED <<call, work, futures, pc, data, out, result, status, closed>>
    BY <1>5 DEF SecondRound, RoundOver
  <2>2. /\ DOMAIN ranges = 1 .. Len(ranges) /\ Len(ranges) \in Nat
        /\ \A k \in 1 .. Len(ranges) : ranges[k] \in Bounds /\ ranges[k].lo <= ranges[k].hi
    BY <1>T, <2>1 DEF Tiles
  <2>3. Len(sums) - 1 = Len(ranges)
    BY <1>T, <2>1, <2>2 DEF Counted
  <2>4. ASSUME NEW k \in 1 .. Len(ranges)
        PROVE  [Work("write", ranges[k]) EXCEPT !.offset = Offset(k)] \in Works
    <3>1. k \in 1 .. Len(sums)
      BY <1>T, <2>2, <2>3
    <3>2. sums[k] \in Sums
      BY <1>T, <3>1
    <3>3. Offset(k) \in Sums
      BY <1>T, <3>2 DEF Offset, Sums
    <3>4. Work("write", ranges[k]) \in Works
      BY <1>T, <2>2, WorkTyped DEF WorkKind
    <3>5. Work("write", ranges[k]).kind = "write"
      BY DEF Work
    <3> QED BY <3>3, <3>4, <3>5 DEF Works
  <2>5. todo' = [k \in 1 .. Len(ranges) |-> todo'[k]] /\ \A k \in 1 .. Len(ranges) : todo'[k] \in Works
    BY <2>1, <2>2, <2>4
  <2>6. todo' \in Seq(Works)
    BY <2>2, <2>5, SeqFrom
  <2> QED BY <1>T, <1>P, <1>N, <2>1, <2>6
<1>6. CASE MergeRound
  <2>1. /\ todo' = Pairs(ranges) /\ ranges' = NewRanges(ranges) /\ sums' = <<<<>>>>
        /\ pc = "submit" /\ Len(ranges) > 1
        /\ UNCHANGED <<call, work, futures, pc, data, out, result, status, closed>>
    BY <1>6 DEF MergeRound, RoundOver
  <2>2. Tiles(ranges)
    BY <1>T, <2>1
  <2>3. Tiles(NewRanges(ranges)) /\ Pairs(ranges) \in Seq(Works)
    BY <1>T, <2>2, NewRangesTile, PairsFacts
  <2>4. Tiles(ranges)'
    BY <1>C, <2>1, <2>3 DEF Tiles, Bounds, Total
  <2> QED BY <1>T, <1>P, <1>N, <2>1, <2>3, <2>4
<1>7. CASE Return
  <2>1. /\ result' = IF call.op = "reduce" THEN [result EXCEPT ![0] = Last(sums)] ELSE result
        /\ pc' = "returned"
        /\ UNCHANGED <<call, ranges, todo, work, futures, sums, data, out, status, closed>>
    BY <1>7 DEF Return
  <2>2. Last(sums) \in Sums
    BY <1>T, LastIs
  <2>3. result' \in Results
    BY <1>T, <2>1, <2>2 DEF Results
  <2> QED BY <1>S, <1>T, <1>P, <2>1, <2>3
<1>8. ASSUME NEW t \in Task, TaskStarts(t)
      PROVE  Typed'
  <2>1. UNCHANGED <<caller_vars, data, out, result>> /\ status' = [status EXCEPT ![t] = "running"]
        /\ closed' = closed
    BY <1>8 DEF TaskStarts, Pool!Start
  <2> QED BY <1>S, <1>T, <1>P, <2>1 DEF caller_vars, Pool!Status
<1>9. ASSUME NEW t \in Task, TaskEnds(t)
      PROVE  Typed'
  <2>1. UNCHANGED caller_vars /\ status' = [status EXCEPT ![t] = "value"] /\ closed' = closed
    BY <1>9 DEF TaskEnds, Pool!Finish
  <2>2. work[t] \in Works
    BY <1>T
  <2>3. data' \in Datas /\ out' \in Outs /\ result' \in Results
    BY <1>9, <2>2, BodyTyped DEF TaskEnds
  <2> QED BY <1>S, <1>T, <1>P, <2>1, <2>3 DEF caller_vars, Pool!Status
<1>10. ASSUME NEW t \in Task, TaskThrows(t)
       PROVE  Typed'
  <2>1. UNCHANGED <<caller_vars, data, out, result>> /\ status' = [status EXCEPT ![t] = "exception"]
        /\ closed' = closed
    BY <1>10 DEF TaskThrows, Pool!Finish
  <2> QED BY <1>S, <1>T, <1>P, <2>1 DEF caller_vars, Pool!Status
<1>11. CASE UNCHANGED vars
  BY <1>11, <1>S, <1>T, <1>P DEF vars, caller_vars
<1> QED BY <1>1, <1>2, <1>3, <1>4, <1>5, <1>6, <1>7, <1>8, <1>9, <1>10, <1>11 DEF Next, CallerStep

-------------------------------------------------------------------------------
(* The tasks of a round.                                                   *)

\* It has not done its work, or did not get to the end of it.
Pending(t) == status[t] \in {"queued", "running", "exception"}
Awaited(t) == \E i \in 1 .. Len(futures) : futures[i] = t

\* The caller has yet to look at these, or has looked at one and given up.
Waited == \A t \in Task : Pending(t) => Awaited(t) \/ pc = "thrown"

Beside(p, q) == p.hi <= q.lo \/ q.hi <= p.lo

RoundApart ==
  /\ \A s, t \in Task : Pending(s) /\ Pending(t) /\ s # t => Beside(work[s], work[t])
  /\ \A s \in Task, k \in 1 .. Len(todo) : Pending(s) => Beside(work[s], todo[k])
  /\ \A k, l \in 1 .. Len(todo) : k # l => Beside(todo[k], todo[l])

LEMMA NobodyLeft ==
  ASSUME Typed, Waited, RoundOver
  PROVE  \A t \in Task : ~Pending(t)
<1>1. futures = <<>> /\ pc = "submit"
  BY DEF RoundOver
<1>2. \A t \in Task : ~Awaited(t)
  BY <1>1 DEF Awaited
<1> QED BY <1>1, <1>2 DEF Waited

\* What a step does to the pool.
LEMMA StatusSteps ==
  ASSUME Typed, [Next]_vars
  PROVE  \/ status' = status
         \/ Submit
         \/ \E t \in Task : /\ Pending(t) /\ UNCHANGED caller_vars
                            /\ \E x \in {"running", "value", "exception"} : status' = [status EXCEPT ![t] = x]
<1> USE DEF Pending
<1>1. ASSUME NEW t \in Task, TaskStarts(t)
      PROVE  Pending(t) /\ UNCHANGED caller_vars /\ status' = [status EXCEPT ![t] = "running"]
  BY <1>1 DEF TaskStarts, Pool!Start
<1>2. ASSUME NEW t \in Task, TaskEnds(t)
      PROVE  Pending(t) /\ UNCHANGED caller_vars /\ status' = [status EXCEPT ![t] = "value"]
  BY <1>2 DEF TaskEnds, Pool!Finish
<1>3. ASSUME NEW t \in Task, TaskThrows(t)
      PROVE  Pending(t) /\ UNCHANGED caller_vars /\ status' = [status EXCEPT ![t] = "exception"]
  BY <1>3 DEF TaskThrows, Pool!Finish
<1>4. ReturnAtOnce \/ Split \/ Get \/ SecondRound \/ MergeRound \/ Return \/ UNCHANGED vars
        => status' = status
  BY DEF ReturnAtOnce, Split, Get, SecondRound, MergeRound, Return, vars
<1> HIDE DEF Pending
<1> QED BY <1>1, <1>2, <1>3, <1>4 DEF Next, CallerStep

LEMMA SubmitIs ==
  ASSUME Typed, Submit
  PROVE  \E t \in Task :
           /\ status[t] = "new" /\ status' = [status EXCEPT ![t] = "queued"]
           /\ work' = [work EXCEPT ![t] = todo[1]]
           /\ \A s \in Task : s < t <=> work[s] # NoWork
           /\ futures' = Append(futures, t) /\ Len(futures') = Len(futures) + 1
           /\ Len(futures) \in Nat /\ futures'[Len(futures) + 1] = t
           /\ \A i \in 1 .. Len(futures) : futures'[i] = futures[i]
           /\ Len(todo) \in Nat \ {0} /\ todo[1] \in Works /\ Len(todo') = Len(todo) - 1
           /\ \A k \in 1 .. Len(todo) - 1 : todo'[k] = todo[k + 1]
           /\ pc = "submit" /\ UNCHANGED <<call, ranges, sums, pc, data, out, result>>
<1>1. /\ pc = "submit" /\ todo # <<>> /\ todo' = Tail(todo)
      /\ UNCHANGED <<call, ranges, sums, pc, data, out, result>>
  BY DEF Submit
<1>2. PICK t \in Task : /\ \A s \in Task : s < t <=> work[s] # NoWork
                        /\ Pool!Accept(t)
                        /\ work' = [work EXCEPT ![t] = Head(todo)]
                        /\ futures' = Append(futures, t)
  BY DEF Submit
<1>3. todo \in Seq(Works) /\ futures \in Seq(Task)
  BY DEF Typed
<1>4. /\ Head(todo) = todo[1] /\ Head(todo) \in Works /\ Len(todo) \in Nat \ {0}
      /\ Len(todo') = Len(todo) - 1 /\ \A i \in 1 .. Len(todo) - 1 : todo'[i] = todo[i + 1]
  BY <1>1, <1>3, HeadTail
<1>5. /\ Len(futures') = Len(futures) + 1 /\ futures'[Len(futures) + 1] = t /\ Len(futures) \in Nat
      /\ \A i \in 1 .. Len(futures) : futures'[i] = futures[i]
  BY <1>2, <1>3, AppendIs
<1>6. status[t] = "new" /\ status' = [status EXCEPT ![t] = "queued"]
  BY <1>2 DEF Pool!Accept
<1> QED BY <1>1, <1>2, <1>4, <1>5, <1>6

LEMMA GetIs ==
  ASSUME Typed, Get
  PROVE  /\ pc = "submit" /\ todo = <<>> /\ Len(futures) \in Nat \ {0} /\ futures[1] \in Task
         /\ status[futures[1]] \in {"value", "exception"}
         /\ Len(futures') = Len(futures) - 1
         /\ \A i \in 1 .. Len(futures) - 1 : futures'[i] = futures[i + 1]
         /\ sums' = Append(sums, Last(sums) \o result[futures[1]])
         /\ Len(sums) \in Nat \ {0} /\ Last(sums) = sums[Len(sums)]
         /\ Len(sums') = Len(sums) + 1 /\ \A k \in 1 .. Len(sums) : sums'[k] = sums[k]
         /\ sums'[Len(sums) + 1] = sums[Len(sums)] \o result[futures[1]]
         /\ pc' = IF status[futures[1]] = "exception" THEN "thrown" ELSE "submit"
         /\ UNCHANGED <<call, ranges, todo, work, data, out, result, status, closed>>
<1>1. /\ pc = "submit" /\ todo = <<>> /\ futures # <<>> /\ futures' = Tail(futures)
      /\ Ready(Head(futures))
      /\ sums' = Append(sums, Last(sums) \o result[Head(futures)])
      /\ pc' = IF status[Head(futures)] = "exception" THEN "thrown" ELSE "submit"
      /\ UNCHANGED <<call, ranges, todo, work, data, out, result, status, closed>>
  BY DEF Get
<1>2. futures \in Seq(Task) /\ sums \in Seq(Sums) /\ sums # <<>> /\ result \in Results
  BY DEF Typed
<1>3. /\ Head(futures) = futures[1] /\ Head(futures) \in Task /\ Len(futures) \in Nat \ {0}
      /\ Len(futures') = Len(futures) - 1
      /\ \A i \in 1 .. Len(futures) - 1 : futures'[i] = futures[i + 1]
  BY <1>1, <1>2, HeadTail
<1>4. Last(sums) = sums[Len(sums)] /\ Last(sums) \in Sums /\ Len(sums) \in Nat \ {0}
  BY <1>2, LastIs
<1>5. Last(sums) \o result[Head(futures)] \in Sums
  <2>1. result[Head(futures)] \in Sums
    BY <1>2, <1>3 DEF Results
  <2> QED BY <1>4, <2>1 DEF Sums
<1>6. /\ Len(sums') = Len(sums) + 1 /\ \A k \in 1 .. Len(sums) : sums'[k] = sums[k]
      /\ sums'[Len(sums) + 1] = Last(sums) \o result[Head(futures)]
  BY <1>1, <1>2, <1>5, AppendIs
<1> QED BY <1>1, <1>3, <1>4, <1>6 DEF Ready

LEMMA CountedInductive ==
  ASSUME Typed, Counted, Fresh, [Next]_vars
  PROVE  Counted'
<1>1. CASE Split
  <2>1. ranges' = Chunks /\ UNCHANGED <<call, futures, sums>> /\ pc = "split" /\ Total # 0
    BY <1>1 DEF Split, TooSmall
  <2>2. CASE call.op = "tim_sort"
    BY <2>1, <2>2 DEF Counted
  <2>3. CASE call.op # "tim_sort"
    <3>1. todo' = [k \in DOMAIN Chunks |-> Work(FirstKind, Chunks[k])]
      BY <1>1, <2>3 DEF Split
    <3>2. DOMAIN Chunks = 1 .. Len(Chunks) /\ Len(Chunks) \in Nat
      BY <2>1, ChunksTile DEF Tiles, Typed
    <3>3. Len(todo') = Len(Chunks)
      BY <3>1, <3>2
    <3>4. Len(sums) = 1 /\ Len(futures) = 0
      BY <2>1 DEF Fresh
    <3> QED BY <2>1, <3>2, <3>3, <3>4 DEF Counted
  <2> QED BY <2>2, <2>3
<1>2. CASE Submit
  <2>1. /\ Len(futures') = Len(futures) + 1 /\ Len(todo') = Len(todo) - 1
        /\ Len(futures) \in Nat /\ Len(todo) \in Nat \ {0}
        /\ UNCHANGED <<call, ranges, sums, pc>>
    BY <1>2, SubmitIs
  <2>2. Len(sums) \in Nat
    BY DEF Typed
  <2> QED BY <2>1, <2>2 DEF Counted
<1>3. CASE Get
  <2>1. /\ Len(futures') = Len(futures) - 1 /\ Len(sums') = Len(sums) + 1
        /\ Len(futures) \in Nat \ {0} /\ Len(sums) \in Nat \ {0} /\ pc = "submit" /\ todo = <<>>
        /\ UNCHANGED <<call, ranges, todo>>
    BY <1>3, GetIs
  <2> QED BY <2>1 DEF Counted
<1>4. CASE SecondRound \/ MergeRound \/ Return \/ ReturnAtOnce
  BY <1>4 DEF SecondRound, MergeRound, Return, ReturnAtOnce, Sorts, Counted
<1>5. CASE UNCHANGED caller_vars
  BY <1>5 DEF caller_vars, Counted
<1>6. ASSUME NEW t \in Task, TaskStarts(t) \/ TaskEnds(t) \/ TaskThrows(t)
      PROVE  UNCHANGED caller_vars
  BY <1>6 DEF TaskStarts, TaskEnds, TaskThrows
<1>7. UNCHANGED vars => UNCHANGED caller_vars
  BY DEF vars
<1> QED BY <1>1, <1>2, <1>3, <1>4, <1>5, <1>6, <1>7 DEF Next, CallerStep

LEMMA FreshInductive ==
  ASSUME Typed, Fresh, [Next]_vars
  PROVE  Fresh'
<1>1. Total' = Total
  BY CallStays, SetsStay
<1>2. ASSUME pc' = "split"
      PROVE  pc = "split" /\ UNCHANGED vars
  <2>1. CASE CallerStep
    BY <1>2, <2>1 DEF CallerStep, ReturnAtOnce, Split, Submit, Get, SecondRound, MergeRound, Return, RoundOver
  <2>2. ASSUME NEW t \in Task, TaskStarts(t) \/ TaskEnds(t) \/ TaskThrows(t)
        PROVE  FALSE
    <3>1. pc = "split" /\ status[t] \in {"queued", "running"}
      BY <1>2, <2>2 DEF TaskStarts, TaskEnds, TaskThrows, Pool!Start, Pool!Finish, caller_vars
    <3> QED BY <3>1 DEF Fresh
  <2>3. CASE UNCHANGED vars
    BY <1>2, <2>3 DEF vars, caller_vars
  <2> QED BY <2>1, <2>2, <2>3 DEF Next
<1> QED BY <1>1, <1>2 DEF Fresh, vars, caller_vars

LEMMA WaitedInductive ==
  ASSUME Typed, Waited, [Next]_vars
  PROVE  Waited'
<1>T. status \in [Task -> Pool!Status]
  BY DEF Typed, Pool!TypeOK
<1>1. CASE Submit
  <2>1. PICK t \in Task :
          /\ status' = [status EXCEPT ![t] = "queued"]
          /\ Len(futures') = Len(futures) + 1 /\ Len(futures) \in Nat /\ futures'[Len(futures) + 1] = t
          /\ \A i \in 1 .. Len(futures) : futures'[i] = futures[i]
          /\ pc' = pc
    BY <1>1, SubmitIs
  <2>2. Awaited(t)'
    BY <2>1 DEF Awaited
  <2>3. \A s \in Task : Awaited(s) => Awaited(s)'
    BY <2>1 DEF Awaited
  <2>4. \A s \in Task : s # t => status'[s] = status[s]
    BY <1>T, <2>1
  <2> QED BY <2>1, <2>2, <2>3, <2>4 DEF Waited, Pending
<1>2. CASE Get
  <2>1. /\ pc = "submit" /\ Len(futures) \in Nat \ {0} /\ status' = status
        /\ status[futures[1]] \in {"value", "exception"}
        /\ Len(futures') = Len(futures) - 1
        /\ \A i \in 1 .. Len(futures) - 1 : futures'[i] = futures[i + 1]
        /\ pc' = IF status[futures[1]] = "exception" THEN "thrown" ELSE "submit"
    BY <1>2, GetIs
  <2>2. CASE status[futures[1]] = "exception"
    BY <2>1, <2>2 DEF Waited
  <2>3. CASE status[futures[1]] = "value"
    <3>1. ASSUME NEW s \in Task, Awaited(s), s # futures[1]
          PROVE  Awaited(s)'
      <4>1. PICK i \in 1 .. Len(futures) : futures[i] = s
        BY <3>1 DEF Awaited
      <4>2. i - 1 \in 1 .. Len(futures) - 1 /\ (i - 1) + 1 = i
        BY <2>1, <3>1, <4>1
      <4> QED BY <2>1, <4>1, <4>2 DEF Awaited
    <3> QED BY <2>1, <2>3, <3>1 DEF Waited, Pending
  <2> QED BY <2>1, <2>2, <2>3
<1>3. CASE ReturnAtOnce \/ Split \/ SecondRound \/ MergeRound \/ Return
  <2>1. pc # "thrown" /\ UNCHANGED <<status, futures>>
    BY <1>3 DEF ReturnAtOnce, Split, SecondRound, MergeRound, Return, RoundOver
  <2> QED BY <2>1 DEF Waited, Pending, Awaited
<1>4. ASSUME NEW t \in Task, Pending(t), UNCHANGED caller_vars,
             NEW x, status' = [status EXCEPT ![t] = x]
      PROVE  Waited'
  <2>1. \A s \in Task : s # t => status'[s] = status[s]
    BY <1>T, <1>4
  <2>2. \A s \in Task : Awaited(s)' <=> Awaited(s)
    BY <1>4 DEF Awaited, caller_vars
  <2> QED BY <1>4, <2>1, <2>2 DEF Waited, Pending, caller_vars
<1>5. CASE UNCHANGED vars
  BY <1>5 DEF vars, caller_vars, Waited, Pending, Awaited
<1>6. ASSUME NEW t \in Task, TaskStarts(t) \/ TaskEnds(t) \/ TaskThrows(t)
      PROVE  /\ Pending(t) /\ UNCHANGED caller_vars
             /\ \E x \in {"running", "value", "exception"} : status' = [status EXCEPT ![t] = x]
  BY <1>6 DEF TaskStarts, TaskEnds, TaskThrows, Pool!Start, Pool!Finish, Pending
<1> QED BY <1>1, <1>2, <1>3, <1>4, <1>5, <1>6 DEF Next, CallerStep

-------------------------------------------------------------------------------
(* No two tasks touch the same element.                                    *)

LEMMA BesideSym ==
  ASSUME NEW p, NEW q
  PROVE  Beside(p, q) => Beside(q, p)
BY DEF Beside

\* A round that begins when nobody is left is made of pieces apart from one another.
LEMMA NewRoundApart ==
  ASSUME Typed, \A t \in Task : ~Pending(t)', \A k, l \in 1 .. Len(todo') : k < l => todo'[k].hi <= todo'[l].lo,
         Len(todo') \in Nat
  PROVE  RoundApart'
<1>1. ASSUME NEW k \in 1 .. Len(todo'), NEW l \in 1 .. Len(todo'), k # l
      PROVE  todo'[k].hi <= todo'[l].lo \/ todo'[l].hi <= todo'[k].lo
  BY <1>1
<1> QED BY <1>1 DEF RoundApart, Beside

LEMMA RoundApartInductive ==
  ASSUME Typed, Counted, Fresh, Waited, RoundApart, [Next]_vars
  PROVE  RoundApart'
<1>0. /\ status \in [Task -> Pool!Status] /\ work \in [Task -> Works] /\ Called
      /\ ranges = <<>> \/ Tiles(ranges)
  BY DEF Typed, Pool!TypeOK
<1>1. CASE Split
  <2>1. /\ status = [t \in Task |-> "new"] /\ status' = status /\ todo = <<>> /\ Total # 0 /\ pc = "split"
    BY <1>1 DEF Split, TooSmall, Fresh
  <2>2. \A t \in Task : ~Pending(t)'
    BY <2>1 DEF Pending
  <2>3. Tiles(Chunks)
    BY <1>0, <2>1, ChunksTile
  <2>4. /\ DOMAIN Chunks = 1 .. Len(Chunks) /\ Len(Chunks) \in Nat
        /\ \A k, l \in 1 .. Len(Chunks) : k < l => Chunks[k].hi <= Chunks[l].lo
    BY <2>3 DEF Tiles
  <2>5. CASE call.op = "tim_sort"
    <3>1. todo' = <<>>
      BY <1>1, <2>1, <2>5 DEF Split
    <3> QED BY <2>2, <3>1 DEF RoundApart
  <2>6. CASE call.op # "tim_sort"
    <3>1. todo' = [k \in 1 .. Len(Chunks) |-> Work(FirstKind, Chunks[k])]
      BY <1>1, <2>4, <2>6 DEF Split
    <3>2. Len(todo') = Len(Chunks)
          /\ \A k \in 1 .. Len(Chunks) : todo'[k].lo = Chunks[k].lo /\ todo'[k].hi = Chunks[k].hi
      BY <2>4, <3>1 DEF Work
    <3> QED BY <2>2, <2>4, <3>2, NewRoundApart
  <2> QED BY <2>5, <2>6
<1>2. CASE Submit
  <2>1. PICK t \in Task :
          /\ status[t] = "new" /\ status' = [status EXCEPT ![t] = "queued"]
          /\ work' = [work EXCEPT ![t] = todo[1]]
          /\ Len(todo) \in Nat \ {0} /\ Len(todo') = Len(todo) - 1
          /\ \A k \in 1 .. Len(todo) - 1 : todo'[k] = todo[k + 1]
    BY <1>2, SubmitIs
  <2>2. /\ ~Pending(t) /\ work'[t] = todo[1]
        /\ \A s \in Task : s # t => (Pending(s)' <=> Pending(s)) /\ work'[s] = work[s]
    BY <1>0, <2>1 DEF Pending
  <2>3. /\ \A s, u \in Task : Pending(s) /\ Pending(u) /\ s # u => Beside(work[s], work[u])
        /\ \A s \in Task, k \in 1 .. Len(todo) : Pending(s) => Beside(work[s], todo[k])
        /\ \A k, l \in 1 .. Len(todo) : k # l => Beside(todo[k], todo[l])
    BY DEF RoundApart
  <2>4. 1 \in 1 .. Len(todo) /\ \A k \in 1 .. Len(todo') : k + 1 \in 1 .. Len(todo) /\ k + 1 # 1 /\ todo'[k] = todo[k + 1]
    BY <2>1
  <2>5. ASSUME NEW s \in Task, NEW u \in Task, Pending(s)', Pending(u)', s # u
        PROVE  Beside(work'[s], work'[u])
    <3>1. CASE s = t
      BY <2>2, <2>3, <2>4, <2>5, <3>1, BesideSym
    <3>2. CASE u = t
      BY <2>2, <2>3, <2>4, <2>5, <3>2
    <3> QED BY <2>2, <2>3, <2>5, <3>1, <3>2
  <2>6. ASSUME NEW s \in Task, NEW k \in 1 .. Len(todo'), Pending(s)'
        PROVE  Beside(work'[s], todo'[k])
    <3>1. CASE s = t
      BY <2>2, <2>3, <2>4, <3>1
    <3> QED BY <2>2, <2>3, <2>4, <2>6, <3>1
  <2>7. ASSUME NEW k \in 1 .. Len(todo'), NEW l \in 1 .. Len(todo'), k # l
        PROVE  Beside(todo'[k], todo'[l])
    <3>1. k + 1 # l + 1
      BY <2>7
    <3> QED BY <2>3, <2>4, <3>1
  <2>8. (\A s, u \in Task : Pending(s)' /\ Pending(u)' /\ s # u => Beside(work[s], work[u])')
    BY <2>5 DEF Beside
  <2>9. (\A s \in Task, k \in 1 .. Len(todo') : Pending(s)' => Beside(work[s], todo[k])')
    BY <2>6 DEF Beside
  <2>10. (\A k, l \in 1 .. Len(todo') : k # l => Beside(todo[k], todo[l])')
    BY <2>7 DEF Beside
  <2> QED BY <2>8, <2>9, <2>10 DEF RoundApart
<1>3. CASE ReturnAtOnce \/ Get \/ Return \/ UNCHANGED vars
  <2>1. UNCHANGED <<status, work, todo>>
    BY <1>3 DEF ReturnAtOnce, Get, Return, vars, caller_vars
  <2> QED BY <2>1 DEF RoundApart, Pending, Beside
<1>4. CASE SecondRound
  <2>1. /\ RoundOver /\ ranges # <<>> /\ status' = status
        /\ todo' = [k \in DOMAIN ranges |-> [Work("write", ranges[k]) EXCEPT !.offset = Offset(k)]]
    BY <1>4 DEF SecondRound
  <2>2. /\ DOMAIN ranges = 1 .. Len(ranges) /\ Len(ranges) \in Nat
        /\ \A k, l \in 1 .. Len(ranges) : k < l => ranges[k].hi <= ranges[l].lo
    BY <1>0, <2>1 DEF Tiles
  <2>3. Len(todo') = Len(ranges)
        /\ \A k \in 1 .. Len(ranges) : todo'[k].lo = ranges[k].lo /\ todo'[k].hi = ranges[k].hi
    BY <2>1, <2>2 DEF Work
  <2>4. \A t \in Task : ~Pending(t)'
    BY <2>1, NobodyLeft DEF Pending
  <2> QED BY <2>2, <2>3, <2>4, NewRoundApart
<1>5. CASE MergeRound
  <2>1. RoundOver /\ Len(ranges) > 1 /\ status' = status /\ todo' = Pairs(ranges)
    BY <1>5 DEF MergeRound
  <2>2. Tiles(ranges)
    BY <1>0, <2>1
  <2> DEFINE h == Len(ranges) \div 2
  <2>3. Len(ranges) \in Nat \ {0} /\ \A k, l \in 1 .. Len(ranges) : k < l => ranges[k].hi <= ranges[l].lo
    BY <2>2 DEF Tiles
  <2>4. h \in Nat
    BY <2>3, HalvesFacts
  <2>5. /\ Len(todo') = h
        /\ \A k \in 1 .. h : /\ 2 * k - 1 \in 1 .. Len(ranges) /\ 2 * k \in 1 .. Len(ranges)
                             /\ todo'[k].lo = ranges[2 * k - 1].lo /\ todo'[k].hi = ranges[2 * k].hi
    <3>1. /\ Len(Pairs(ranges)) = h
          /\ \A k \in 1 .. h :
               /\ 2 * k - 1 \in 1 .. Len(ranges) /\ 2 * k \in 1 .. Len(ranges)
               /\ Pairs(ranges)[k] = [kind |-> "merge", lo |-> ranges[2 * k - 1].lo,
                                      mid |-> ranges[2 * k - 1].hi, hi |-> ranges[2 * k].hi,
                                      offset |-> <<>>]
      BY <1>0, <2>2, PairsFacts
    <3> HIDE DEF h
    <3>2. \A k \in 1 .. h : /\ Pairs(ranges)[k].lo = ranges[2 * k - 1].lo
                            /\ Pairs(ranges)[k].hi = ranges[2 * k].hi
      BY <3>1
    <3> QED BY <2>1, <3>1, <3>2
  <2> HIDE DEF h
  <2>6. ASSUME NEW k \in 1 .. h, NEW l \in 1 .. h, k < l
        PROVE  todo'[k].hi <= todo'[l].lo
    <3>1. 2 * k < 2 * l - 1
      BY <2>4, <2>6
    <3> QED BY <2>3, <2>5, <3>1
  <2>7. \A t \in Task : ~Pending(t)'
    BY <2>1, NobodyLeft DEF Pending
  <2> QED BY <2>4, <2>5, <2>6, <2>7, NewRoundApart
<1>6. ASSUME NEW t \in Task, TaskStarts(t) \/ TaskEnds(t) \/ TaskThrows(t)
      PROVE  RoundApart'
  <2>1. Pending(t) /\ UNCHANGED caller_vars /\ \E x \in {"running", "value", "exception"} : status' = [status EXCEPT ![t] = x]
    BY <1>6 DEF TaskStarts, TaskEnds, TaskThrows, Pool!Start, Pool!Finish, Pending
  <2>2. \A s \in Task : Pending(s)' => Pending(s)
    BY <1>0, <2>1 DEF Pending
  <2>3. UNCHANGED <<work, todo>>
    BY <2>1 DEF caller_vars
  <2> QED BY <2>2, <2>3 DEF RoundApart, Beside
<1> QED BY <1>1, <1>2, <1>3, <1>4, <1>5, <1>6 DEF Next, CallerStep

\* The inductive invariant of the rounds.
Rounds == Typed /\ Counted /\ Fresh /\ Waited /\ RoundApart

LEMMA RoundsInit == Init => Rounds
<1> SUFFICES ASSUME Init PROVE Rounds
  OBVIOUS
<1>1. /\ call \in [op : Ops, size : Sizes, threads : ThreadCounts, hardware : HardwareCounts]
      /\ out = [i \in 0 .. Total - 1 |-> <<>>]
      /\ ranges = <<>> /\ todo = <<>> /\ futures = <<>> /\ sums = <<<<>>>>
      /\ work = [t \in Task |-> NoWork]
      /\ result = [t \in Task \cup {0} |-> <<>>]
      /\ pc = "split"
      /\ status = [t \in Task |-> "new"] /\ closed = FALSE
  BY DEF Init, Pool!Init
<1>2. Called /\ Total \in Nat
  BY <1>1, TotalIs DEF Called
<1>3. <<>> \in Sums /\ <<<<>>>> \in Seq(Sums) /\ <<<<>>>> # <<>>
  BY DEF Sums
<1>4. data \in Datas
  <2>1. PICK keys \in [0 .. Total - 1 -> Key] :
          data = [i \in 0 .. Total - 1 |-> [key |-> IF Sorts THEN keys[i] ELSE 0, id |-> i]]
    BY DEF Init
  <2> QED BY <1>2, <2>1 DEF Datas
<1>5. NoWork \in Works
  BY <1>2, NoWorkTyped
<1> HIDE DEF Sums
<1>6. Typed
  <2>1. out \in Outs /\ result \in Results
    BY <1>1, <1>3 DEF Outs, Results
  <2>2. todo \in Seq(Works) /\ futures \in Seq(Task) /\ work \in [Task -> Works]
    BY <1>1, <1>5
  <2>3. status \in [Task -> Pool!Status] /\ closed \in BOOLEAN
    BY <1>1 DEF Pool!Status
  <2> QED BY <1>1, <1>2, <1>3, <1>4, <2>1, <2>2, <2>3 DEF Typed, Pool!TypeOK
<1>7. Counted /\ Fresh
  BY <1>1 DEF Counted, Fresh
<1>8. \A t \in Task : ~Pending(t)
  BY <1>1 DEF Pending
<1>9. Waited
  BY <1>8 DEF Waited
<1>10. RoundApart
  BY <1>1, <1>8 DEF RoundApart
<1> QED BY <1>6, <1>7, <1>9, <1>10 DEF Rounds

LEMMA RoundsStep == Rounds /\ [Next]_vars => Rounds'
BY TypedInductive, CountedInductive, FreshInductive, WaitedInductive, RoundApartInductive DEF Rounds

LEMMA RoundsAlways == Spec => []Rounds
BY RoundsInit, RoundsStep, PTL DEF Spec

LEMMA RoundsNoRace == Rounds => NoRace
<1> SUFFICES ASSUME Rounds PROVE NoRace
  OBVIOUS
<1>1. Typed /\ RoundApart
  BY DEF Rounds
<1>2. /\ Called /\ Total \in Nat
      /\ ranges = <<>> \/ Tiles(ranges)
      /\ work \in [Task -> Works]
  BY <1>1, TotalIs DEF Typed
<1>3. \A k \in DOMAIN ranges : ranges[k].lo \in 0 .. Total /\ ranges[k].hi \in 0 .. Total
  <2>1. CASE ranges = <<>>
    BY <2>1
  <2>2. CASE Tiles(ranges)
    <3>1. ranges \in Seq(Bounds)
      BY <2>2 DEF Tiles
    <3>2. \A k \in DOMAIN ranges : ranges[k] \in Bounds
      BY <3>1
    <3> QED BY <3>2 DEF Bounds
  <2> QED BY <1>2, <2>1, <2>2
<1>4. TypeOK
  BY <1>1, <1>3 DEF Typed, TypeOK, Datas, Outs, Sums
<1>5. ASSUME NEW s \in Pool!Owed, NEW t \in Pool!Owed, s # t
      PROVE  Positions(work[s]) \cap Positions(work[t]) = {}
  <2>1. s \in Task /\ t \in Task /\ Pending(s) /\ Pending(t)
    BY DEF Pool!Owed, Pending
  <2>2. Beside(work[s], work[t])
    BY <1>1, <1>5, <2>1 DEF RoundApart
  <2>3. work[s] \in Works /\ work[t] \in Works
    BY <1>2, <2>1
  <2>4. /\ work[s].lo \in Nat /\ work[s].hi \in Nat /\ work[t].lo \in Nat /\ work[t].hi \in Nat
    BY <1>2, <2>3 DEF Works
  <2> QED BY <2>2, <2>4 DEF Beside, Positions
<1> QED BY <1>4, <1>5 DEF NoRace

\* However long the range, however many threads and whatever the order in which the
\* pool gets round to the tasks, two tasks that may run at the same time have no
\* element in common, so the algorithms need no lock: the pieces of a round are
\* tiles of the range, and a round begins when every future of the one before it
\* has been read.
THEOREM TasksShareNothing == Spec => []NoRace
BY RoundsAlways, RoundsNoRace, PTL

-------------------------------------------------------------------------------
(* What sorting and merging leave of the range: the same elements, those   *)
(* outside the pieces where they were.                                     *)

Permuted(d, e, C) ==
  \E h \in [0 .. Total - 1 -> 0 .. Total - 1] :
     /\ \A i, j \in 0 .. Total - 1 : h[i] = h[j] => i = j
     /\ \A i \in 0 .. Total - 1 : i \notin C => h[i] = i
     /\ e = [i \in 0 .. Total - 1 |-> d[h[i]]]

\* No two elements are the same one.
OwnIds(d) == \A i, j \in 0 .. Total - 1 : d[i].id = d[j].id => i = j

LEMMA PermutedFacts ==
  ASSUME NEW d, NEW e, NEW C, Permuted(d, e, C)
  PROVE  /\ OwnIds(d) => OwnIds(e)
         /\ \A i \in 0 .. Total - 1 : i \notin C => e[i] = d[i]
<1>1. PICK h \in [0 .. Total - 1 -> 0 .. Total - 1] :
         /\ \A i, j \in 0 .. Total - 1 : h[i] = h[j] => i = j
         /\ \A i \in 0 .. Total - 1 : i \notin C => h[i] = i
         /\ e = [i \in 0 .. Total - 1 |-> d[h[i]]]
  BY DEF Permuted
<1>2. \A i \in 0 .. Total - 1 : h[i] \in 0 .. Total - 1 /\ e[i] = d[h[i]]
  BY <1>1
<1> QED BY <1>1, <1>2 DEF OwnIds

LEMMA SortedPermuted ==
  ASSUME Called, NEW d \in Datas, NEW pieces,
         \A p \in pieces : Positions(p) \subseteq 0 .. Total - 1,
         NEW e \in SortedOver(d, pieces)
  PROVE  /\ e \in Datas
         /\ Permuted(d, e, Covered(pieces))
         /\ \A p \in pieces : Ascending(e, p)
<1>1. Total \in Nat
  BY TotalIs
<1> DEFINE D == [key : Key \cup {0}, id : 0 .. Total - 1]
<1>d. d \in [0 .. Total - 1 -> D] /\ Datas = [0 .. Total - 1 -> D]
  BY DEF Datas
<1> HIDE DEF D
<1>2. PICK g \in Shuffles(pieces) :
        /\ e = [i \in 0 .. Total - 1 |-> IF i \in Covered(pieces) THEN d[g[i]] ELSE d[i]]
        /\ \A i \in Covered(pieces) : g[i] \in Covered(pieces) /\ g[i] \in 0 .. Total - 1
        /\ e \in Datas
        /\ \A p \in pieces : Ascending(e, p)
  <2> DEFINE N == Total
  <2>1. N \in Nat /\ d \in [0 .. N - 1 -> D] /\ \A p \in pieces : Positions(p) \subseteq 0 .. N - 1
    BY <1>1, <1>d
  <2> HIDE DEF N
  <2>2. \E g \in Shuffles(pieces) :
           /\ e = [i \in 0 .. N - 1 |-> IF i \in Covered(pieces) THEN d[g[i]] ELSE d[i]]
           /\ \A i \in Covered(pieces) : g[i] \in Covered(pieces) /\ g[i] \in 0 .. N - 1
           /\ e \in [0 .. N - 1 -> D]
           /\ \A p \in pieces : Ascending(e, p)
    BY <2>1, SortedFacts
  <2> QED BY <1>d, <2>2 DEF N
<1>3. \A i, j \in Covered(pieces) : g[i] = g[j] => i = j
  BY DEF Shuffles
<1> DEFINE h == [i \in 0 .. Total - 1 |-> IF i \in Covered(pieces) THEN g[i] ELSE i]
<1>4. h \in [0 .. Total - 1 -> 0 .. Total - 1]
  BY <1>2
<1>5. \A i, j \in 0 .. Total - 1 : h[i] = h[j] => i = j
  BY <1>2, <1>3
<1>6. \A i \in 0 .. Total - 1 : i \notin Covered(pieces) => h[i] = i
  OBVIOUS
<1>7. e = [i \in 0 .. Total - 1 |-> d[h[i]]]
  BY <1>2
<1> HIDE DEF h
<1> QED BY <1>2, <1>4, <1>5, <1>6, <1>7 DEF Permuted

LEMMA CountFacts ==
  ASSUME NEW a \in Int, NEW b \in Int, NEW T, T \subseteq a .. b
  PROVE  /\ Cardinality(T) \in Nat
         /\ \A c \in Int : T \subseteq a .. c /\ a <= c + 1 => Cardinality(T) <= c - a + 1
         /\ \A c, e \in Int : c .. e \subseteq T /\ c <= e + 1 => e - c + 1 <= Cardinality(T)
         /\ \A U : U \subseteq T => Cardinality(U) <= Cardinality(T)
<1>1. IsFiniteSet(a .. b)
  BY FS_Interval
<1>2. IsFiniteSet(T)
  BY <1>1, FS_Subset
<1>3. Cardinality(T) \in Nat
  BY <1>2, FS_CardinalityType
<1>4. ASSUME NEW c \in Int, T \subseteq a .. c, a <= c + 1
      PROVE  Cardinality(T) <= c - a + 1
  <2>1. IsFiniteSet(a .. c) /\ Cardinality(a .. c) = IF a > c THEN 0 ELSE c - a + 1
    BY FS_Interval
  <2>2. Cardinality(T) <= Cardinality(a .. c)
    BY <1>4, <2>1, FS_Subset
  <2> QED BY <1>3, <1>4, <2>1, <2>2
<1>5. ASSUME NEW c \in Int, NEW e \in Int, c .. e \subseteq T, c <= e + 1
      PROVE  e - c + 1 <= Cardinality(T)
  <2>1. Cardinality(c .. e) = IF c > e THEN 0 ELSE e - c + 1
    BY FS_Interval
  <2>2. Cardinality(c .. e) <= Cardinality(T)
    BY <1>2, <1>5, FS_Subset
  <2> QED BY <1>3, <1>5, <2>1, <2>2
<1>6. ASSUME NEW U, U \subseteq T
      PROVE  Cardinality(U) <= Cardinality(T)
  BY <1>2, <1>6, FS_Subset
<1> QED BY <1>3, <1>4, <1>5, <1>6

\* A merge keeps the order of the keys, and of equal ones the order they had.
LEMMA MergeOrder ==
  ASSUME NEW w, w.lo \in Nat, w.mid \in Nat, w.hi \in Nat, w.lo <= w.mid, w.mid <= w.hi,
         NEW d, \A i \in Positions(w) : d[i].key \in Nat,
         Ascending(d, Piece(w.lo, w.mid)), Ascending(d, Piece(w.mid, w.hi))
  PROVE  /\ \A i \in Positions(w) : MergedTo(d, w, i) \in Positions(w)
         /\ \A i, j \in Positions(w) :
              d[i].key < d[j].key \/ (d[i].key = d[j].key /\ i < j)
                => MergedTo(d, w, i) < MergedTo(d, w, j)
<1> DEFINE l == w.lo
           m == w.mid
           h == w.hi
           k(i) == d[i].key
           Right(i) == {j \in m .. h - 1 : k(j) < k(i)}
           Left(i) == {j \in l .. m - 1 : k(j) <= k(i)}
<1>1. l \in Nat /\ m \in Nat /\ h \in Nat /\ l <= m /\ m <= h
  OBVIOUS
<1>2. Positions(w) = l .. h - 1
  BY DEF Positions
<1>3. \A i \in l .. h - 1 : k(i) \in Nat
  BY <1>2
<1>4. /\ \A i, j \in l .. m - 1 : i < j => k(i) <= k(j)
      /\ \A i, j \in m .. h - 1 : i < j => k(i) <= k(j)
  BY DEF Ascending, Positions, Piece
<1>5. \A i : MergedTo(d, w, i) = IF i < m THEN i + Cardinality(Right(i)) ELSE (i - m) + l + Cardinality(Left(i))
  BY DEF MergedTo
<1> DEFINE to(i) == IF i < m THEN i + Cardinality(Right(i)) ELSE (i - m) + l + Cardinality(Left(i))
<1> HIDE DEF l, m, h, k
<1>6. ASSUME NEW i \in l .. h - 1
      PROVE  /\ Right(i) \subseteq m .. h - 1 /\ Left(i) \subseteq l .. m - 1
             /\ Cardinality(Right(i)) \in Nat /\ Cardinality(Right(i)) <= h - m
             /\ Cardinality(Left(i)) \in Nat /\ Cardinality(Left(i)) <= m - l
  <2>1. Right(i) \subseteq m .. h - 1 /\ Left(i) \subseteq l .. m - 1
    OBVIOUS
  <2>2. m \in Int /\ h - 1 \in Int /\ m <= (h - 1) + 1 /\ (h - 1) - m + 1 = h - m
        /\ l \in Int /\ m - 1 \in Int /\ l <= (m - 1) + 1 /\ (m - 1) - l + 1 = m - l
    BY <1>1
  <2> HIDE DEF Right, Left
  <2>3. Cardinality(Right(i)) \in Nat /\ Cardinality(Right(i)) <= (h - 1) - m + 1
    BY <2>1, <2>2, CountFacts
  <2>4. Cardinality(Left(i)) \in Nat /\ Cardinality(Left(i)) <= (m - 1) - l + 1
    BY <2>1, <2>2, CountFacts
  <2> QED BY <2>1, <2>2, <2>3, <2>4
<1>7. ASSUME NEW i \in l .. h - 1 PROVE to(i) \in l .. h - 1
  <2> HIDE DEF Right, Left
  <2> QED BY <1>1, <1>6
<1>8. ASSUME NEW i \in l .. m - 1, NEW j \in l .. m - 1, i < j
      PROVE  to(i) < to(j)
  <2>1. i \in l .. h - 1 /\ j \in l .. h - 1 /\ i < m /\ j < m
    BY <1>1
  <2>2. Right(i) \subseteq Right(j)
    <3>1. k(i) <= k(j) /\ k(i) \in Nat /\ k(j) \in Nat
      BY <1>3, <1>4, <1>8, <2>1
    <3>2. \A r \in m .. h - 1 : k(r) \in Nat
      BY <1>1, <1>3
    <3> QED BY <3>1, <3>2
  <2>3. m \in Int /\ h - 1 \in Int /\ Right(j) \subseteq m .. h - 1
    BY <1>1
  <2> HIDE DEF Right, Left
  <2>4. Cardinality(Right(i)) <= Cardinality(Right(j))
    BY <2>2, <2>3, CountFacts
  <2>5. Cardinality(Right(i)) \in Nat /\ Cardinality(Right(j)) \in Nat
    BY <1>6, <2>1
  <2> QED BY <1>1, <1>8, <2>1, <2>4, <2>5
<1>9. ASSUME NEW i \in m .. h - 1, NEW j \in m .. h - 1, i < j
      PROVE  to(i) < to(j)
  <2>1. i \in l .. h - 1 /\ j \in l .. h - 1 /\ ~(i < m) /\ ~(j < m)
    BY <1>1
  <2>2. Left(i) \subseteq Left(j)
    <3>1. k(i) <= k(j) /\ k(i) \in Nat /\ k(j) \in Nat
      BY <1>3, <1>4, <1>9, <2>1
    <3>2. \A r \in l .. m - 1 : k(r) \in Nat
      BY <1>1, <1>3
    <3> QED BY <3>1, <3>2
  <2>3. l \in Int /\ m - 1 \in Int /\ Left(j) \subseteq l .. m - 1
    BY <1>1
  <2> HIDE DEF Right, Left
  <2>4. Cardinality(Left(i)) <= Cardinality(Left(j))
    BY <2>2, <2>3, CountFacts
  <2>5. Cardinality(Left(i)) \in Nat /\ Cardinality(Left(j)) \in Nat
    BY <1>6, <2>1
  <2> QED BY <1>1, <1>9, <2>1, <2>4, <2>5
<1>10. ASSUME NEW i \in l .. m - 1, NEW j \in m .. h - 1, k(i) <= k(j)
       PROVE  to(i) < to(j)
  <2>1. i \in l .. h - 1 /\ j \in l .. h - 1 /\ i < m /\ ~(j < m)
    BY <1>1
  <2>2. k(i) \in Nat /\ k(j) \in Nat /\ \A r \in l .. h - 1 : k(r) \in Nat
    BY <1>3, <2>1
  <2>3. Right(i) \subseteq m .. j - 1
    <3>1. ASSUME NEW r \in m .. h - 1, k(r) < k(i)
          PROVE  r < j
      <4>1. r \in l .. h - 1
        BY <1>1
      <4>2. ~(k(j) <= k(r))
        BY <1>10, <2>2, <3>1, <4>1
      <4>3. r # j /\ ~(j < r)
        BY <1>4, <2>2, <4>2
      <4> QED BY <1>1, <4>3
    <3> QED BY <3>1
  <2>4. l .. i \subseteq Left(j)
    <3>1. ASSUME NEW r \in l .. i
          PROVE  r \in l .. m - 1 /\ k(r) <= k(j)
      <4>1. r \in l .. m - 1 /\ r \in l .. h - 1 /\ (r = i \/ r < i)
        BY <1>1
      <4>2. k(r) <= k(i)
        BY <1>4, <2>2, <4>1
      <4> QED BY <1>10, <2>2, <4>1, <4>2
    <3> QED BY <3>1
  <2>5. /\ m \in Int /\ h - 1 \in Int /\ j - 1 \in Int /\ m <= (j - 1) + 1 /\ (j - 1) - m + 1 = j - m
        /\ l \in Int /\ m - 1 \in Int /\ i \in Int /\ l <= i + 1
    BY <1>1
  <2>6. Right(i) \subseteq m .. h - 1 /\ Left(j) \subseteq l .. m - 1
    OBVIOUS
  <2> HIDE DEF Right, Left
  <2>7. Cardinality(Right(i)) <= (j - 1) - m + 1
    BY <2>3, <2>5, <2>6, CountFacts
  <2>8. i - l + 1 <= Cardinality(Left(j))
    BY <2>4, <2>5, <2>6, CountFacts
  <2>9. Cardinality(Right(i)) \in Nat /\ Cardinality(Left(j)) \in Nat
    BY <1>6, <2>1
  <2> QED BY <1>1, <2>1, <2>7, <2>8, <2>9
<1>11. ASSUME NEW i \in l .. m - 1, NEW j \in m .. h - 1, k(j) < k(i)
       PROVE  to(j) < to(i)
  <2>1. i \in l .. h - 1 /\ j \in l .. h - 1 /\ i < m /\ ~(j < m)
    BY <1>1
  <2>2. k(i) \in Nat /\ k(j) \in Nat /\ \A r \in l .. h - 1 : k(r) \in Nat
    BY <1>3, <2>1
  <2>3. Left(j) \subseteq l .. i - 1
    <3>1. ASSUME NEW r \in l .. m - 1, k(r) <= k(j)
          PROVE  r < i
      <4>1. r \in l .. h - 1
        BY <1>1
      <4>2. ~(k(i) <= k(r))
        BY <1>11, <2>2, <3>1, <4>1
      <4>3. r # i /\ ~(i < r)
        BY <1>4, <2>2, <4>2
      <4> QED BY <1>1, <4>3
    <3> QED BY <3>1
  <2>4. m .. j \subseteq Right(i)
    <3>1. ASSUME NEW r \in m .. j
          PROVE  r \in m .. h - 1 /\ k(r) < k(i)
      <4>1. r \in m .. h - 1 /\ r \in l .. h - 1 /\ (r = j \/ r < j)
        BY <1>1
      <4>2. k(r) <= k(j)
        BY <1>4, <2>2, <4>1
      <4> QED BY <1>11, <2>2, <4>1, <4>2
    <3> QED BY <3>1
  <2>5. /\ m \in Int /\ h - 1 \in Int /\ j \in Int /\ m <= j + 1
        /\ l \in Int /\ m - 1 \in Int /\ i - 1 \in Int /\ l <= (i - 1) + 1 /\ (i - 1) - l + 1 = i - l
    BY <1>1
  <2>6. Right(i) \subseteq m .. h - 1 /\ Left(j) \subseteq l .. m - 1
    OBVIOUS
  <2> HIDE DEF Right, Left
  <2>7. Cardinality(Left(j)) <= (i - 1) - l + 1
    BY <2>3, <2>5, <2>6, CountFacts
  <2>8. j - m + 1 <= Cardinality(Right(i))
    BY <2>4, <2>5, <2>6, CountFacts
  <2>9. Cardinality(Right(i)) \in Nat /\ Cardinality(Left(j)) \in Nat
    BY <1>6, <2>1
  <2> QED BY <1>1, <2>1, <2>7, <2>8, <2>9
<1>12. ASSUME NEW i \in l .. h - 1, NEW j \in l .. h - 1, k(i) < k(j) \/ (k(i) = k(j) /\ i < j)
       PROVE  to(i) < to(j)
  <2>0. k(i) \in Nat /\ k(j) \in Nat
    BY <1>3
  <2> HIDE DEF to
  <2>1. CASE i < m /\ j < m
    <3>1. i \in l .. m - 1 /\ j \in l .. m - 1
      BY <1>1, <2>1
    <3>2. ~(j < i) /\ i # j
      BY <1>4, <1>12, <2>0, <3>1
    <3> QED BY <1>1, <1>8, <3>1, <3>2
  <2>2. CASE ~(i < m) /\ ~(j < m)
    <3>1. i \in m .. h - 1 /\ j \in m .. h - 1
      BY <1>1, <2>2
    <3>2. ~(j < i) /\ i # j
      BY <1>4, <1>12, <2>0, <3>1
    <3> QED BY <1>1, <1>9, <3>1, <3>2
  <2>3. CASE i < m /\ ~(j < m)
    BY <1>1, <1>10, <1>12, <2>0, <2>3
  <2>4. CASE ~(i < m) /\ j < m
    <3>1. i \in m .. h - 1 /\ j \in l .. m - 1 /\ ~(i < j)
      BY <1>1, <2>4
    <3> QED BY <1>11, <1>12, <3>1
  <2> QED BY <2>1, <2>2, <2>3, <2>4
<1>13. \A i : MergedTo(d, w, i) = to(i)
  BY <1>5
<1> HIDE DEF to
<1> QED BY <1>2, <1>7, <1>12, <1>13 DEF k

LEMMA MergedPermuted ==
  ASSUME Called, NEW d \in Datas, NEW w \in Works, w.kind = "merge",
         Ascending(d, Piece(w.lo, w.mid)), Ascending(d, Piece(w.mid, w.hi))
  PROVE  /\ Permuted(d, Merged(d, w), Positions(w))
         /\ Ascending(Merged(d, w), w)
<1> DEFINE P == Positions(w)
           to == [i \in P |-> MergedTo(d, w, i)]
<1>1. /\ Total \in Nat
      /\ w.lo \in Nat /\ w.mid \in Nat /\ w.hi \in Nat /\ w.lo <= w.mid /\ w.mid <= w.hi
      /\ \A i \in P : i \in 0 .. Total - 1 /\ i \in Nat
  BY TotalIs, PositionsTyped DEF Works
<1>2. \A i \in P : d[i].key \in Nat
  <2>1. \A i \in 0 .. Total - 1 : d[i].key \in Key \cup {0}
    BY DEF Datas
  <2>2. Key \cup {0} \subseteq Nat
    BY ParallelAssumption
  <2> QED BY <1>1, <2>1, <2>2
<1>3. /\ \A i \in P : to[i] \in P
      /\ \A i, j \in P : d[i].key < d[j].key \/ (d[i].key = d[j].key /\ i < j) => to[i] < to[j]
  BY <1>1, <1>2, MergeOrder
<1>4. \A i, j \in P : to[i] = to[j] => i = j
  <2>1. \A i \in P : to[i] \in Nat
    BY <1>1, <1>3
  <2> HIDE DEF to, P
  <2> QED BY <1>1, <1>2, <1>3, <2>1
<1>5. \A k \in P : \E i \in P : to[i] = k
  <2>1. to \in Injection(P, P)
    <3> HIDE DEF P
    <3>1. to \in [P -> P]
      BY <1>3
    <3> HIDE DEF to
    <3> QED BY <1>4, <3>1 DEF Injection, IsInjective
  <2>2. IsFiniteSet(P)
    <3>1. w.lo \in Int /\ w.hi - 1 \in Int
      BY <1>1
    <3> QED BY <3>1, FS_Interval DEF Positions
  <2>3. to \in Surjection(P, P)
    BY <2>1, <2>2, FS_Injection
  <2> QED BY <2>3 DEF Surjection
<1> DEFINE from(k) == CHOOSE i \in P : MergedTo(d, w, i) = k
           h == [k \in 0 .. Total - 1 |-> IF k \in P THEN from(k) ELSE k]
<1>6. \A k \in P : from(k) \in P /\ to[from(k)] = k
  BY <1>5
<1>7. Merged(d, w) = [k \in 0 .. Total - 1 |-> d[h[k]]]
  <2>1. DOMAIN d = 0 .. Total - 1
    BY DEF Datas
  <2>2. \A k \in P : \E i \in P : MergedTo(d, w, i) = k
    BY <1>5
  <2> QED BY <2>1, <2>2 DEF Merged
<1>8. h \in [0 .. Total - 1 -> 0 .. Total - 1] /\ \A k \in 0 .. Total - 1 : k \notin P => h[k] = k
  BY <1>1, <1>6
<1>9. \A k \in P : h[k] \in P /\ to[h[k]] = k
  BY <1>1, <1>6
<1> HIDE DEF h, to, from, P
<1>10. \A i, j \in 0 .. Total - 1 : h[i] = h[j] => i = j
  BY <1>8, <1>9
<1>11. Permuted(d, Merged(d, w), P)
  BY <1>7, <1>8, <1>10 DEF Permuted
<1>12. ASSUME NEW i \in P, NEW j \in P, i < j
       PROVE  Merged(d, w)[i].key <= Merged(d, w)[j].key
  <2>1. Merged(d, w)[i] = d[h[i]] /\ Merged(d, w)[j] = d[h[j]]
    BY <1>1, <1>7
  <2>2. h[i] \in P /\ h[j] \in P /\ to[h[i]] = i /\ to[h[j]] = j /\ i \in Nat /\ j \in Nat
    BY <1>1, <1>9
  <2> DEFINE x == h[i]
             y == h[j]
  <2>3. x \in P /\ y \in P /\ to[x] = i /\ to[y] = j /\ d[x].key \in Nat /\ d[y].key \in Nat
    BY <1>2, <2>2
  <2>4. Merged(d, w)[i] = d[x] /\ Merged(d, w)[j] = d[y]
    BY <2>1
  <2> HIDE DEF x, y
  <2>5. d[y].key < d[x].key => to[y] < to[x]
    BY <1>3, <2>3
  <2>6. ~(d[y].key < d[x].key)
    BY <1>12, <2>2, <2>3, <2>5
  <2> QED BY <2>3, <2>4, <2>6
<1> QED BY <1>11, <1>12 DEF P, Ascending

-------------------------------------------------------------------------------
(* What is left to do in a round.                                          *)

Left == {todo[k] : k \in 1 .. Len(todo)} \cup {work[t] : t \in {s \in Task : Pending(s)}}
Due(i) == \E w \in Left : i \in Positions(w)

LEMMA BesideDisjoint ==
  ASSUME NEW p, NEW q, p.lo \in Int, p.hi \in Int, q.lo \in Int, q.hi \in Int, Beside(p, q)
  PROVE  \A i \in Positions(p) : i \notin Positions(q)
BY DEF Beside, Positions

LEMMA LeftTyped ==
  ASSUME Typed
  PROVE  Left \subseteq Works
BY DEF Typed, Left

LEMMA NothingLeft ==
  ASSUME \A t \in Task : ~Pending(t), todo = <<>>
  PROVE  Left = {}
BY DEF Left

\* A new round, after one that is over.
LEMMA LeftOfNewRound ==
  ASSUME \A t \in Task : ~Pending(t)'
  PROVE  Left' = {todo'[k] : k \in 1 .. Len(todo')}
BY DEF Left

LEMMA LeftOnSubmit ==
  ASSUME Typed, Submit
  PROVE  Left' = Left
<1>1. PICK t \in Task :
        /\ status[t] = "new" /\ status' = [status EXCEPT ![t] = "queued"]
        /\ work' = [work EXCEPT ![t] = todo[1]]
        /\ Len(todo) \in Nat \ {0} /\ Len(todo') = Len(todo) - 1
        /\ \A k \in 1 .. Len(todo) - 1 : todo'[k] = todo[k + 1]
  BY SubmitIs
<1>2. status \in [Task -> Pool!Status] /\ work \in [Task -> Works]
  BY DEF Typed, Pool!TypeOK
<1>3. /\ ~Pending(t) /\ Pending(t)' /\ work'[t] = todo[1]
      /\ \A s \in Task : s # t => (Pending(s)' <=> Pending(s)) /\ work'[s] = work[s]
  BY <1>1, <1>2 DEF Pending
<1>4. ASSUME NEW w \in Left PROVE w \in Left'
  <2>1. CASE \E k \in 1 .. Len(todo) : w = todo[k]
    <3>1. PICK k \in 1 .. Len(todo) : w = todo[k]
      BY <2>1
    <3>2. CASE k = 1
      BY <1>3, <3>1, <3>2 DEF Left
    <3>3. CASE k # 1
      <4>1. k - 1 \in 1 .. Len(todo) - 1 /\ (k - 1) + 1 = k /\ k - 1 \in 1 .. Len(todo')
        BY <1>1, <3>3
      <4>2. w = todo'[k - 1]
        BY <1>1, <3>1, <4>1
      <4> QED BY <4>1, <4>2 DEF Left
    <3> QED BY <3>2, <3>3
  <2>2. CASE \E s \in Task : Pending(s) /\ w = work[s]
    <3>1. PICK s \in Task : Pending(s) /\ w = work[s]
      BY <2>2
    <3>2. s # t /\ Pending(s)' /\ w = work'[s]
      BY <1>3, <3>1
    <3> QED BY <3>2 DEF Left
  <2> QED BY <2>1, <2>2 DEF Left
<1>5. ASSUME NEW w \in Left' PROVE w \in Left
  <2>1. CASE \E k \in 1 .. Len(todo') : w = todo'[k]
    <3>1. PICK k \in 1 .. Len(todo') : w = todo'[k]
      BY <2>1
    <3>2. k \in 1 .. Len(todo) - 1 /\ k + 1 \in 1 .. Len(todo) /\ w = todo[k + 1]
      BY <1>1, <3>1
    <3> QED BY <3>2 DEF Left
  <2>2. CASE \E s \in Task : Pending(s)' /\ w = work'[s]
    <3>1. PICK s \in Task : Pending(s)' /\ w = work'[s]
      BY <2>2
    <3>2. CASE s = t
      <4>1. w = todo[1] /\ 1 \in 1 .. Len(todo)
        BY <1>1, <1>3, <3>1, <3>2
      <4> QED BY <4>1 DEF Left
    <3>3. CASE s # t
      BY <1>3, <3>1, <3>3 DEF Left
    <3> QED BY <3>2, <3>3
  <2> QED BY <2>1, <2>2 DEF Left
<1> QED BY <1>4, <1>5

\* A task that ends well has its piece behind it, and the others keep theirs.
LEMMA EndIs ==
  ASSUME Typed, RoundApart, NEW t \in Task, TaskEnds(t)
  PROVE  /\ UNCHANGED caller_vars /\ status' = [status EXCEPT ![t] = "value"]
         /\ work[t] \in Left /\ work[t] \in Works
         /\ Left' \subseteq Left /\ Left \subseteq Left' \cup {work[t]}
         /\ \A w \in Left' : Beside(w, work[t])
         /\ \A i : Due(i)' <=> Due(i) /\ i \notin Positions(work[t])
         /\ work[t].kind = "apply" => Apply(work[t])
         /\ work[t].kind = "transform" => Transform(work[t])
         /\ work[t].kind = "accumulate" => Accumulate(t, work[t])
         /\ work[t].kind = "write" => WriteSums(work[t])
         /\ work[t].kind = "sort" => Sort(work[t])
         /\ work[t].kind = "merge" => Merge(work[t])
<1>1. UNCHANGED caller_vars /\ status[t] = "running" /\ status' = [status EXCEPT ![t] = "value"]
  BY DEF TaskEnds, Pool!Finish
<1>2. /\ status \in [Task -> Pool!Status] /\ work \in [Task -> Works] /\ Called
      /\ Left \subseteq Works
  BY LeftTyped DEF Typed, Pool!TypeOK
<1>3. /\ Pending(t) /\ ~Pending(t)' /\ UNCHANGED <<work, todo>>
      /\ \A s \in Task : s # t => (Pending(s)' <=> Pending(s))
  BY <1>1, <1>2 DEF Pending, caller_vars
<1>4. work[t] \in Left /\ Left' \subseteq Left /\ Left \subseteq Left' \cup {work[t]}
  <2>1. work[t] \in Left
    BY <1>3 DEF Left
  <2>2. Left' \subseteq Left
    BY <1>3 DEF Left
  <2>3. Left \subseteq Left' \cup {work[t]}
    BY <1>3 DEF Left
  <2> QED BY <2>1, <2>2, <2>3
<1>5. ASSUME NEW w \in Left' PROVE Beside(w, work[t])
  <2>1. CASE \E k \in 1 .. Len(todo) : w = todo[k]
    BY <1>3, <2>1, BesideSym DEF RoundApart
  <2>2. CASE \E s \in Task : s # t /\ Pending(s) /\ w = work[s]
    BY <1>3, <2>2 DEF RoundApart
  <2>3. \/ \E k \in 1 .. Len(todo) : w = todo[k]
        \/ \E s \in Task : s # t /\ Pending(s) /\ w = work[s]
    BY <1>3 DEF Left
  <2> QED BY <2>1, <2>2, <2>3
<1>6. ASSUME NEW i
      PROVE  Due(i)' <=> Due(i) /\ i \notin Positions(work[t])
  <2>1. Due(i)' <=> \E w \in Left' : i \in Positions(w)
    BY DEF Due, Positions
  <2>2. ASSUME NEW w \in Left', i \in Positions(w)
        PROVE  i \notin Positions(work[t])
    <3>1. w \in Works /\ work[t] \in Works
      BY <1>2, <1>4
    <3>2. w.lo \in Int /\ w.hi \in Int /\ work[t].lo \in Int /\ work[t].hi \in Int
      BY <1>2, <3>1, TotalIs DEF Works
    <3> QED BY <1>5, <2>2, <3>2, BesideDisjoint
  <2> QED BY <1>4, <2>1, <2>2 DEF Due
<1>7. \/ Apply(work[t]) \/ Transform(work[t]) \/ Accumulate(t, work[t])
      \/ WriteSums(work[t]) \/ Sort(work[t]) \/ Merge(work[t])
  BY DEF TaskEnds
<1>8. /\ Apply(work[t]) => work[t].kind = "apply"
      /\ Transform(work[t]) => work[t].kind = "transform"
      /\ Accumulate(t, work[t]) => work[t].kind = "accumulate"
      /\ WriteSums(work[t]) => work[t].kind = "write"
      /\ Sort(work[t]) => work[t].kind = "sort"
      /\ Merge(work[t]) => work[t].kind = "merge"
  BY DEF Apply, Transform, Accumulate, WriteSums, Sort, Merge
<1>9. /\ work[t].kind = "apply" => Apply(work[t])
      /\ work[t].kind = "transform" => Transform(work[t])
      /\ work[t].kind = "accumulate" => Accumulate(t, work[t])
      /\ work[t].kind = "write" => WriteSums(work[t])
      /\ work[t].kind = "sort" => Sort(work[t])
      /\ work[t].kind = "merge" => Merge(work[t])
  BY <1>7, <1>8
<1> QED BY <1>1, <1>2, <1>4, <1>5, <1>6, <1>9

\* The steps that leave the caller in the middle of the call, and those of them
\* that neither begin a round nor touch the range.
Quiet ==
  /\ pc = "submit" /\ Left' = Left
  /\ UNCHANGED <<pc, call, ranges, data, out>>

LEMMA StepsOfACall ==
  ASSUME Rounds, [Next]_vars, pc' = "submit"
  PROVE  \/ Quiet \/ Split \/ SecondRound \/ MergeRound
         \/ \E t \in Task : pc = "submit" /\ TaskEnds(t)
<1>1. Typed /\ status \in [Task -> Pool!Status]
  BY DEF Rounds, Typed, Pool!TypeOK
<1>2. CASE Submit
  <2>1. UNCHANGED <<call, ranges, pc, data, out>> /\ pc = "submit"
    BY <1>2 DEF Submit
  <2> QED BY <1>1, <1>2, <2>1, LeftOnSubmit DEF Quiet
<1>3. CASE Get
  <2>1. pc = "submit" /\ UNCHANGED <<call, ranges, todo, work, data, out, status>>
    BY <1>3 DEF Get
  <2>2. pc' = pc
    BY <2>1
  <2>3. Left' = Left
    BY <2>1 DEF Left, Pending
  <2> QED BY <2>1, <2>2, <2>3 DEF Quiet
<1>4. ASSUME NEW t \in Task, TaskStarts(t) \/ TaskThrows(t)
      PROVE  Quiet
  <2>1. /\ UNCHANGED <<caller_vars, data, out>> /\ Pending(t)
        /\ status' = [status EXCEPT ![t] = "running"] \/ status' = [status EXCEPT ![t] = "exception"]
    BY <1>4 DEF TaskStarts, TaskThrows, Pool!Start, Pool!Finish, Pending
  <2>2. \A s \in Task : Pending(s)' <=> Pending(s)
    BY <1>1, <2>1 DEF Pending
  <2>3. UNCHANGED <<call, ranges, todo, work, pc>>
    BY <2>1 DEF caller_vars
  <2>4. Left' = Left
    BY <2>2, <2>3 DEF Left
  <2> QED BY <2>1, <2>3, <2>4 DEF Quiet
<1>5. ASSUME NEW t \in Task, TaskEnds(t)
      PROVE  pc = "submit"
  BY <1>5 DEF TaskEnds, caller_vars
<1>6. CASE UNCHANGED vars
  <2>1. UNCHANGED <<call, ranges, todo, work, pc, data, out, status>>
    BY <1>6 DEF vars, caller_vars
  <2>2. Left' = Left
    BY <2>1 DEF Left, Pending
  <2> QED BY <2>1, <2>2 DEF Quiet
<1>7. ~ReturnAtOnce /\ ~Return
  BY DEF ReturnAtOnce, Return
<1> QED BY <1>2, <1>3, <1>4, <1>5, <1>6, <1>7 DEF Next, CallerStep

LEMMA QuietDue ==
  ASSUME Quiet
  PROVE  \A i : Due(i)' <=> Due(i)
<1>1. \A i : Due(i)' <=> \E w \in Left' : i \in Positions(w)
  BY DEF Due, Positions
<1> QED BY <1>1 DEF Quiet, Due

LEMMA WorkFields ==
  \A kind, p : Work(kind, p).kind = kind /\ Work(kind, p).lo = p.lo /\ Work(kind, p).hi = p.hi
BY DEF Work

\* The range is cut when nothing else has happened.
LEMMA SplitIs ==
  ASSUME Rounds, Split
  PROVE  /\ Called /\ Total \in Nat \ {0} /\ call' = call /\ Total' = Total
         /\ Tiles(Chunks) /\ ranges' = Chunks /\ DOMAIN Chunks = 1 .. Len(Chunks) /\ Len(Chunks) \in Nat \ {0}
         /\ \A i \in 0 .. Total - 1 : out'[i] = <<>>
         /\ UNCHANGED <<work, futures, sums, status, result>>
         /\ sums = <<<<>>>> /\ futures = <<>> /\ work = [t \in Task |-> NoWork]
         /\ \A t \in Task : ~Pending(t)
         /\ Left' = {todo'[k] : k \in 1 .. Len(todo')}
         /\ call.op = "tim_sort" => todo' = <<>> /\ data' \in SortedOver(data, ToSet(Chunks))
         /\ call.op # "tim_sort" =>
              /\ data' = data /\ Len(todo') = Len(Chunks)
              /\ \A k \in 1 .. Len(Chunks) : todo'[k] = Work(FirstKind, Chunks[k])
<1>1. /\ pc = "split" /\ Total # 0 /\ ranges' = Chunks
      /\ UNCHANGED <<call, work, futures, sums, out, result, status, closed>>
  BY DEF Split, TooSmall
<1>2. /\ todo = <<>> /\ futures = <<>> /\ sums = <<<<>>>>
      /\ work = [t \in Task |-> NoWork] /\ status = [t \in Task |-> "new"]
      /\ out = [i \in 0 .. Total - 1 |-> <<>>]
  BY <1>1 DEF Rounds, Fresh
<1>3. Called /\ Total \in Nat \ {0} /\ Total' = Total
  BY <1>1, TotalIs, SetsStay DEF Rounds, Typed
<1>4. Tiles(Chunks)
  BY <1>1, <1>3, ChunksTile
<1>5. DOMAIN Chunks = 1 .. Len(Chunks) /\ Len(Chunks) \in Nat \ {0}
  BY <1>4 DEF Tiles
<1>6. \A t \in Task : ~Pending(t) /\ ~Pending(t)'
  BY <1>1, <1>2 DEF Pending
<1>7. Left' = {todo'[k] : k \in 1 .. Len(todo')}
  BY <1>6, LeftOfNewRound
<1>8. call.op = "tim_sort" => todo' = <<>> /\ data' \in SortedOver(data, ToSet(Chunks))
  BY <1>2 DEF Split
<1>9. ASSUME call.op # "tim_sort"
      PROVE  /\ data' = data /\ Len(todo') = Len(Chunks)
             /\ \A k \in 1 .. Len(Chunks) : todo'[k] = Work(FirstKind, Chunks[k])
  <2>1. data' = data /\ todo' = [k \in 1 .. Len(Chunks) |-> Work(FirstKind, Chunks[k])]
    BY <1>5, <1>9 DEF Split
  <2> QED BY <1>5, <2>1
<1>10. \A i \in 0 .. Total - 1 : out'[i] = <<>>
  BY <1>1, <1>2
<1> QED BY <1>1, <1>2, <1>3, <1>4, <1>5, <1>6, <1>7, <1>8, <1>9, <1>10

\* Pieces that are cut along the tiles leave nothing out.
LEMMA AllDue ==
  ASSUME Called, Total' = Total, NEW rs, Tiles(rs), Left' = {todo'[k] : k \in 1 .. Len(todo')},
         Len(todo') = Len(rs),
         \A k \in 1 .. Len(rs) : todo'[k].lo = rs[k].lo /\ todo'[k].hi = rs[k].hi
  PROVE  \A i \in 0 .. Total - 1 : Due(i)'
<1> SUFFICES ASSUME NEW i \in 0 .. Total - 1
             PROVE  \E w \in Left' : i \in Positions(w)
  BY DEF Due, Positions
<1>1. PICK k \in 1 .. Len(rs) : i \in Positions(rs[k])
  BY TilesCover
<1>2. i \in Positions(todo'[k])
  BY <1>1 DEF Positions
<1> QED BY <1>2

-------------------------------------------------------------------------------
(* What a call has done so far.                                            *)

\* A call that returns leaves no task behind.
DoneWhenReturned == pc = "returned" => \A t \in Task : ~Pending(t)

HasRanges == pc = "submit" => Tiles(ranges) \/ (call.op = "scan" /\ ranges = <<>>)

Untouched == pc = "split" \/ (pc = "submit" /\ ~Sorts) => \A i \in 0 .. Total - 1 : data[i].id = i

NowKind == IF call.op = "scan" /\ ranges = <<>> THEN "write" ELSE FirstKind
Kinds == pc = "submit" /\ ~Sorts => \A w \in Left : w.kind = NowKind

Applied ==
  pc = "submit" /\ call.op \in {"for_each", "transform"} =>
    \A i \in 0 .. Total - 1 :
      /\ ~Due(i) => out[i] = <<i>>
      /\ call.op = "for_each" /\ Due(i) => out[i] = <<>>

LEMMA DoneInductive ==
  ASSUME Rounds, DoneWhenReturned, [Next]_vars
  PROVE  DoneWhenReturned'
<1>1. status \in [Task -> Pool!Status]
  BY DEF Rounds, Typed, Pool!TypeOK
<1>2. CASE ReturnAtOnce
  <2>1. status' = status /\ status = [t \in Task |-> "new"]
    BY <1>2 DEF ReturnAtOnce, Rounds, Fresh
  <2> QED BY <2>1 DEF DoneWhenReturned, Pending
<1>3. CASE Return
  <2>1. RoundOver /\ status' = status
    BY <1>3 DEF Return
  <2>2. \A t \in Task : ~Pending(t)
    BY <2>1, NobodyLeft DEF Rounds
  <2> QED BY <2>1, <2>2 DEF DoneWhenReturned, Pending
<1>4. CASE Split \/ Submit \/ Get \/ SecondRound \/ MergeRound
  <2>1. pc' # "returned"
    BY <1>4 DEF Split, Submit, Get, SecondRound, MergeRound, RoundOver
  <2> QED BY <2>1 DEF DoneWhenReturned
<1>5. ASSUME NEW t \in Task, TaskStarts(t) \/ TaskEnds(t) \/ TaskThrows(t)
      PROVE  DoneWhenReturned'
  <2>1. Pending(t) /\ pc' = pc
    BY <1>5 DEF TaskStarts, TaskEnds, TaskThrows, Pool!Start, Pool!Finish, Pending, caller_vars
  <2> QED BY <2>1 DEF DoneWhenReturned
<1>6. CASE UNCHANGED vars
  <2>1. UNCHANGED <<pc, status>>
    BY <1>6 DEF vars, caller_vars
  <2> QED BY <2>1 DEF DoneWhenReturned, Pending
<1> QED BY <1>2, <1>3, <1>4, <1>5, <1>6 DEF Next, CallerStep

LEMMA HasRangesInductive ==
  ASSUME Rounds, HasRanges, [Next]_vars
  PROVE  HasRanges'
<1> SUFFICES ASSUME pc' = "submit"
             PROVE  Tiles(ranges)' \/ (call'.op = "scan" /\ ranges' = <<>>)
  BY DEF HasRanges
<1>1. call' = call
  BY CallStays
<1>2. Called
  BY DEF Rounds, Typed
<1>3. ASSUME NEW rs, Tiles(rs), ranges' = rs PROVE Tiles(ranges)'
  BY <1>1, <1>3 DEF Tiles, Bounds, Total
<1>4. CASE Quiet \/ \E t \in Task : pc = "submit" /\ TaskEnds(t)
  <2>1. pc = "submit" /\ ranges' = ranges
    BY <1>4 DEF Quiet, TaskEnds, caller_vars
  <2> QED BY <1>1, <1>3, <2>1 DEF HasRanges
<1>5. CASE Split
  BY <1>3, <1>5, SplitIs
<1>6. CASE SecondRound
  BY <1>1, <1>6 DEF SecondRound
<1>7. CASE MergeRound
  <2>1. ranges' = NewRanges(ranges) /\ pc = "submit" /\ call.op # "scan"
    BY <1>7 DEF MergeRound, RoundOver, Sorts
  <2> QED BY <1>2, <1>3, <2>1, NewRangesTile DEF HasRanges
<1> QED BY <1>4, <1>5, <1>6, <1>7, StepsOfACall

LEMMA UntouchedInductive ==
  ASSUME Rounds, HasRanges, Kinds, Untouched, [Next]_vars
  PROVE  Untouched'
<1>1. call' = call /\ Total' = Total /\ (Sorts' <=> Sorts)
  BY CallStays, SetsStay
<1>2. data' = data /\ (pc = "split" \/ (pc = "submit" /\ ~Sorts)) => Untouched'
  BY <1>1 DEF Untouched
<1>3. CASE pc' = "split"
  <2>1. ASSUME NEW t \in Task, TaskStarts(t) \/ TaskEnds(t) \/ TaskThrows(t)
        PROVE  FALSE
    <3>1. pc = "split" /\ status[t] \in {"queued", "running"}
      BY <1>3, <2>1 DEF TaskStarts, TaskEnds, TaskThrows, Pool!Start, Pool!Finish, caller_vars
    <3> QED BY <3>1 DEF Rounds, Fresh
  <2>2. ~CallerStep
    BY <1>3 DEF CallerStep, ReturnAtOnce, Split, Submit, Get, SecondRound, MergeRound, Return, RoundOver
  <2>3. UNCHANGED vars
    BY <2>1, <2>2 DEF Next
  <2> QED BY <1>2, <1>3, <2>3 DEF vars, caller_vars
<1>4. CASE pc' = "submit" /\ ~Sorts
  <2>1. CASE Quiet
    BY <1>2, <1>4, <2>1 DEF Quiet
  <2>2. CASE Split
    <3>1. pc = "split" /\ data' = data
      BY <1>4, <2>2, SplitIs DEF Split, Sorts
    <3> QED BY <1>2, <3>1
  <2>3. CASE SecondRound
    BY <1>2, <1>4, <2>3 DEF SecondRound, RoundOver
  <2>4. ~MergeRound
    BY <1>4 DEF MergeRound
  <2>5. ASSUME NEW t \in Task, pc = "submit", TaskEnds(t)
        PROVE  Untouched'
    <3>1. work[t] \in Left
      BY <2>5, EndIs DEF Rounds
    <3>2. work[t].kind = NowKind
      BY <1>4, <2>5, <3>1 DEF Kinds
    <3>3. NowKind \in {"apply", "transform", "accumulate", "write"}
      BY <1>4, ParallelAssumption DEF NowKind, FirstKind, Sorts, Rounds, Typed, Called
    <3>4. Apply(work[t]) \/ Transform(work[t]) \/ Accumulate(t, work[t]) \/ WriteSums(work[t])
      BY <2>5, <3>2, <3>3, EndIs DEF Rounds
    <3>5. data' = data
      BY <3>4 DEF Apply, Transform, Accumulate, WriteSums
    <3> QED BY <1>2, <1>4, <2>5, <3>5
  <2> QED BY <1>4, <2>1, <2>2, <2>3, <2>4, <2>5, StepsOfACall
<1> QED BY <1>1, <1>3, <1>4 DEF Untouched

LEMMA KindsInductive ==
  ASSUME Rounds, HasRanges, Kinds, [Next]_vars
  PROVE  Kinds'
<1>1. call' = call /\ (Sorts' <=> Sorts)
  BY CallStays, SetsStay
<1> SUFFICES ASSUME pc' = "submit", ~Sorts, NEW w \in Left'
             PROVE  w.kind = NowKind'
  BY <1>1 DEF Kinds
<1>2. ranges' = ranges => NowKind' = NowKind
  BY <1>1 DEF NowKind, FirstKind
<1>3. CASE Quiet
  BY <1>2, <1>3 DEF Quiet, Kinds
<1>4. CASE Split
  <2>1. w \in {todo'[k] : k \in 1 .. Len(todo')} /\ call.op # "tim_sort"
        /\ Len(todo') = Len(Chunks) /\ \A k \in 1 .. Len(Chunks) : todo'[k] = Work(FirstKind, Chunks[k])
    BY <1>4, SplitIs DEF Sorts
  <2>2. w.kind = FirstKind
    BY <2>1, WorkFields
  <2>3. ranges' # <<>>
    BY <1>4, SplitIs
  <2> QED BY <1>1, <2>2, <2>3 DEF NowKind, FirstKind
<1>5. CASE SecondRound
  <2>1. /\ RoundOver /\ ranges # <<>> /\ ranges' = <<>> /\ call.op = "scan" /\ status' = status
        /\ todo' = [k \in DOMAIN ranges |-> [Work("write", ranges[k]) EXCEPT !.offset = Offset(k)]]
    BY <1>5 DEF SecondRound
  <2>2. \A t \in Task : ~Pending(t)'
    BY <2>1, NobodyLeft DEF Rounds, Pending
  <2>3. PICK k \in 1 .. Len(todo') : w = todo'[k]
    BY <2>2, LeftOfNewRound
  <2>4. DOMAIN ranges = 1 .. Len(ranges) /\ Len(ranges) \in Nat
    BY <2>1 DEF Rounds, Typed, Tiles
  <2>5. w = [Work("write", ranges[k]) EXCEPT !.offset = Offset(k)]
    BY <2>1, <2>3, <2>4
  <2>6. w.kind = "write"
    BY <2>5 DEF Work
  <2> QED BY <1>1, <2>1, <2>6 DEF NowKind
<1>6. ~MergeRound
  BY DEF MergeRound
<1>7. ASSUME NEW t \in Task, pc = "submit", TaskEnds(t)
      PROVE  w.kind = NowKind'
  <2>1. w \in Left /\ ranges' = ranges
    BY <1>7, EndIs DEF Rounds, caller_vars
  <2> QED BY <1>2, <1>7, <2>1 DEF Kinds
<1> QED BY <1>3, <1>4, <1>5, <1>6, <1>7, StepsOfACall

LEMMA AppliedInductive ==
  ASSUME Rounds, HasRanges, Kinds, Untouched, Applied, [Next]_vars
  PROVE  Applied'
<1>1. call' = call /\ Total' = Total
  BY CallStays, SetsStay
<1> SUFFICES ASSUME pc' = "submit", call.op \in {"for_each", "transform"}, NEW i \in 0 .. Total - 1
             PROVE  /\ ~Due(i)' => out'[i] = <<i>>
                    /\ call.op = "for_each" /\ Due(i)' => out'[i] = <<>>
  BY <1>1 DEF Applied
<1>2. ASSUME pc = "submit"
      PROVE  /\ ~Due(i) => out[i] = <<i>>
             /\ call.op = "for_each" /\ Due(i) => out[i] = <<>>
  BY <1>2 DEF Applied
<1>3. CASE Quiet
  <2>1. out' = out /\ pc = "submit" /\ (Due(i)' <=> Due(i))
    BY <1>3, QuietDue DEF Quiet
  <2> QED BY <1>2, <2>1
<1>4. CASE Split
  <2>1. /\ Called /\ Tiles(Chunks) /\ out'[i] = <<>>
        /\ Left' = {todo'[k] : k \in 1 .. Len(todo')} /\ Len(todo') = Len(Chunks)
        /\ \A k \in 1 .. Len(Chunks) : todo'[k] = Work(FirstKind, Chunks[k])
    BY <1>4, SplitIs
  <2>2. \A k \in 1 .. Len(Chunks) : todo'[k].lo = Chunks[k].lo /\ todo'[k].hi = Chunks[k].hi
    BY <2>1, WorkFields
  <2>3. Due(i)'
    BY <1>1, <2>1, <2>2, AllDue
  <2> QED BY <2>1, <2>3
<1>5. ~SecondRound /\ ~MergeRound
  BY DEF SecondRound, MergeRound, Sorts
<1>6. ASSUME NEW t \in Task, pc = "submit", TaskEnds(t)
      PROVE  /\ ~Due(i)' => out'[i] = <<i>>
             /\ call.op = "for_each" /\ Due(i)' => out'[i] = <<>>
  <2> DEFINE w == work[t]
  <2>1. w \in Left /\ (Due(i)' <=> Due(i) /\ i \notin Positions(w))
    BY <1>6, EndIs DEF Rounds
  <2>2. w.kind = FirstKind
    BY <1>6, <2>1 DEF Kinds, NowKind, Sorts
  <2>3. data[i].id = i
    BY <1>6 DEF Untouched, Sorts
  <2>4. out \in Outs
    BY DEF Rounds, Typed
  <2>5. i \in Positions(w) => Due(i)
    BY <2>1 DEF Due
  <2>6. CASE call.op = "for_each"
    <3>1. Apply(w)
      BY <1>6, <2>2, <2>6, EndIs DEF FirstKind, Rounds
    <3>2. out'[i] = IF i \in Positions(w) THEN Append(out[i], data[i].id) ELSE out[i]
      BY <2>4, <3>1 DEF Apply, Outs
    <3>3. Append(<<>>, i) = <<i>>
      OBVIOUS
    <3> QED BY <1>2, <1>6, <2>1, <2>3, <2>5, <2>6, <3>2, <3>3
  <2>7. CASE call.op = "transform"
    <3>1. Transform(w)
      BY <1>6, <2>2, <2>7, EndIs DEF FirstKind, Rounds
    <3>2. out'[i] = IF i \in Positions(w) THEN <<data[i].id>> ELSE out[i]
      BY <2>4, <3>1 DEF Transform, Outs
    <3> QED BY <1>2, <1>6, <2>1, <2>3, <2>5, <2>7, <3>2
  <2> QED BY <2>6, <2>7
<1> QED BY <1>3, <1>4, <1>5, <1>6, StepsOfACall

-------------------------------------------------------------------------------
(* Sums.                                                                   *)

\* The numbers of the elements [lo, hi), which is what they add up to.
Span(lo, hi) == [i \in 1 .. hi - lo |-> lo + i - 1]

LEMMA SpanFacts ==
  ASSUME NEW lo \in Nat, NEW hi \in Nat, lo <= hi
  PROVE  /\ Span(lo, hi) \in Seq(Nat) /\ Len(Span(lo, hi)) = hi - lo
         /\ \A i \in 1 .. hi - lo : Span(lo, hi)[i] = lo + i - 1
<1> DEFINE n == hi - lo
           s == Span(lo, hi)
<1>1. n \in Nat /\ s = [i \in 1 .. n |-> lo + i - 1]
  BY DEF Span
<1>2. s = [i \in 1 .. n |-> s[i]] /\ \A i \in 1 .. n : s[i] = lo + i - 1 /\ s[i] \in Nat
  <2> HIDE DEF n, s
  <2> QED BY <1>1
<1> HIDE DEF n, s
<1>3. s \in Seq(Nat) /\ Len(s) = n
  BY <1>1, <1>2, SeqFrom
<1> QED BY <1>2, <1>3 DEF s, n

LEMMA SpansAddUp ==
  ASSUME NEW lo \in Nat, NEW mid \in Nat, NEW hi \in Nat, lo <= mid, mid <= hi
  PROVE  Span(lo, mid) \o Span(mid, hi) = Span(lo, hi)
<1> DEFINE a == Span(lo, mid)
           b == Span(mid, hi)
           c == Span(lo, hi)
           m == mid - lo
           n == hi - mid
<1>1. m \in Nat /\ n \in Nat /\ mid = lo + m /\ hi - lo = m + n
  OBVIOUS
<1>a. a \in Seq(Nat) /\ Len(a) = m /\ \A i \in 1 .. m : a[i] = lo + i - 1
  BY SpanFacts
<1>b. b \in Seq(Nat) /\ Len(b) = n /\ \A i \in 1 .. n : b[i] = mid + i - 1
  BY SpanFacts
<1>c. c \in Seq(Nat) /\ Len(c) = m + n /\ \A i \in 1 .. m + n : c[i] = lo + i - 1
  <2>1. lo <= hi
    OBVIOUS
  <2>2. c \in Seq(Nat) /\ Len(c) = hi - lo /\ \A i \in 1 .. hi - lo : c[i] = lo + i - 1
    BY <2>1, SpanFacts
  <2> HIDE DEF m, n, c
  <2> QED BY <1>1, <2>2
<1> HIDE DEF a, b, c, m, n
<1>2. /\ a \o b \in Seq(Nat) /\ Len(a \o b) = m + n
      /\ \A i \in 1 .. m + n : (a \o b)[i] = IF i <= m THEN a[i] ELSE b[i - m]
  BY <1>a, <1>b, ConcatProperties
<1>3. ASSUME NEW i \in 1 .. m + n
      PROVE  (a \o b)[i] = c[i]
  <2>1. CASE i <= m
    <3>1. i \in 1 .. m
      BY <1>1, <2>1
    <3> QED BY <1>2, <1>a, <1>c, <2>1, <3>1
  <2>2. CASE ~(i <= m)
    <3>1. i - m \in 1 .. n /\ mid + (i - m) - 1 = lo + i - 1
      BY <1>1, <2>2
    <3>2. b[i - m] = mid + (i - m) - 1
      BY <1>b, <3>1
    <3> QED BY <1>2, <1>c, <2>2, <3>1, <3>2
  <2> QED BY <2>1, <2>2
<1>4. a \o b = c
  <2> DEFINE ab == a \o b
             k == m + n
  <2>1. k \in Nat /\ ab \in Seq(Nat) /\ Len(ab) = k /\ c \in Seq(Nat) /\ Len(c) = k /\ \A i \in 1 .. k : ab[i] = c[i]
    BY <1>1, <1>2, <1>3, <1>c
  <2> HIDE DEF ab, k
  <2>2. ab = c
    BY <2>1
  <2> QED BY <2>2 DEF ab
<1> QED BY <1>4 DEF a, b, c

LEMMA ElementsSpan ==
  ASSUME Typed, \A i \in 0 .. Total - 1 : data[i].id = i,
         NEW lo \in 0 .. Total, NEW hi \in 0 .. Total, lo <= hi
  PROVE  Elements(lo, hi) = Span(lo, hi)
<1>1. Total \in Nat
  BY TotalIs DEF Typed
<1>2. \A i \in 1 .. hi - lo : lo + i - 1 \in 0 .. Total - 1
  BY <1>1
<1>3. \A i \in 1 .. hi - lo : data[lo + i - 1].id = lo + i - 1
  BY <1>2
<1> QED BY <1>3 DEF Elements, Span

LEMMA WholeIsSpan ==
  ASSUME Called
  PROVE  /\ Whole = Span(0, Total)
         /\ \A i \in 0 .. Total - 1 : SubSeq(Whole, 1, i + 1) = Span(0, i + 1)
<1>1. Total \in Nat
  BY TotalIs
<1>2. Whole = Span(0, Total)
  BY <1>1 DEF Whole, Span
<1>3. ASSUME NEW i \in 0 .. Total - 1
      PROVE  SubSeq(Whole, 1, i + 1) = Span(0, i + 1)
  <2> DEFINE w == Whole
             s == Span(0, i + 1)
  <2>1. /\ w \in Seq(Nat) /\ Len(w) = Total /\ \A k \in 1 .. Total : w[k] = 0 + k - 1
        /\ s \in Seq(Nat) /\ Len(s) = i + 1 /\ \A k \in 1 .. i + 1 : s[k] = 0 + k - 1
    <3>1. 0 \in Nat /\ i + 1 \in Nat /\ 0 <= Total /\ 0 <= i + 1 /\ Total - 0 = Total /\ (i + 1) - 0 = i + 1
      BY <1>1
    <3> QED BY <1>1, <1>2, <3>1, SpanFacts
  <2> HIDE DEF w, s
  <2>2. /\ SubSeq(w, 1, i + 1) \in Seq(Nat) /\ Len(SubSeq(w, 1, i + 1)) = i + 1
        /\ \A k \in 1 .. i + 1 : SubSeq(w, 1, i + 1)[k] = w[k]
    BY <1>1, <2>1
  <2>3. \A k \in 1 .. i + 1 : w[k] = s[k]
    BY <1>1, <2>1
  <2>4. SubSeq(w, 1, i + 1) = s
    BY <2>1, <2>2, <2>3
  <2> QED BY <2>4 DEF w, s
<1> QED BY <1>2, <1>3

Upto(k) == IF k = 1 THEN 0 ELSE ranges[k - 1].hi

\* A first round: task k has the k-th piece, the futures that have been read are
\* those of the first tasks, and the running sums are those of their pieces.
Submitted == Len(sums) - 1 + Len(futures)
Summed ==
  pc = "submit" /\ call.op \in {"reduce", "scan"} /\ ranges # <<>> =>
    /\ \A k \in 1 .. Len(sums) : sums[k] = Span(0, Upto(k))
    /\ \A i \in 1 .. Len(futures) : futures[i] = Len(sums) - 1 + i
    /\ \A t \in Task : work[t] # NoWork <=> t <= Submitted
    /\ \A k \in 1 .. Submitted :
         /\ k \in Task /\ work[k] = Work("accumulate", ranges[k])
         /\ status[k] = "value" => result[k] = Span(ranges[k].lo, ranges[k].hi)
    /\ \A k \in 1 .. Len(todo) : todo[k] = Work("accumulate", ranges[Submitted + k])

LEMMA UptoIs ==
  ASSUME Called, Tiles(ranges)
  PROVE  /\ \A k \in 1 .. Len(ranges) : Upto(k) = ranges[k].lo
         /\ Upto(Len(ranges) + 1) = Total
<1>1. Len(ranges) \in Nat \ {0}
  BY DEF Tiles
<1>2. ASSUME NEW k \in 1 .. Len(ranges)
      PROVE  Upto(k) = ranges[k].lo
  <2>1. CASE k = 1
    BY <2>1 DEF Tiles, Upto
  <2>2. CASE k # 1
    <3>1. k - 1 \in 1 .. Len(ranges) - 1 /\ (k - 1) + 1 = k
      BY <1>1, <2>2
    <3> QED BY <2>2, <3>1 DEF Tiles, Upto
  <2> QED BY <2>1, <2>2
<1>3. Len(ranges) + 1 # 1 /\ (Len(ranges) + 1) - 1 = Len(ranges)
  BY <1>1
<1> QED BY <1>2, <1>3 DEF Tiles, Upto

LEMMA SummedInductive ==
  ASSUME Rounds, HasRanges, Kinds, Untouched, Summed, [Next]_vars
  PROVE  Summed'
<1>C. call' = call /\ Total' = Total
  BY CallStays, SetsStay
<1>T. /\ Typed /\ Called /\ Total \in Nat /\ RoundApart
      /\ status \in [Task -> Pool!Status] /\ result \in Results
      /\ Len(sums) \in Nat \ {0} /\ Len(futures) \in Nat /\ Len(todo) \in Nat
  BY TotalIs DEF Rounds, Typed, Pool!TypeOK
<1> SUFFICES ASSUME pc' = "submit", call.op \in {"reduce", "scan"}, ranges' # <<>>
             PROVE  Summed'
  BY <1>C DEF Summed
<1>1. CASE Split
  <2>1. /\ ranges' = Chunks /\ sums' = <<<<>>>> /\ futures' = <<>> /\ Len(Chunks) \in Nat \ {0}
        /\ work' = [t \in Task |-> NoWork]
        /\ Len(todo') = Len(Chunks)
        /\ \A k \in 1 .. Len(Chunks) : todo'[k] = Work(FirstKind, Chunks[k])
    BY <1>1, SplitIs
  <2>2. FirstKind = "accumulate"
    BY DEF FirstKind
  <2>3. Len(sums') = 1 /\ sums'[1] = <<>> /\ Len(futures') = 0 /\ Submitted' = 0
    BY <2>1 DEF Submitted
  <2>4. Span(0, Upto(1)') = <<>>
    BY DEF Span, Upto
  <2>5. \A k \in 1 .. Len(sums') : sums'[k] = Span(0, Upto(k)')
    BY <2>3, <2>4
  <2>6. \A i \in 1 .. Len(futures') : futures'[i] = Len(sums') - 1 + i
    BY <2>3
  <2>7. \A t \in Task : work'[t] # NoWork <=> t <= Submitted'
    BY <2>1, <2>3 DEF Task
  <2>8. \A k \in 1 .. Submitted' :
         /\ k \in Task /\ work'[k] = Work("accumulate", ranges'[k])
         /\ status'[k] = "value" => result'[k] = Span(ranges'[k].lo, ranges'[k].hi)
    BY <2>3
  <2>9. \A k \in 1 .. Len(todo') : todo'[k] = Work("accumulate", ranges'[Submitted' + k])
    BY <2>1, <2>2, <2>3
  <2> QED BY <2>5, <2>6, <2>7, <2>8, <2>9 DEF Summed
<1> DEFINE n == Submitted
<1>S. ASSUME pc = "submit", ranges # <<>>
      PROVE  /\ \A k \in 1 .. Len(sums) : sums[k] = Span(0, Upto(k))
             /\ \A i \in 1 .. Len(futures) : futures[i] = Len(sums) - 1 + i
             /\ \A t \in Task : work[t] # NoWork <=> t <= n
             /\ \A k \in 1 .. n :
                  /\ k \in Task /\ work[k] = Work("accumulate", ranges[k])
                  /\ status[k] = "value" => result[k] = Span(ranges[k].lo, ranges[k].hi)
             /\ \A k \in 1 .. Len(todo) : todo[k] = Work("accumulate", ranges[n + k])
             /\ n + Len(todo) = Len(ranges) /\ n \in Nat /\ n = Len(sums) - 1 + Len(futures)
             /\ Tiles(ranges)
  <2>1. n + Len(todo) = Len(ranges)
    BY <1>S DEF Rounds, Counted, Submitted
  <2>2. n = Len(sums) - 1 + Len(futures)
    BY DEF Submitted
  <2> HIDE DEF n
  <2>3. n \in Nat
    BY <1>T, <2>2
  <2>4. Tiles(ranges)
    BY <1>S DEF HasRanges
  <2> QED BY <1>S, <2>1, <2>2, <2>3, <2>4 DEF Summed, n
<1>2. CASE Submit
  <2>1. PICK t \in Task :
           /\ status[t] = "new" /\ status' = [status EXCEPT ![t] = "queued"]
           /\ work' = [work EXCEPT ![t] = todo[1]]
           /\ \A s \in Task : s < t <=> work[s] # NoWork
           /\ Len(futures') = Len(futures) + 1 /\ futures'[Len(futures) + 1] = t
           /\ \A i \in 1 .. Len(futures) : futures'[i] = futures[i]
           /\ Len(todo) \in Nat \ {0} /\ Len(todo') = Len(todo) - 1
           /\ \A k \in 1 .. Len(todo) - 1 : todo'[k] = todo[k + 1]
           /\ pc = "submit" /\ UNCHANGED <<call, ranges, sums, pc, data, out, result>>
    BY <1>2, <1>T, SubmitIs
  <2>2. /\ \A k \in 1 .. Len(sums) : sums[k] = Span(0, Upto(k))
        /\ \A i \in 1 .. Len(futures) : futures[i] = Len(sums) - 1 + i
        /\ \A s \in Task : work[s] # NoWork <=> s <= n
        /\ \A k \in 1 .. n :
             /\ k \in Task /\ work[k] = Work("accumulate", ranges[k])
             /\ status[k] = "value" => result[k] = Span(ranges[k].lo, ranges[k].hi)
        /\ \A k \in 1 .. Len(todo) : todo[k] = Work("accumulate", ranges[n + k])
        /\ n + Len(todo) = Len(ranges) /\ n \in Nat /\ n = Len(sums) - 1 + Len(futures)
    BY <1>S, <2>1
  <2> HIDE DEF n
  <2>3. t = n + 1
    <3>1. \A s \in Task : s < t <=> s <= n
      BY <2>1, <2>2
    <3>2. t \in Nat /\ t >= 1 /\ ~(t <= n)
      BY <3>1, <2>2 DEF Task
    <3>3. n + 1 < t => n + 1 \in Task
      BY <2>2, <3>2, ParallelAssumption DEF Task
    <3> QED BY <2>2, <3>1, <3>2, <3>3
  <2>4. Submitted' = n + 1
    BY <1>T, <2>1, <2>2 DEF Submitted
  <2>5. work'[t] = Work("accumulate", ranges[n + 1]) /\ work'[t] # NoWork
    <3>1. work \in [Task -> Works]
      BY <1>T DEF Typed
    <3>2. work'[t] = todo[1] /\ 1 \in 1 .. Len(todo)
      BY <2>1, <3>1
    <3>3. NoWork.kind = "none"
      BY DEF NoWork
    <3> QED BY <2>2, <3>2, <3>3, WorkFields
  <2>6. /\ \A s \in Task : s # t => status'[s] = status[s] /\ work'[s] = work[s]
        /\ status'[t] = "queued"
    BY <1>T, <2>1 DEF Typed
  <2>7. \A k \in 1 .. Len(sums') : sums'[k] = Span(0, Upto(k)')
    BY <2>1, <2>2 DEF Upto
  <2>8. ASSUME NEW i \in 1 .. Len(futures')
        PROVE  futures'[i] = Len(sums') - 1 + i
    <3>1. CASE i = Len(futures) + 1
      BY <1>T, <2>1, <2>2, <2>3, <3>1
    <3>2. CASE i # Len(futures) + 1
      <4>1. i \in 1 .. Len(futures)
        BY <1>T, <2>1, <3>2
      <4> QED BY <2>1, <2>2, <4>1
    <3> QED BY <3>1, <3>2
  <2>9. \A s \in Task : work'[s] # NoWork <=> s <= n + 1
    <3>1. ASSUME NEW s \in Task, s # t
          PROVE  work'[s] # NoWork <=> s <= n + 1
      <4>1. s \in Nat /\ n \in Nat /\ s # n + 1
        BY <2>2, <2>3, <3>1 DEF Task
      <4>2. work'[s] = work[s]
        BY <2>6, <3>1
      <4>3. work[s] # NoWork <=> s <= n
        BY <2>2
      <4> QED BY <4>1, <4>2, <4>3
    <3>2. t <= n + 1
      BY <2>2, <2>3
    <3> QED BY <2>5, <3>1, <3>2
  <2>10. ASSUME NEW k \in 1 .. n + 1
         PROVE  /\ k \in Task /\ work'[k] = Work("accumulate", ranges'[k])
                /\ status'[k] = "value" => result'[k] = Span(ranges'[k].lo, ranges'[k].hi)
    <3>1. CASE k = t
      BY <2>1, <2>3, <2>5, <2>6, <3>1
    <3>2. CASE k # t
      <4>1. k \in 1 .. n
        BY <2>2, <2>3, <3>2
      <4> QED BY <2>1, <2>2, <2>6, <3>2, <4>1
    <3> QED BY <3>1, <3>2
  <2>11. ASSUME NEW k \in 1 .. Len(todo')
         PROVE  todo'[k] = Work("accumulate", ranges'[(n + 1) + k])
    <3>1. k + 1 \in 1 .. Len(todo) /\ k \in 1 .. Len(todo) - 1 /\ n + (k + 1) = (n + 1) + k
      BY <2>1, <2>2
    <3> QED BY <2>1, <2>2, <3>1
  <2> QED BY <2>4, <2>7, <2>8, <2>9, <2>10, <2>11 DEF Summed
<1>3. CASE Get
  <2>1. /\ pc = "submit" /\ todo = <<>> /\ Len(futures) \in Nat \ {0} /\ futures[1] \in Task
        /\ status[futures[1]] \in {"value", "exception"}
        /\ Len(futures') = Len(futures) - 1
        /\ \A i \in 1 .. Len(futures) - 1 : futures'[i] = futures[i + 1]
        /\ Len(sums') = Len(sums) + 1 /\ \A k \in 1 .. Len(sums) : sums'[k] = sums[k]
        /\ sums'[Len(sums) + 1] = sums[Len(sums)] \o result[futures[1]]
        /\ pc' = IF status[futures[1]] = "exception" THEN "thrown" ELSE "submit"
        /\ UNCHANGED <<call, ranges, todo, work, result, status>>
    BY <1>3, <1>T, GetIs
  <2>2. status[futures[1]] = "value"
    BY <2>1
  <2>3. /\ \A k \in 1 .. Len(sums) : sums[k] = Span(0, Upto(k))
        /\ \A i \in 1 .. Len(futures) : futures[i] = Len(sums) - 1 + i
        /\ \A s \in Task : work[s] # NoWork <=> s <= n
        /\ \A k \in 1 .. n :
             /\ k \in Task /\ work[k] = Work("accumulate", ranges[k])
             /\ status[k] = "value" => result[k] = Span(ranges[k].lo, ranges[k].hi)
        /\ \A k \in 1 .. Len(todo) : todo[k] = Work("accumulate", ranges[n + k])
        /\ n + Len(todo) = Len(ranges) /\ n \in Nat /\ n = Len(sums) - 1 + Len(futures)
        /\ Tiles(ranges)
    BY <1>S, <2>1
  <2> HIDE DEF n
  <2>g. PICK g \in Nat \ {0} : g = Len(sums)
    BY <1>T
  <2>4. /\ futures[1] = g /\ g \in 1 .. n /\ n <= Len(ranges) /\ g \in 1 .. Len(ranges)
    BY <1>T, <2>1, <2>3, <2>g
  <2>5. sums[g] = Span(0, ranges[g].lo) /\ result[g] = Span(ranges[g].lo, ranges[g].hi)
    <3>1. Upto(g) = ranges[g].lo
      BY <1>T, <2>3, <2>4, UptoIs
    <3> QED BY <2>2, <2>3, <2>4, <2>g, <3>1
  <2>6. sums'[g + 1] = Span(0, ranges[g].hi)
    <3>1. 0 \in Nat /\ ranges[g].lo \in Nat /\ ranges[g].hi \in Nat /\ 0 <= ranges[g].lo /\ ranges[g].lo <= ranges[g].hi
      <4>1. ranges[g] \in Bounds /\ ranges[g].lo <= ranges[g].hi
        BY <2>3, <2>4 DEF Tiles
      <4> QED BY <1>T, <4>1 DEF Bounds
    <3>2. Span(0, ranges[g].lo) \o Span(ranges[g].lo, ranges[g].hi) = Span(0, ranges[g].hi)
      BY <3>1, SpansAddUp
    <3> QED BY <2>1, <2>4, <2>5, <2>g, <3>2
  <2>7. Upto(g + 1)' = ranges[g].hi
    <3>1. g + 1 # 1 /\ (g + 1) - 1 = g
      OBVIOUS
    <3> QED BY <2>1, <3>1 DEF Upto
  <2>8. \A k \in 1 .. g : Upto(k)' = Upto(k)
    BY <2>1 DEF Upto
  <2>9. \A k \in 1 .. Len(sums') : sums'[k] = Span(0, Upto(k)')
    <3> SUFFICES ASSUME NEW k \in 1 .. Len(sums') PROVE sums'[k] = Span(0, Upto(k)')
      OBVIOUS
    <3>1. CASE k = g + 1
      BY <2>6, <2>7, <3>1
    <3>2. CASE k # g + 1
      <4>1. k \in 1 .. Len(sums)
        BY <2>1, <2>g, <3>2
      <4> QED BY <2>1, <2>3, <2>8, <2>g, <4>1
    <3> QED BY <3>1, <3>2
  <2>10. Submitted' = n
    BY <1>T, <2>1, <2>3 DEF Submitted
  <2>11. ASSUME NEW i \in 1 .. Len(futures')
         PROVE  futures'[i] = Len(sums') - 1 + i
    <3>1. i \in 1 .. Len(futures) - 1 /\ i + 1 \in 1 .. Len(futures)
      BY <2>1
    <3> QED BY <1>T, <2>1, <2>3, <3>1
  <2>12. \A s \in Task : work'[s] # NoWork <=> s <= Submitted'
    BY <2>1, <2>3, <2>10
  <2>13. \A k \in 1 .. Submitted' :
             /\ k \in Task /\ work'[k] = Work("accumulate", ranges'[k])
             /\ status'[k] = "value" => result'[k] = Span(ranges'[k].lo, ranges'[k].hi)
    BY <2>1, <2>3, <2>10
  <2>14. \A k \in 1 .. Len(todo') : todo'[k] = Work("accumulate", ranges'[Submitted' + k])
    BY <2>1, <2>3, <2>10
  <2> QED BY <2>9, <2>11, <2>12, <2>13, <2>14 DEF Summed
<1>4. ~SecondRound /\ ~MergeRound /\ ~ReturnAtOnce /\ ~Return
  BY DEF SecondRound, MergeRound, ReturnAtOnce, Return, Sorts
\* What a task does, it does to its own result.
<1>5. ASSUME UNCHANGED caller_vars,
             pc = "submit" /\ ranges # <<>> =>
               \A k \in 1 .. n : status'[k] = "value" =>
                 result'[k] = Span(ranges[k].lo, ranges[k].hi)
      PROVE  Summed'
  <2>1. /\ pc = "submit" /\ ranges # <<>>
        /\ UNCHANGED <<ranges, todo, work, futures, sums>>
    BY <1>5 DEF caller_vars
  <2>2. /\ \A k \in 1 .. Len(sums) : sums[k] = Span(0, Upto(k))
        /\ \A i \in 1 .. Len(futures) : futures[i] = Len(sums) - 1 + i
        /\ \A t \in Task : work[t] # NoWork <=> t <= n
        /\ \A k \in 1 .. n : k \in Task /\ work[k] = Work("accumulate", ranges[k])
        /\ \A k \in 1 .. Len(todo) : todo[k] = Work("accumulate", ranges[n + k])
    BY <1>S, <2>1
  <2>3. n' = n /\ \A k \in 1 .. Len(sums) : Upto(k)' = Upto(k)
    BY <2>1 DEF Submitted, Upto
  <2> HIDE DEF n
  <2>4. Submitted' = n
    BY <2>3 DEF n
  <2> QED BY <1>5, <2>1, <2>2, <2>3, <2>4 DEF Summed
<1>6. ASSUME NEW t \in Task, TaskStarts(t) \/ TaskThrows(t)
      PROVE  Summed'
  <2>1. /\ UNCHANGED caller_vars /\ result' = result
        /\ status' = [status EXCEPT ![t] = "running"] \/ status' = [status EXCEPT ![t] = "exception"]
    BY <1>6 DEF TaskStarts, TaskThrows, Pool!Start, Pool!Finish
  <2>2. \A s \in Task : status'[s] = "value" => status[s] = "value"
    BY <1>T, <2>1
  <2>3. pc = "submit" /\ ranges # <<>> =>
          \A k \in 1 .. n : status'[k] = "value" => result'[k] = Span(ranges[k].lo, ranges[k].hi)
    <3> HIDE DEF n
    <3> QED BY <1>S, <2>1, <2>2
  <2> QED BY <1>5, <2>1, <2>3
<1>7. ASSUME NEW t \in Task, TaskEnds(t)
      PROVE  Summed'
  <2>1. UNCHANGED caller_vars /\ status' = [status EXCEPT ![t] = "value"] /\ work[t] \in Left /\ work[t] \in Works
    BY <1>7, <1>T, EndIs
  <2>2. pc = "submit" /\ ranges # <<>>
    BY <2>1 DEF caller_vars
  <2>3. work[t].kind = "accumulate"
    BY <2>1, <2>2 DEF Kinds, NowKind, FirstKind, Sorts
  <2>4. result' = [result EXCEPT ![t] = Elements(work[t].lo, work[t].hi)]
    BY <1>7, <1>T, <2>3, EndIs DEF Accumulate
  <2>5. work[t].lo \in 0 .. Total /\ work[t].hi \in 0 .. Total /\ work[t].lo <= work[t].hi
    BY <2>1 DEF Works
  <2>6. Elements(work[t].lo, work[t].hi) = Span(work[t].lo, work[t].hi)
    <3>1. \A i \in 0 .. Total - 1 : data[i].id = i
      BY <2>2 DEF Untouched, Sorts
    <3> QED BY <1>T, <2>5, <3>1, ElementsSpan
  <2>7. ASSUME NEW k \in 1 .. n, status'[k] = "value"
        PROVE  result'[k] = Span(ranges[k].lo, ranges[k].hi)
    <3> HIDE DEF n
    <3>1. /\ k \in Task /\ work[k] = Work("accumulate", ranges[k])
          /\ status[k] = "value" => result[k] = Span(ranges[k].lo, ranges[k].hi)
      BY <1>S, <2>2
    <3>2. CASE k = t
      <4>1. result'[k] = Span(work[k].lo, work[k].hi)
        BY <1>T, <2>4, <2>6, <3>2 DEF Results
      <4> QED BY <3>1, <4>1, WorkFields
    <3>3. CASE k # t
      BY <1>T, <2>1, <2>4, <2>7, <3>1, <3>3 DEF Results
    <3> QED BY <3>2, <3>3
  <2> QED BY <1>5, <2>1, <2>7
<1>8. CASE UNCHANGED vars
  <2>1. UNCHANGED caller_vars /\ UNCHANGED <<result, status>>
    BY <1>8 DEF vars
  <2>2. pc = "submit" /\ ranges # <<>> =>
          \A k \in 1 .. n : status'[k] = "value" => result'[k] = Span(ranges[k].lo, ranges[k].hi)
    <3> HIDE DEF n
    <3> QED BY <1>S, <2>1
  <2> QED BY <1>5, <2>1, <2>2
<1> QED BY <1>1, <1>2, <1>3, <1>4, <1>6, <1>7, <1>8 DEF Next, CallerStep

-------------------------------------------------------------------------------
(* The second round of a scan.                                             *)

Written ==
  pc = "submit" /\ call.op = "scan" /\ ranges = <<>> =>
    /\ \A w \in Left : w.offset = <<-1>> \o Span(0, w.lo)
    /\ \A i \in 0 .. Total - 1 : ~Due(i) => out[i] = <<-1>> \o Span(0, i + 1)

LEMMA WrittenInductive ==
  ASSUME Rounds, HasRanges, Kinds, Untouched, Summed, Written, [Next]_vars
  PROVE  Written'
<1>C. call' = call /\ Total' = Total
  BY CallStays, SetsStay
<1>T. /\ Typed /\ Called /\ Total \in Nat /\ RoundApart /\ Left \subseteq Works
      /\ Len(sums) \in Nat \ {0} /\ Len(futures) \in Nat /\ Len(todo) \in Nat
  BY TotalIs, LeftTyped DEF Rounds, Typed
<1> SUFFICES ASSUME pc' = "submit", call.op = "scan", ranges' = <<>>
             PROVE  /\ \A w \in Left' : w.offset = <<-1>> \o Span(0, w.lo)
                    /\ \A i \in 0 .. Total - 1 : ~Due(i)' => out'[i] = <<-1>> \o Span(0, i + 1)
  BY <1>C DEF Written
<1>1. CASE Quiet
  <2>1. pc = "submit" /\ ranges = <<>> /\ Left' = Left /\ out' = out
    BY <1>1 DEF Quiet
  <2> QED BY <1>1, <2>1, QuietDue DEF Written
<1>2. ~Split /\ ~MergeRound
  <2>1. ASSUME Split PROVE FALSE
    BY <2>1, SplitIs
  <2> QED BY <2>1 DEF MergeRound, Sorts
<1>3. CASE SecondRound
  <2>1. /\ RoundOver /\ ranges # <<>> /\ status' = status /\ pc = "submit"
        /\ todo = <<>> /\ futures = <<>>
        /\ todo' = [k \in DOMAIN ranges |-> [Work("write", ranges[k]) EXCEPT !.offset = Offset(k)]]
    BY <1>3 DEF SecondRound, RoundOver
  <2>2. \A t \in Task : ~Pending(t)'
    BY <2>1, NobodyLeft DEF Rounds, Pending
  <2>3. Left' = {todo'[k] : k \in 1 .. Len(todo')}
    BY <2>2, LeftOfNewRound
  <2>4. Tiles(ranges) /\ DOMAIN ranges = 1 .. Len(ranges) /\ Len(ranges) \in Nat
    BY <2>1 DEF HasRanges, Tiles
  <2>5. Len(todo') = Len(ranges)
    BY <2>1, <2>4
  <2>6. Len(sums) - 1 = Len(ranges)
    BY <1>T, <2>1, <2>4 DEF Rounds, Counted
  <2>7. ASSUME NEW k \in 1 .. Len(ranges)
        PROVE  /\ todo'[k].offset = <<-1>> \o Span(0, todo'[k].lo)
               /\ todo'[k].lo = ranges[k].lo /\ todo'[k].hi = ranges[k].hi
    <3>1. todo'[k] = [Work("write", ranges[k]) EXCEPT !.offset = Offset(k)]
      BY <2>1, <2>4
    <3>2. todo'[k].offset = Offset(k) /\ todo'[k].lo = ranges[k].lo /\ todo'[k].hi = ranges[k].hi
      BY <3>1 DEF Work
    <3>3. k \in 1 .. Len(sums)
      BY <1>T, <2>4, <2>6
    <3>4. sums[k] = Span(0, Upto(k))
      BY <2>1, <3>3 DEF Summed
    <3>5. Upto(k) = ranges[k].lo
      BY <1>T, <2>4, UptoIs
    <3> QED BY <3>2, <3>4, <3>5 DEF Offset
  <2>8. \A i \in 0 .. Total - 1 : Due(i)'
    <3>1. \A k \in 1 .. Len(ranges) : todo'[k].lo = ranges[k].lo /\ todo'[k].hi = ranges[k].hi
      BY <2>7
    <3> QED BY <1>C, <1>T, <2>3, <2>4, <2>5, <3>1, AllDue
  <2> QED BY <2>3, <2>5, <2>7, <2>8
<1>4. ASSUME NEW t \in Task, pc = "submit", TaskEnds(t)
      PROVE  /\ \A w \in Left' : w.offset = <<-1>> \o Span(0, w.lo)
             /\ \A i \in 0 .. Total - 1 : ~Due(i)' => out'[i] = <<-1>> \o Span(0, i + 1)
  <2> DEFINE v == work[t]
  <2>1. /\ UNCHANGED caller_vars /\ v \in Left /\ v \in Works /\ Left' \subseteq Left
        /\ \A i : Due(i)' <=> Due(i) /\ i \notin Positions(v)
    BY <1>4, <1>T, EndIs
  <2>2. ranges = <<>>
    BY <2>1 DEF caller_vars
  <2>3. /\ \A w \in Left : w.offset = <<-1>> \o Span(0, w.lo)
        /\ \A i \in 0 .. Total - 1 : ~Due(i) => out[i] = <<-1>> \o Span(0, i + 1)
    BY <1>4, <2>2 DEF Written
  <2>4. v.kind = "write"
    BY <1>4, <2>1, <2>2 DEF Kinds, NowKind, Sorts
  <2>5. out' = [i \in DOMAIN out |-> IF i \in Positions(v) THEN v.offset \o Elements(v.lo, i + 1) ELSE out[i]]
    BY <1>4, <1>T, <2>4, EndIs DEF WriteSums
  <2>6. DOMAIN out = 0 .. Total - 1
    BY <1>T DEF Typed, Outs
  <2>7. ASSUME NEW i \in 0 .. Total - 1, i \in Positions(v)
        PROVE  out'[i] = <<-1>> \o Span(0, i + 1)
    <3>1. v.lo \in Nat /\ v.lo <= i /\ v.lo \in 0 .. Total /\ i + 1 \in 0 .. Total /\ v.lo <= i + 1 /\ i + 1 \in Nat
      BY <1>T, <2>1, <2>7, PositionsTyped DEF Works
    <3>2. \A j \in 0 .. Total - 1 : data[j].id = j
      BY <1>4 DEF Untouched, Sorts
    <3>3. Elements(v.lo, i + 1) = Span(v.lo, i + 1)
      BY <1>T, <3>1, <3>2, ElementsSpan
    <3>4. v.offset = <<-1>> \o Span(0, v.lo)
      BY <2>1, <2>3
    <3>5. Span(0, v.lo) \o Span(v.lo, i + 1) = Span(0, i + 1)
      <4>1. 0 \in Nat /\ 0 <= v.lo
        BY <3>1
      <4> QED BY <3>1, <4>1, SpansAddUp
    <3>6. Span(0, v.lo) \in Seq(Int) /\ Span(v.lo, i + 1) \in Seq(Int) /\ <<-1>> \in Seq(Int)
      <4>1. 0 \in Nat /\ 0 <= v.lo
        BY <3>1
      <4>2. Span(0, v.lo) \in Seq(Nat) /\ Span(v.lo, i + 1) \in Seq(Nat)
        BY <3>1, <4>1, SpanFacts
      <4> QED BY <4>2
    <3>7. (<<-1>> \o Span(0, v.lo)) \o Span(v.lo, i + 1) = <<-1>> \o (Span(0, v.lo) \o Span(v.lo, i + 1))
      BY <3>6, ConcatAssociative
    <3>8. out'[i] = v.offset \o Elements(v.lo, i + 1)
      BY <2>5, <2>6, <2>7
    <3> QED BY <3>3, <3>4, <3>5, <3>7, <3>8
  <2>8. ASSUME NEW i \in 0 .. Total - 1, ~Due(i)'
        PROVE  out'[i] = <<-1>> \o Span(0, i + 1)
    <3>1. CASE i \in Positions(v)
      BY <2>7, <3>1
    <3>2. CASE i \notin Positions(v)
      <4>1. ~Due(i) /\ out'[i] = out[i]
        BY <2>1, <2>5, <2>6, <2>8, <3>2
      <4> QED BY <2>3, <4>1
    <3> QED BY <3>1, <3>2
  <2> QED BY <2>1, <2>3, <2>8
<1> QED BY <1>1, <1>2, <1>3, <1>4, StepsOfACall

-------------------------------------------------------------------------------
(* The sorts.                                                              *)

SamePiece(p, q) == p.lo = q.lo /\ p.hi = q.hi

\* A range is in order or a task is left that will put it in order, and what is to be
\* merged is in order.
Ordered ==
  pc = "submit" /\ Sorts =>
    /\ OwnIds(data)
    /\ \A w \in Left :
         /\ w.kind \in {"sort", "merge"}
         /\ w.kind = "merge" => Ascending(data, Piece(w.lo, w.mid)) /\ Ascending(data, Piece(w.mid, w.hi))
         /\ \E k \in 1 .. Len(ranges) : SamePiece(ranges[k], w)
    /\ \A k \in 1 .. Len(ranges) :
         Ascending(data, ranges[k]) \/ \E w \in Left : SamePiece(ranges[k], w)

LEMMA AscendingStays ==
  ASSUME NEW d, NEW e, NEW p, \A i \in Positions(p) : e[i] = d[i], Ascending(d, p)
  PROVE  Ascending(e, p)
BY DEF Ascending

LEMMA AscendingSame ==
  ASSUME NEW d, NEW p, NEW q, SamePiece(p, q), Ascending(d, p)
  PROVE  Ascending(d, q)
BY DEF Ascending, SamePiece, Positions

LEMMA OrderedInductive ==
  ASSUME Rounds, HasRanges, Untouched, Ordered, [Next]_vars
  PROVE  Ordered'
<1>C. call' = call /\ Total' = Total /\ (Sorts' <=> Sorts)
  BY CallStays, SetsStay
<1>T. /\ Typed /\ Called /\ Total \in Nat /\ RoundApart /\ Left \subseteq Works /\ data \in Datas
  BY TotalIs, LeftTyped DEF Rounds, Typed
<1> SUFFICES ASSUME pc' = "submit", Sorts
             PROVE  /\ OwnIds(data')
                    /\ \A w \in Left' :
                         /\ w.kind \in {"sort", "merge"}
                         /\ w.kind = "merge" => /\ Ascending(data', Piece(w.lo, w.mid))
                                                /\ Ascending(data', Piece(w.mid, w.hi))
                         /\ \E k \in 1 .. Len(ranges') : SamePiece(ranges'[k], w)
                    /\ \A k \in 1 .. Len(ranges') :
                         Ascending(data', ranges'[k]) \/ \E w \in Left' : SamePiece(ranges'[k], w)
  BY <1>C DEF Ordered, OwnIds, Ascending, Positions, Piece, SamePiece
<1>O. ASSUME pc = "submit"
      PROVE  /\ OwnIds(data)
             /\ \A w \in Left :
                  /\ w.kind \in {"sort", "merge"}
                  /\ w.kind = "merge" => /\ Ascending(data, Piece(w.lo, w.mid))
                                         /\ Ascending(data, Piece(w.mid, w.hi))
                  /\ \E k \in 1 .. Len(ranges) : SamePiece(ranges[k], w)
             /\ \A k \in 1 .. Len(ranges) :
                  Ascending(data, ranges[k]) \/ \E w \in Left : SamePiece(ranges[k], w)
             /\ Tiles(ranges)
  BY <1>O DEF Ordered, HasRanges, Sorts
<1>1. CASE Quiet
  <2>1. pc = "submit" /\ Left' = Left /\ data' = data /\ ranges' = ranges
    BY <1>1 DEF Quiet
  <2> QED BY <1>O, <2>1
<1>2. CASE Split
  <2>0. OwnIds(data)
    <3>1. \A i \in 0 .. Total - 1 : data[i].id = i
      BY <1>2 DEF Untouched, Split
    <3> QED BY <3>1 DEF OwnIds
  <2>1. /\ Tiles(Chunks) /\ ranges' = Chunks /\ DOMAIN Chunks = 1 .. Len(Chunks)
        /\ Left' = {todo'[k] : k \in 1 .. Len(todo')}
        /\ call.op = "tim_sort" => todo' = <<>> /\ data' \in SortedOver(data, ToSet(Chunks))
        /\ call.op # "tim_sort" =>
             /\ data' = data /\ Len(todo') = Len(Chunks)
             /\ \A k \in 1 .. Len(Chunks) : todo'[k] = Work(FirstKind, Chunks[k])
    BY <1>2, SplitIs
  <2>2. CASE call.op = "tim_sort"
    <3>1. Left' = {}
      BY <2>1, <2>2
    <3>2. ASSUME NEW p \in ToSet(Chunks)
          PROVE  Positions(p) \subseteq 0 .. Total - 1
      <4>1. PICK k \in 1 .. Len(Chunks) : p = Chunks[k]
        BY <2>1 DEF ToSet
      <4>2. p.lo \in 0 .. Total /\ p.hi \in 0 .. Total
        <5>1. Chunks[k] \in Bounds
          BY <2>1 DEF Tiles
        <5> QED BY <4>1, <5>1 DEF Bounds
      <4> QED BY <1>T, <4>2 DEF Positions
    <3>3. Permuted(data, data', Covered(ToSet(Chunks))) /\ \A p \in ToSet(Chunks) : Ascending(data', p)
      BY <1>T, <2>1, <2>2, <3>2, SortedPermuted
    <3>4. OwnIds(data')
      BY <2>0, <3>3, PermutedFacts
    <3>5. \A k \in 1 .. Len(Chunks) : Ascending(data', Chunks[k])
      BY <2>1, <3>3 DEF ToSet
    <3> QED BY <2>1, <3>1, <3>4, <3>5
  <2>3. CASE call.op # "tim_sort"
    <3>1. FirstKind = "sort"
      BY <2>3 DEF Sorts, FirstKind
    <3>2. \A k \in 1 .. Len(Chunks) : /\ todo'[k] \in Left' /\ todo'[k].kind = "sort"
                                      /\ SamePiece(Chunks[k], todo'[k])
      BY <2>1, <2>3, <3>1, WorkFields DEF SamePiece
    <3>3. \A w \in Left' : \E k \in 1 .. Len(Chunks) : w = todo'[k]
      BY <2>1, <2>3
    <3> QED BY <2>0, <2>1, <2>3, <3>2, <3>3
  <2> QED BY <2>2, <2>3
<1>3. ~SecondRound
  BY DEF SecondRound, Sorts
<1>4. CASE MergeRound
  <2>1. /\ RoundOver /\ pc = "submit" /\ status' = status /\ data' = data
        /\ todo' = Pairs(ranges) /\ ranges' = NewRanges(ranges) /\ todo = <<>>
    BY <1>4 DEF MergeRound, RoundOver
  <2>2. \A t \in Task : ~Pending(t) /\ ~Pending(t)'
    BY <2>1, NobodyLeft DEF Rounds, Pending
  <2>3. Left = {} /\ Left' = {todo'[k] : k \in 1 .. Len(todo')}
    BY <2>1, <2>2, NothingLeft, LeftOfNewRound
  <2> DEFINE n == Len(ranges)
             h == n \div 2
             m == CeilDiv(n, 2)
  <2>4. Tiles(ranges) /\ n \in Nat \ {0} /\ \A k \in 1 .. n : Ascending(data, ranges[k])
    BY <1>O, <2>1, <2>3 DEF Tiles
  <2>5. /\ m \in Nat \ {0} /\ h \in Nat /\ n - 1 <= 2 * h /\ 2 * h <= n
        /\ n <= 2 * m /\ 2 * m <= n + 1
    BY <2>4, HalvesFacts
  <2>6. /\ Len(todo') = h
        /\ \A k \in 1 .. h :
              /\ 2 * k - 1 \in 1 .. n /\ 2 * k \in 1 .. n
              /\ todo'[k] = [kind |-> "merge", lo |-> ranges[2 * k - 1].lo, mid |-> ranges[2 * k - 1].hi,
                             hi |-> ranges[2 * k].hi, offset |-> <<>>]
              /\ ranges[2 * k - 1].hi = ranges[2 * k].lo
    <3> HIDE DEF h, n
    <3> QED BY <1>T, <2>1, <2>4, PairsFacts DEF h, n
  <2>7. NewRanges(ranges) = [k \in 1 .. m |-> Piece(ranges[2 * k - 1].lo, ranges[AtMost(2 * k, n)].hi)]
    BY DEF NewRanges
  <2> HIDE DEF h, m, n
  <2>8. Len(ranges') = m
        /\ \A k \in 1 .. m : ranges'[k] = [lo |-> ranges[2 * k - 1].lo, hi |-> ranges[AtMost(2 * k, n)].hi]
    BY <2>1, <2>5, <2>7 DEF Piece
  <2>9. ASSUME NEW k \in 1 .. h
        PROVE  /\ k \in 1 .. m /\ SamePiece(ranges'[k], todo'[k]) /\ todo'[k].kind = "merge"
               /\ Ascending(data, Piece(todo'[k].lo, todo'[k].mid))
               /\ Ascending(data, Piece(todo'[k].mid, todo'[k].hi))
    <3>1. k \in 1 .. m /\ AtMost(2 * k, n) = 2 * k
      BY <2>4, <2>5 DEF AtMost
    <3>2. /\ 2 * k - 1 \in 1 .. n /\ 2 * k \in 1 .. n
          /\ todo'[k].lo = ranges[2 * k - 1].lo /\ todo'[k].mid = ranges[2 * k - 1].hi
          /\ todo'[k].hi = ranges[2 * k].hi /\ todo'[k].kind = "merge"
          /\ ranges[2 * k - 1].hi = ranges[2 * k].lo
      BY <2>6
    <3>3. SamePiece(ranges'[k], todo'[k])
      BY <2>8, <3>1, <3>2 DEF SamePiece
    <3>4. SamePiece(ranges[2 * k - 1], Piece(todo'[k].lo, todo'[k].mid))
          /\ SamePiece(ranges[2 * k], Piece(todo'[k].mid, todo'[k].hi))
      BY <3>2 DEF SamePiece, Piece
    <3>5. Ascending(data, ranges[2 * k - 1]) /\ Ascending(data, ranges[2 * k])
      BY <2>4, <3>2
    <3> QED BY <3>1, <3>2, <3>3, <3>4, <3>5, AscendingSame
  <2>10. ASSUME NEW w \in Left'
         PROVE  /\ w.kind \in {"sort", "merge"}
                /\ w.kind = "merge" => /\ Ascending(data, Piece(w.lo, w.mid))
                                       /\ Ascending(data, Piece(w.mid, w.hi))
                /\ \E k \in 1 .. Len(ranges') : SamePiece(ranges'[k], w)
    <3>1. PICK k \in 1 .. h : w = todo'[k]
      BY <2>3, <2>6
    <3> QED BY <2>8, <2>9, <3>1
  <2>11. ASSUME NEW k \in 1 .. Len(ranges')
         PROVE  Ascending(data, ranges'[k]) \/ \E w \in Left' : SamePiece(ranges'[k], w)
    <3>1. k \in 1 .. m
      BY <2>8
    <3>2. CASE k \in 1 .. h
      BY <2>3, <2>6, <2>9, <3>2
    <3>3. CASE k \notin 1 .. h
      <4>1. 2 * k - 1 = n /\ AtMost(2 * k, n) = n /\ n \in 1 .. n
        BY <2>4, <2>5, <3>1, <3>3 DEF AtMost
      <4>2. SamePiece(ranges[n], ranges'[k])
        BY <2>8, <3>1, <4>1 DEF SamePiece
      <4> QED BY <2>4, <4>1, <4>2, AscendingSame
    <3> QED BY <3>2, <3>3
  <2> QED BY <1>O, <2>1, <2>10, <2>11
<1>5. ASSUME NEW t \in Task, pc = "submit", TaskEnds(t)
      PROVE  /\ OwnIds(data')
             /\ \A w \in Left' :
                  /\ w.kind \in {"sort", "merge"}
                  /\ w.kind = "merge" => /\ Ascending(data', Piece(w.lo, w.mid))
                                         /\ Ascending(data', Piece(w.mid, w.hi))
                  /\ \E k \in 1 .. Len(ranges') : SamePiece(ranges'[k], w)
             /\ \A k \in 1 .. Len(ranges') :
                  Ascending(data', ranges'[k]) \/ \E w \in Left' : SamePiece(ranges'[k], w)
  <2> DEFINE v == work[t]
  <2>1. /\ UNCHANGED caller_vars /\ v \in Left /\ v \in Works
        /\ Left' \subseteq Left /\ Left \subseteq Left' \cup {v}
        /\ \A w \in Left' : Beside(w, v)
        /\ v.kind = "sort" => Sort(v)
        /\ v.kind = "merge" => Merge(v)
    BY <1>5, <1>T, EndIs
  <2>2. ranges' = ranges
    BY <2>1 DEF caller_vars
  <2>3. PICK kv \in 1 .. Len(ranges) : SamePiece(ranges[kv], v)
    BY <1>5, <1>O, <2>1
  <2>4. Permuted(data, data', Positions(v)) /\ Ascending(data', v)
    <3>1. CASE v.kind = "sort"
      <4>1. data' \in SortedOver(data, {v})
        BY <2>1, <3>1 DEF Sort
      <4>2. \A p \in {v} : Positions(p) \subseteq 0 .. Total - 1
        BY <1>T, <2>1, PositionsTyped
      <4>3. Covered({v}) = Positions(v)
        BY DEF Covered
      <4> HIDE DEF v
      <4> QED BY <1>T, <4>1, <4>2, <4>3, SortedPermuted
    <3>2. CASE v.kind = "merge"
      <4>1. data' = Merged(data, v)
        BY <2>1, <3>2 DEF Merge
      <4>2. Ascending(data, Piece(v.lo, v.mid)) /\ Ascending(data, Piece(v.mid, v.hi))
        BY <1>5, <1>O, <2>1, <3>2
      <4> HIDE DEF v
      <4> QED BY <1>T, <2>1, <3>2, <4>1, <4>2, MergedPermuted
    <3>3. v.kind \in {"sort", "merge"}
      BY <1>5, <1>O, <2>1
    <3> QED BY <3>1, <3>2, <3>3
  <2> HIDE DEF v
  <2>5. OwnIds(data') /\ \A i \in 0 .. Total - 1 : i \notin Positions(v) => data'[i] = data[i]
    BY <1>5, <1>O, <2>4, PermutedFacts
  <2>6. v.lo \in Nat /\ v.hi \in Nat
    BY <1>T, <2>1 DEF Works
  \* A piece beside v keeps its order.
  <2>7. ASSUME NEW p, p.lo \in 0 .. Total, p.hi \in 0 .. Total, Beside(p, v), Ascending(data, p)
        PROVE  Ascending(data', p)
    <3>1. \A i \in Positions(p) : i \notin Positions(v)
      BY <1>T, <2>6, <2>7, BesideDisjoint
    <3>2. \A i \in Positions(p) : i \in 0 .. Total - 1
      BY <1>T, <2>7 DEF Positions
    <3> QED BY <2>5, <2>7, <3>1, <3>2, AscendingStays
  <2>8. ASSUME NEW w \in Left'
        PROVE  /\ w.kind \in {"sort", "merge"}
               /\ w.kind = "merge" => /\ Ascending(data', Piece(w.lo, w.mid))
                                      /\ Ascending(data', Piece(w.mid, w.hi))
               /\ \E k \in 1 .. Len(ranges') : SamePiece(ranges'[k], w)
    <3>1. w \in Left /\ w \in Works /\ Beside(w, v)
      BY <1>T, <2>1
    <3>2. ASSUME w.kind = "merge"
          PROVE  Ascending(data', Piece(w.lo, w.mid)) /\ Ascending(data', Piece(w.mid, w.hi))
      <4>1. Ascending(data, Piece(w.lo, w.mid)) /\ Ascending(data, Piece(w.mid, w.hi))
        BY <1>5, <1>O, <3>1, <3>2
      <4>2. /\ w.lo \in 0 .. Total /\ w.mid \in 0 .. Total /\ w.hi \in 0 .. Total
            /\ w.lo <= w.mid /\ w.mid <= w.hi
        BY <3>1, <3>2 DEF Works
      <4>3. Beside(Piece(w.lo, w.mid), v) /\ Beside(Piece(w.mid, w.hi), v)
        BY <1>T, <2>6, <3>1, <4>2 DEF Beside, Piece
      <4>4. /\ Piece(w.lo, w.mid).lo = w.lo /\ Piece(w.lo, w.mid).hi = w.mid
            /\ Piece(w.mid, w.hi).lo = w.mid /\ Piece(w.mid, w.hi).hi = w.hi
        BY DEF Piece
      <4> QED BY <2>7, <4>1, <4>2, <4>3, <4>4
    <3> QED BY <1>5, <1>O, <2>2, <3>1, <3>2
  <2>9. ASSUME NEW k \in 1 .. Len(ranges)
        PROVE  Ascending(data', ranges[k]) \/ \E w \in Left' : SamePiece(ranges[k], w)
    <3>1. CASE SamePiece(ranges[k], v)
      BY <2>4, <3>1, AscendingSame DEF SamePiece
    <3>2. CASE ~SamePiece(ranges[k], v) /\ Ascending(data, ranges[k])
      <4>1. k # kv
        BY <2>3, <3>2
      <4>2. /\ Len(ranges) \in Nat /\ ranges[k] \in Bounds
            /\ k < kv => ranges[k].hi <= ranges[kv].lo
            /\ kv < k => ranges[kv].hi <= ranges[k].lo
        BY <1>5, <1>O, <2>3 DEF Tiles
      <4>3. Beside(ranges[k], v)
        BY <2>3, <4>1, <4>2 DEF Beside, SamePiece
      <4> QED BY <2>7, <3>2, <4>2, <4>3 DEF Bounds
    <3>3. CASE ~SamePiece(ranges[k], v) /\ ~Ascending(data, ranges[k])
      <4>1. PICK w \in Left : SamePiece(ranges[k], w)
        BY <1>5, <1>O, <3>3
      <4>2. w \in Left'
        BY <2>1, <3>3, <4>1
      <4> QED BY <4>1, <4>2
    <3> QED BY <3>1, <3>2, <3>3
  <2> QED BY <2>2, <2>5, <2>8, <2>9
<1> QED BY <1>1, <1>2, <1>3, <1>4, <1>5, StepsOfACall

-------------------------------------------------------------------------------
(* What a call returns.                                                    *)

Progress ==
  /\ DoneWhenReturned /\ HasRanges /\ Untouched /\ Kinds
  /\ Applied /\ Summed /\ Written /\ Ordered

Visited == \A i \in 0 .. Total - 1 : out[i] = <<i>>
Reduced == result[0] = Whole
Scanned == \A i \in 0 .. Total - 1 : out[i] = <<-1>> \o SubSeq(Whole, 1, i + 1)
Sorted ==
  /\ Ascending(data, Piece(0, Total))
  /\ \A i, j \in 0 .. Total - 1 : data[i].id = data[j].id => i = j

Result ==
  CASE call.op \in {"for_each", "transform"} -> Visited
    [] call.op = "reduce" -> Reduced
    [] call.op = "scan" -> Scanned
    [] Sorts -> Sorted

LEMMA ResultIs ==
  /\ call.op \in {"for_each", "transform"} /\ Visited => Result
  /\ call.op = "reduce" /\ Reduced => Result
  /\ call.op = "scan" /\ Scanned => Result
  /\ Sorts /\ Sorted => Result
BY DEF Result, Sorts

LEMMA CorrectIs == Correct <=> (pc = "returned" => Pool!Owed = {} /\ Result)
BY DEF Correct, Result, Visited, Reduced, Scanned, Sorted

LEMMA OwedIsPending ==
  ASSUME \A t \in Task : ~Pending(t)
  PROVE  Pool!Owed = {}
BY DEF Pool!Owed, Pending

\* A range with nothing to do for it.
LEMMA EmptyResult ==
  ASSUME Rounds, Untouched, pc = "split", TooSmall
  PROVE  Result
<1>1. /\ Called /\ Total \in Nat
      /\ result = [t \in Task \cup {0} |-> <<>>]
      /\ Total = 0 \/ (Sorts /\ Total = 1)
      /\ \A i \in 0 .. Total - 1 : data[i].id = i
  BY TotalIs DEF Rounds, Typed, Fresh, Untouched, TooSmall
<1>2. CASE Sorts
  <2>1. Total \in {0, 1}
    BY <1>1
  <2>2. \A i, j \in 0 .. Total - 1 : ~(i < j)
    BY <2>1
  <2>3. Ascending(data, Piece(0, Total))
    BY <2>2 DEF Ascending, Positions, Piece
  <2> QED BY <1>1, <1>2, <2>3, ResultIs DEF Sorted
<1>3. CASE ~Sorts
  <2>1. Total = 0 /\ 0 .. Total - 1 = {}
    BY <1>1, <1>3
  <2>2. Whole = <<>> /\ result[0] = <<>>
    BY <1>1, <2>1 DEF Whole
  <2>3. call.op \in {"for_each", "transform", "reduce", "scan"}
    BY <1>1, <1>3, ParallelAssumption DEF Called, Sorts
  <2>4. Visited /\ Reduced /\ Scanned
    BY <2>1, <2>2 DEF Visited, Reduced, Scanned
  <2> QED BY <2>3, <2>4, ResultIs
<1> QED BY <1>2, <1>3

LEMMA ReturnedResult ==
  ASSUME Rounds, Progress, Return
  PROVE  Result'
<1>1. /\ RoundOver /\ pc = "submit" /\ todo = <<>> /\ futures = <<>>
      /\ ~Sorts \/ Len(ranges) <= 1
      /\ call.op = "scan" => ranges = <<>>
      /\ result' = IF call.op = "reduce" THEN [result EXCEPT ![0] = Last(sums)] ELSE result
      /\ UNCHANGED <<call, data, out>>
  BY DEF Return, RoundOver
<1>2. /\ Typed /\ Called /\ Total \in Nat /\ Total' = Total
      /\ result \in Results /\ sums \in Seq(Sums) /\ sums # <<>>
  BY <1>1, TotalIs, SetsStay DEF Rounds, Typed
<1>3. Left = {}
  BY <1>1, NobodyLeft, NothingLeft DEF Rounds
<1>4. \A i : ~Due(i)
  BY <1>3 DEF Due
<1>5. ASSUME call.op \in {"for_each", "transform"} PROVE Visited'
  <2>1. \A i \in 0 .. Total - 1 : out[i] = <<i>>
    BY <1>1, <1>4, <1>5 DEF Progress, Applied
  <2> QED BY <1>1, <1>2, <1>5, <2>1 DEF Visited
<1>6. ASSUME call.op = "reduce" PROVE Reduced'
  <2>1. Tiles(ranges) /\ Len(ranges) \in Nat /\ ranges # <<>>
    BY <1>1, <1>6 DEF Progress, HasRanges, Tiles
  <2>2. Len(sums) = Len(ranges) + 1
    <3>1. Len(sums) - 1 + Len(futures) + Len(todo) = Len(ranges)
      BY <1>1, <1>6, <2>1 DEF Rounds, Counted
    <3>2. Len(futures) = 0 /\ Len(todo) = 0 /\ Len(sums) \in Nat
      BY <1>1, <1>2
    <3> QED BY <2>1, <3>1, <3>2
  <2>3. Last(sums) = sums[Len(ranges) + 1] /\ Len(ranges) + 1 \in 1 .. Len(sums)
    BY <1>2, <2>1, <2>2, LastIs
  <2>4. sums[Len(ranges) + 1] = Span(0, Total)
    BY <1>1, <1>2, <1>6, <2>1, <2>3, UptoIs DEF Progress, Summed
  <2>5. result'[0] = Whole
    BY <1>1, <1>2, <1>6, <2>3, <2>4, WholeIsSpan DEF Results
  <2>6. Whole' = Whole
    BY <1>2 DEF Whole
  <2> QED BY <2>5, <2>6 DEF Reduced
<1>7. ASSUME call.op = "scan" PROVE Scanned'
  <2>1. \A i \in 0 .. Total - 1 : out[i] = <<-1>> \o Span(0, i + 1)
    BY <1>1, <1>4, <1>7 DEF Progress, Written
  <2>2. \A i \in 0 .. Total - 1 : out[i] = <<-1>> \o SubSeq(Whole, 1, i + 1)
    BY <1>2, <2>1, WholeIsSpan
  <2>3. Whole' = Whole
    BY <1>2 DEF Whole
  <2> QED BY <1>1, <1>2, <2>2, <2>3 DEF Scanned
<1>8. ASSUME Sorts PROVE Sorted'
  <2>1. Tiles(ranges)
    BY <1>1, <1>8 DEF Progress, HasRanges, Sorts
  <2>2. Len(ranges) = 1
    <3>1. Len(ranges) \in Nat \ {0}
      BY <2>1 DEF Tiles
    <3> QED BY <1>1, <1>8, <3>1
  <2>3. SamePiece(ranges[1], Piece(0, Total))
    BY <2>1, <2>2 DEF Tiles, SamePiece, Piece
  <2>4. OwnIds(data) /\ Ascending(data, ranges[1])
    BY <1>1, <1>3, <1>8, <2>2 DEF Progress, Ordered
  <2>5. Ascending(data, Piece(0, Total))
    BY <2>3, <2>4, AscendingSame
  <2>6. Ascending(data, Piece(0, Total))'
    BY <1>1, <1>2, <2>5 DEF Ascending, Positions, Piece
  <2> QED BY <1>1, <1>2, <2>4, <2>6 DEF Sorted, OwnIds
<1>9. \/ call.op \in {"for_each", "transform"} \/ call.op = "reduce" \/ call.op = "scan" \/ Sorts
  BY <1>2, ParallelAssumption DEF Called, Sorts
<1>10. call' = call /\ (Sorts' <=> Sorts)
  BY <1>1 DEF Sorts
<1>11. /\ call'.op \in {"for_each", "transform"} /\ Visited' => Result'
       /\ call'.op = "reduce" /\ Reduced' => Result'
       /\ call'.op = "scan" /\ Scanned' => Result'
       /\ Sorts' /\ Sorted' => Result'
  BY DEF Result, Sorts
<1> QED BY <1>5, <1>6, <1>7, <1>8, <1>9, <1>10, <1>11

LEMMA CorrectInductive ==
  ASSUME Rounds, Progress, Correct, [Next]_vars
  PROVE  Correct'
<1> SUFFICES ASSUME pc' = "returned"
             PROVE  Pool!Owed' = {} /\ Result'
  BY DEF Correct, Result, Visited, Reduced, Scanned, Sorted
<1>1. Correct <=> (pc = "returned" => Pool!Owed = {} /\ Result)
  BY CorrectIs
<1>2. \A t \in Task : ~Pending(t)'
  BY DoneInductive DEF Progress, DoneWhenReturned
<1>3. Pool!Owed' = {}
  BY <1>2 DEF Pool!Owed, Pending
<1>4. CASE Return
  BY <1>3, <1>4, ReturnedResult
<1>5. CASE ReturnAtOnce
  <2>1. /\ pc = "split" /\ TooSmall
        /\ UNCHANGED <<call, data, out, result>>
    BY <1>5 DEF ReturnAtOnce
  <2>2. Result
    BY <2>1, EmptyResult DEF Progress
  <2> QED BY <1>3, <2>1, <2>2 DEF Result, Visited, Reduced, Scanned, Sorted, Whole, Total, Sorts, Ascending, Positions, Piece
<1>6. ~Split /\ ~Submit /\ ~Get /\ ~SecondRound /\ ~MergeRound
  BY DEF Split, Submit, Get, SecondRound, MergeRound, RoundOver
<1>7. ASSUME NEW t \in Task, TaskStarts(t) \/ TaskEnds(t) \/ TaskThrows(t)
      PROVE  FALSE
  <2>1. pc = "returned" /\ Pending(t)
    BY <1>7 DEF TaskStarts, TaskEnds, TaskThrows, Pool!Start, Pool!Finish, Pending, caller_vars
  <2> QED BY <2>1 DEF Progress, DoneWhenReturned
<1>8. CASE UNCHANGED vars
  <2>1. pc = "returned" /\ UNCHANGED <<call, data, out, result>>
    BY <1>8 DEF vars, caller_vars
  <2> QED BY <1>1, <1>3, <2>1 DEF Result, Visited, Reduced, Scanned, Sorted, Whole, Total, Sorts, Ascending, Positions, Piece
<1> QED BY <1>4, <1>5, <1>6, <1>7, <1>8 DEF Next, CallerStep

LEMMA ProgressInit == Init => Progress /\ Correct
<1> SUFFICES ASSUME Init PROVE Progress /\ Correct
  OBVIOUS
<1>1. pc = "split"
  BY DEF Init
<1>2. \A i \in 0 .. Total - 1 : data[i].id = i
  <2>1. PICK keys \in [0 .. Total - 1 -> Key] :
          data = [i \in 0 .. Total - 1 |-> [key |-> IF Sorts THEN keys[i] ELSE 0, id |-> i]]
    BY DEF Init
  <2> QED BY <2>1
<1> QED BY <1>1, <1>2 DEF Progress, Correct, DoneWhenReturned, HasRanges, Untouched, Kinds, Applied,
                          Summed, Written, Ordered

LEMMA ProgressStep == Rounds /\ Progress /\ Correct /\ [Next]_vars => Progress' /\ Correct'
<1> SUFFICES ASSUME Rounds, Progress, Correct, [Next]_vars PROVE Progress' /\ Correct'
  OBVIOUS
<1>1. /\ DoneWhenReturned /\ HasRanges /\ Untouched /\ Kinds
      /\ Applied /\ Summed /\ Written /\ Ordered
  BY DEF Progress
<1>2. DoneWhenReturned' /\ HasRanges' /\ Untouched' /\ Kinds'
  BY <1>1, DoneInductive, HasRangesInductive, UntouchedInductive, KindsInductive
<1>3. Applied' /\ Summed' /\ Written' /\ Ordered'
  BY <1>1, AppliedInductive, SummedInductive, WrittenInductive, OrderedInductive
<1> QED BY <1>2, <1>3, CorrectInductive DEF Progress

\* A call that returns has done what the sequential algorithm does, whatever the
\* number of threads, the length of the range and the order in which the pool ran
\* the tasks: for_each has been to every element once, transform has filled the
\* output, reduce and inclusive_scan have combined the elements from left to right,
\* and the sorts leave a permutation in ascending order; and no task is left that
\* could still touch the range.
THEOREM CallsAreCorrect == Spec => []Correct
<1>1. Init => Rounds /\ Progress /\ Correct
  BY RoundsInit, ProgressInit
<1>2. Rounds /\ Progress /\ Correct /\ [Next]_vars => (Rounds /\ Progress /\ Correct)'
  BY RoundsStep, ProgressStep
<1> QED BY <1>1, <1>2, PTL DEF Spec

===============================================================================
