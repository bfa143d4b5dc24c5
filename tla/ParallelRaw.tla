------------------------------ MODULE ParallelRaw ------------------------------
(***************************************************************************)
(* toolbox::concurrent without TBB: parallel_for_each, _transform, _reduce,*)
(* _inclusive_scan, _merge_sort and _tim_sort.  A call cuts its range into *)
(* pieces, submits a round of tasks, get()s their futures in order, and    *)
(* goes on to the next round.  The pool is a TaskPool.                     *)
(*                                                                         *)
(* Values are sequences of element numbers and operations concatenate      *)
(* them: what holds of concatenation holds of every associative operation. *)
(***************************************************************************)
EXTENDS Integers, Sequences, FiniteSets, SequencesExt

CONSTANTS
  Ops,          \* the functions to call
  Sizes,        \* lengths of the range
  Key,          \* what the comparator of the sorts looks at
  ThreadCounts, \* get_thread_count()
  HardwareCounts,   \* hardware_concurrency(), which may not know and say 0
  MinChunk,     \* 256 in parallel_reduce
  Run,          \* kRun, 32 in parallel_tim_sort
  MayThrow,     \* what the caller passed in may throw
  MaxTasks      \* tasks of one call, at most

ASSUME ParallelAssumption ==
  /\ Sizes \subseteq Nat /\ Key \subseteq Nat /\ ThreadCounts \subseteq Nat \ {0}
  /\ HardwareCounts \subseteq Nat /\ MinChunk \in Nat \ {0} /\ Run \in Nat \ {0}
  /\ MayThrow \in BOOLEAN /\ MaxTasks \in Nat
  /\ Ops \subseteq {"for_each", "transform", "reduce", "scan", "merge_sort", "tim_sort"}

Task == 1 .. MaxTasks

VARIABLES
  call,     \* what is called, on how many elements and threads
  data,     \* the range [begin, end): elements by position
  out,      \* what for_each has done to an element; the output range
  ranges,   \* the pieces that are sorted, or summed up
  todo,     \* what this round has yet to submit
  work,     \* work[t]: what task t was told to do
  futures,  \* tasks whose future has not been read
  sums,     \* sums[k]: what the first k - 1 futures of this round add up to
  result,   \* result[t]: what the future of t holds; the call's is result[0]
  pc,
  status, closed   \* the pool

Pool == INSTANCE TaskPool

caller_vars == <<call, ranges, todo, work, futures, sums, pc>>
vars == <<caller_vars, data, out, result, status, closed>>

Total == call.size
Sorts == call.op \in {"merge_sort", "tim_sort"}

\* Operators called Mutant_... are faulty variants of the definition that follows
\* them; no specification uses them.

AtMost(a, b) == IF a < b THEN a ELSE b
AtLeast(a, b) == IF a < b THEN b ELSE a
CeilDiv(a, b) == (a + b - 1) \div b

\* Positions are 0 .. Total - 1; a piece [lo, hi) is without its end.
Piece(lo, hi) == [lo |-> lo, hi |-> hi]
Positions(p) == p.lo .. p.hi - 1

NoWork == [kind |-> "none", lo |-> 0, mid |-> 0, hi |-> 0, offset |-> <<>>]
Work(kind, p) == [kind |-> kind, lo |-> p.lo, mid |-> 0, hi |-> p.hi, offset |-> <<>>]

Elements(lo, hi) == [i \in 1 .. hi - lo |-> data[lo + i - 1].id]

-------------------------------------------------------------------------------
(* Cutting the range                                                       *)

NumTasks ==
  LET hardware == AtLeast(1, call.hardware)
  IN  IF call.op = "reduce" THEN AtLeast(1, AtMost(call.threads, hardware))
      ELSE AtLeast(call.threads, hardware)

PerTask(n) == CeilDiv(Total, n)

ChunkSize ==
  CASE call.op = "tim_sort" -> Run
    [] call.op = "reduce" -> AtLeast(MinChunk, PerTask(NumTasks))
    [] OTHER -> AtLeast(1, PerTask(NumTasks))

ChunkEnd(i) == AtMost(i + ChunkSize, Total)

Chunks ==
  [k \in 1 .. CeilDiv(Total, ChunkSize) |->
     Piece((k - 1) * ChunkSize, ChunkEnd((k - 1) * ChunkSize))]

FirstKind ==
  CASE call.op = "for_each" -> "apply" [] call.op = "transform" -> "transform"
    [] call.op \in {"reduce", "scan"} -> "accumulate" [] call.op = "merge_sort" -> "sort"

-------------------------------------------------------------------------------
(* What a task does to the range, all at once: NoRace says that nobody     *)
(* can tell.                                                               *)

Ascending(d, p) == \A i, j \in Positions(p) : i < j => d[i].key <= d[j].key

\* std::sort of some pieces: elements with equal keys in any order.
Covered(pieces) == UNION {Positions(p) : p \in pieces}

Shuffles(pieces) ==
  {g \in [Covered(pieces) -> Covered(pieces)] :
     /\ \A i, j \in Covered(pieces) : g[i] = g[j] => i = j
     /\ \A p \in pieces : \A i \in Positions(p) : g[i] \in Positions(p)}

Shuffled(d, g) == [i \in DOMAIN d |-> IF i \in DOMAIN g THEN d[g[i]] ELSE d[i]]

SortedOver(d, pieces) ==
  {e \in {Shuffled(d, g) : g \in Shuffles(pieces)} : \A p \in pieces : Ascending(e, p)}

\* std::inplace_merge of [lo, mid) and [mid, hi): of equals the left one is first.
\* What it does to halves that are not in order is as bad as in the code.
MergedTo(d, w, i) ==
  IF i < w.mid
  THEN i + Cardinality({j \in w.mid .. w.hi - 1 : d[j].key < d[i].key})
  ELSE (i - w.mid) + w.lo + Cardinality({j \in w.lo .. w.mid - 1 : d[j].key <= d[i].key})
Merged(d, w) ==
  [k \in DOMAIN d |->
     IF k \in Positions(w) /\ \E i \in Positions(w) : MergedTo(d, w, i) = k
     THEN d[CHOOSE i \in Positions(w) : MergedTo(d, w, i) = k]
     ELSE d[k]]

Apply(w) ==
  /\ w.kind = "apply"
  /\ out' = [i \in DOMAIN out |-> IF i \in Positions(w) THEN Append(out[i], data[i].id) ELSE out[i]]
  /\ UNCHANGED <<data, result>>

Transform(w) ==
  /\ w.kind = "transform"
  /\ out' = [i \in DOMAIN out |-> IF i \in Positions(w) THEN <<data[i].id>> ELSE out[i]]
  /\ UNCHANGED <<data, result>>

\* The identity is the empty sequence.
Accumulate(t, w) ==
  /\ w.kind = "accumulate"
  /\ result' = [result EXCEPT ![t] = Elements(w.lo, w.hi)]
  /\ UNCHANGED <<data, out>>

WriteSums(w) ==
  /\ w.kind = "write"
  /\ out' = [i \in DOMAIN out |-> IF i \in Positions(w) THEN w.offset \o Elements(w.lo, i + 1) ELSE out[i]]
  /\ UNCHANGED <<data, result>>

Sort(w) ==
  /\ w.kind = "sort"
  /\ data' \in SortedOver(data, {w})
  /\ UNCHANGED <<out, result>>

Merge(w) ==
  /\ w.kind = "merge"
  /\ data' = Merged(data, w)
  /\ UNCHANGED <<out, result>>

TaskStarts(t) == Pool!Start(t) /\ UNCHANGED <<caller_vars, data, out, result>>

TaskEnds(t) ==
  /\ Pool!Finish(t, "value")
  /\ \/ Apply(work[t]) \/ Transform(work[t]) \/ Accumulate(t, work[t])
     \/ WriteSums(work[t]) \/ Sort(work[t]) \/ Merge(work[t])
  /\ UNCHANGED caller_vars

\* What is left of the range then is nobody's promise.
TaskThrows(t) ==
  /\ MayThrow
  /\ Pool!Finish(t, "exception")
  /\ UNCHANGED <<caller_vars, data, out, result>>

-------------------------------------------------------------------------------
(* The caller                                                              *)

Init ==
  /\ call \in [op : Ops, size : Sizes, threads : ThreadCounts, hardware : HardwareCounts]
  /\ \E keys \in [0 .. Total - 1 -> Key] :
       data = [i \in 0 .. Total - 1 |-> [key |-> IF Sorts THEN keys[i] ELSE 0, id |-> i]]
  /\ out = [i \in 0 .. Total - 1 |-> <<>>]
  /\ ranges = <<>> /\ todo = <<>> /\ futures = <<>> /\ sums = <<<<>>>>
  /\ work = [t \in Task |-> NoWork]
  /\ result = [t \in Task \cup {0} |-> <<>>]
  /\ pc = "split"
  /\ Pool!Init

\* Every second range is merged with the one after it.
Pairs(rs) == [k \in 1 .. Len(rs) \div 2 |->
                [Work("merge", Piece(rs[2 * k - 1].lo, rs[2 * k].hi)) EXCEPT !.mid = rs[2 * k - 1].hi]]

NewRanges(rs) ==
  [k \in 1 .. CeilDiv(Len(rs), 2) |-> Piece(rs[2 * k - 1].lo, rs[AtMost(2 * k, Len(rs))].hi)]

TooSmall == Total = 0 \/ (Sorts /\ Total = 1)

ReturnAtOnce ==
  /\ pc = "split"
  /\ TooSmall
  /\ pc' = "returned"
  /\ UNCHANGED <<call, ranges, todo, work, futures, sums, data, out, result, status, closed>>

Split ==
  /\ pc = "split"
  /\ ~TooSmall
  /\ ranges' = Chunks
  /\ IF call.op = "tim_sort"
     THEN data' \in SortedOver(data, ToSet(Chunks)) /\ UNCHANGED todo
     ELSE todo' = [k \in DOMAIN Chunks |-> Work(FirstKind, Chunks[k])] /\ UNCHANGED data
  /\ pc' = "submit"
  /\ UNCHANGED <<call, work, futures, sums, out, result, status, closed>>

Submit ==
  /\ pc = "submit"
  /\ todo # <<>>
  /\ \E t \in Task :
       /\ \A s \in Task : s < t <=> work[s] # NoWork
       /\ Pool!Accept(t)
       /\ work' = [work EXCEPT ![t] = Head(todo)]
       /\ futures' = Append(futures, t)
  /\ todo' = Tail(todo)
  /\ UNCHANGED <<call, ranges, sums, pc, data, out, result>>

Mutant_ValueOnly(t) == status[t] = "value"
Ready(t) == status[t] \in {"value", "exception"}

\* fut.get(): the futures of a round are read in the order of submission.
Get ==
  /\ pc = "submit" /\ todo = <<>>
  /\ futures # <<>>
  /\ Ready(Head(futures))
  /\ futures' = Tail(futures)
  /\ sums' = Append(sums, Last(sums) \o result[Head(futures)])
  /\ pc' = IF status[Head(futures)] = "exception" THEN "thrown" ELSE "submit"
  /\ UNCHANGED <<call, ranges, todo, work, data, out, result, status, closed>>

Mutant_NoBarrier == pc = "submit" /\ todo = <<>>
RoundOver == pc = "submit" /\ todo = <<>> /\ futures = <<>>

Mutant_OffsetInclusive(k) == sums[k + 1]
Offset(k) == <<-1>> \o sums[k]

\* The second round of the scan, which has no use for the ranges after it; -1 is
\* its initial value.
SecondRound ==
  /\ RoundOver
  /\ call.op = "scan" /\ ranges # <<>>
  /\ todo' = [k \in DOMAIN ranges |-> [Work("write", ranges[k]) EXCEPT !.offset = Offset(k)]]
  /\ ranges' = <<>> /\ sums' = <<<<>>>>
  /\ UNCHANGED <<call, work, futures, pc, data, out, result, status, closed>>

MergeRound ==
  /\ RoundOver
  /\ Sorts /\ Len(ranges) > 1
  /\ todo' = Pairs(ranges)
  /\ ranges' = NewRanges(ranges)
  /\ sums' = <<<<>>>>
  /\ UNCHANGED <<call, work, futures, pc, data, out, result, status, closed>>

Return ==
  /\ RoundOver
  /\ ~Sorts \/ Len(ranges) <= 1
  /\ call.op = "scan" => ranges = <<>>
  /\ result' = IF call.op = "reduce" THEN [result EXCEPT ![0] = Last(sums)] ELSE result
  /\ pc' = "returned"
  /\ UNCHANGED <<call, ranges, todo, work, futures, sums, data, out, status, closed>>

CallerStep == ReturnAtOnce \/ Split \/ Submit \/ Get \/ SecondRound \/ MergeRound \/ Return

Next ==
  \/ CallerStep
  \/ \E t \in Task : TaskStarts(t) \/ TaskEnds(t) \/ TaskThrows(t)

Spec == Init /\ [][Next]_vars

\* The caller runs on and the pool gets round to every task: what ThreadPool's
\* AcceptedEventuallyReady says, when the caller is not itself a task of the pool.
FairSpec ==
  /\ Spec
  /\ WF_vars(CallerStep)
  /\ \A t \in Task : WF_vars(TaskStarts(t) \/ TaskEnds(t))

-------------------------------------------------------------------------------
(* Properties                                                              *)

TypeOK ==
  /\ data \in [0 .. Total - 1 -> [key : Key \cup {0}, id : 0 .. Total - 1]]
  /\ out \in [0 .. Total - 1 -> Seq(-1 .. Total - 1)]
  /\ \A k \in DOMAIN ranges : ranges[k].lo \in 0 .. Total /\ ranges[k].hi \in 0 .. Total
  /\ futures \in Seq(Task)
  /\ pc \in {"split", "submit", "returned", "thrown"}
  /\ Pool!TypeOK

\* Tasks that may run at the same time share no element, and the caller touches none.
NoRace ==
  /\ TypeOK
  /\ \A s, t \in Pool!Owed : s # t => Positions(work[s]) \cap Positions(work[t]) = {}

\* When the call returns, however its tasks were scheduled: for_each has been to
\* every element once, the output is the image of the input, the reduction is the
\* one from left to right, the scan holds every prefix, the range is a sorted
\* permutation.
Whole == [i \in 1 .. Total |-> i - 1]
Correct ==
  pc = "returned" =>
    /\ Pool!Owed = {}
    /\ CASE call.op \in {"for_each", "transform"} -> \A i \in 0 .. Total - 1 : out[i] = <<i>>
         [] call.op = "reduce" -> result[0] = Whole
         [] call.op = "scan" -> \A i \in 0 .. Total - 1 : out[i] = <<-1>> \o SubSeq(Whole, 1, i + 1)
         [] Sorts -> /\ Ascending(data, Piece(0, Total))
                     /\ \A i, j \in 0 .. Total - 1 : data[i].id = data[j].id => i = j

\* The call ends.
CallEnds == <>(pc \in {"returned", "thrown"})
===============================================================================
