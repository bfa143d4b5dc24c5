------------------------------ MODULE SpfhCache ------------------------------
(***************************************************************************)
(* The shared signatures of fpfh_extractor_t::compute_impl().  The         *)
(* descriptor of a keypoint is made from the signature of the keypoint and *)
(* of its neighbours; a signature that several keypoints need is computed  *)
(* once and kept.  Signatures of points that are counted often are         *)
(* computed first, one task for each point; the others are computed by the *)
(* first task that finds them missing.                                     *)
(*                                                                         *)
(* The tasks share three arrays without a lock: the list of neighbours of  *)
(* a point, its signature, and a std::vector<bool> of the signatures that  *)
(* are there, whose bits share a word.  Histograms and distances are left  *)
(* out.  A task is one element of parallel_for_each(), the finest cut that *)
(* call makes; without parallelism one task runs after the other.          *)
(***************************************************************************)
EXTENDS Integers, FiniteSets

CONSTANTS
  Point,      \* the points of the cloud
  Clouds,     \* what may be asked for: [near, keypoints]; near: the neighbours of each
              \* point, itself among them
  Modes       \* what m_enable_parallel may be

VARIABLES
  near, keypoint_indices, m_enable_parallel,   \* the call
  stage,          \* "precompute", "describe" or "done"
  computed,       \* points whose list of neighbours is there
  spfh_computed,  \* points whose bit is set
  signature,      \* of each point: "none", "partial" (being counted into), "complete",
                  \* or "mixed" (two tasks counted into it at a time)
  task,           \* what the task of each point or keypoint does
  lost            \* points whose bit a neighbouring write has taken back
call_vars == <<near, keypoint_indices, m_enable_parallel>>
vars == <<call_vars, stage, computed, spfh_computed, signature, task, lost>>

\* Operators called Mutant_... are faulty variants of the definition that follows
\* them; no specification uses them.

\* pc: "idle", "test", "list" (writing the list of point), "clear" (about to write
\* zeros over the signature), "fill" (reading the list and counting into the
\* signature), "mark" (about to read the word of bits), "store" (about to write it
\* back), "use" (reading the signature), "over".
Idle == [pc |-> "idle", point |-> 0, todo |-> {}, word |-> {}]

Init ==
  /\ \E c \in Clouds : near = c.near /\ keypoint_indices = c.keypoints
  /\ m_enable_parallel \in Modes
  /\ stage = "precompute"
  /\ computed = {} /\ spfh_computed = {} /\ lost = {}
  /\ signature = [p \in Point |-> "none"]
  /\ task = [p \in Point |-> Idle]

\* How many times step 1 counts a point: as a keypoint and as a neighbour.
reference_count(p) ==
  Cardinality({k \in keypoint_indices : k = p})
    + Cardinality({k \in keypoint_indices : p \in near[k]})

CountedOften(p) == reference_count(p) > 2

points_to_precompute == {p \in Point : CountedOften(p)}

\* The tasks of the stage.
Work == IF stage = "precompute" THEN points_to_precompute ELSE keypoint_indices

Goes(t, to) == task' = [task EXCEPT ![t].pc = to]

Start(t) ==
  /\ stage # "done" /\ t \in Work /\ task[t].pc = "idle"
  /\ m_enable_parallel \/ \A u \in Point : task[u].pc \in {"idle", "over"}
  /\ task' = [task EXCEPT ![t] = [pc |-> "test", point |-> t, word |-> {},
       todo |-> IF stage = "precompute" THEN {} ELSE near[t] \ {t}]]
  /\ UNCHANGED <<call_vars, stage, computed, spfh_computed, signature, lost>>

\* if (!spfh_computed[p]), which the tasks of the first stage do not ask, and
\* if (!all_neighbors[p].computed).
Mutant_Known(p) == TRUE
Known(p) == p \in spfh_computed
Test(t) ==
  LET p == task[t].point
  IN /\ task[t].pc = "test"
     /\ Goes(t, IF stage = "describe" /\ Known(p) THEN "use"
                ELSE IF p \notin computed THEN "list" ELSE "clear")
     /\ UNCHANGED <<call_vars, stage, computed, spfh_computed, signature, lost>>

\* The list is there: from the search of the point, or copied from the one made for
\* the keypoint.
Listed(t) ==
  /\ task[t].pc = "list"
  /\ computed' = computed \cup {task[t].point}
  /\ Goes(t, "clear")
  /\ UNCHANGED <<call_vars, stage, spfh_computed, signature, lost>>

\* Another task is counting into the signature of t's point.
AtOnce(t) ==
  \E u \in Point \ {t} : task[u].pc = "fill" /\ task[u].point = task[t].point

\* compute_spfh() begins with zeros, also over a signature that is complete,
Cleared(t) ==
  /\ task[t].pc = "clear"
  /\ signature' = [signature EXCEPT ![task[t].point] =
                     IF AtOnce(t) THEN "mixed" ELSE "partial"]
  /\ Goes(t, "fill")
  /\ UNCHANGED <<call_vars, stage, computed, spfh_computed, lost>>

\* and ends with the counts of every neighbour, divided by their number.
Filled(t) ==
  /\ task[t].pc = "fill"
  /\ signature' = [signature EXCEPT ![task[t].point] =
                     IF @ = "mixed" THEN @ ELSE "complete"]
  /\ Goes(t, "mark")
  /\ UNCHANGED <<call_vars, stage, computed, spfh_computed, lost>>

\* spfh_computed[p] = true reads a word of bits and writes it back.
Mark(t) ==
  /\ task[t].pc = "mark"
  /\ task' = [task EXCEPT ![t].pc = "store", ![t].word = spfh_computed]
  /\ UNCHANGED <<call_vars, stage, computed, spfh_computed, signature, lost>>

Store(t) ==
  LET word == task[t].word \cup {task[t].point}
  IN /\ task[t].pc = "store"
     /\ spfh_computed' = word
     /\ lost' = lost \cup (spfh_computed \ word)
     /\ Goes(t, IF stage = "precompute" THEN "over" ELSE "use")
     /\ UNCHANGED <<call_vars, stage, computed, signature>>

\* compute_fpfh_feature_adaptive(): the signature is added to the descriptor, and
\* the next neighbour is looked at.
Use(t) ==
  /\ task[t].pc = "use"
  /\ IF task[t].todo = {} THEN Goes(t, "over")
     ELSE \E p \in task[t].todo :
            task' = [task EXCEPT ![t] = [pc |-> "test", point |-> p, word |-> {},
                                         todo |-> @.todo \ {p}]]
  /\ UNCHANGED <<call_vars, stage, computed, spfh_computed, signature, lost>>

\* parallel_for_each() returns when every task is over.
NextStage ==
  /\ stage # "done"
  /\ \A t \in Work : task[t].pc = "over"
  /\ stage' = IF stage = "precompute" THEN "describe" ELSE "done"
  /\ task' = [p \in Point |-> Idle]
  /\ UNCHANGED <<call_vars, computed, spfh_computed, signature, lost>>

Next ==
  \/ \E t \in Point : \/ Start(t) \/ Test(t) \/ Listed(t) \/ Cleared(t) \/ Filled(t)
                      \/ Mark(t) \/ Store(t) \/ Use(t)
  \/ NextStage

Spec == Init /\ [][Next]_vars

-------------------------------------------------------------------------------
(* Properties *)

TypeOK ==
  /\ stage \in {"precompute", "describe", "done"}
  /\ computed \subseteq Point /\ spfh_computed \subseteq Point
  /\ signature \in [Point -> {"none", "partial", "mixed", "complete"}]
  /\ \A t \in Point : task[t].todo \subseteq Point /\ task[t].word \subseteq Point

\* Points whose list or signature one task writes while another reads or writes it.
Raced ==
  {p \in Point : \E t, u \in Point :
     /\ t # u /\ task[t].point = p /\ task[u].point = p
     /\ \/ task[t].pc = "list" /\ task[u].pc \in {"list", "clear", "fill"}
        \/ task[t].pc \in {"clear", "fill"} /\ task[u].pc \in {"clear", "fill", "use"}}

\* Points that tasks running at a time may fight over: those counted exactly twice,
\* left to whoever comes first, and those whose bit was lost to a write of another
\* point's bit.
Contested(p) == m_enable_parallel /\ (reference_count(p) = 2 \/ p \in lost)

\* A signature that is being read is complete, and no task writes the list or the
\* signature of a point while another task reads or writes it: only at a contested
\* point may a reader meet the zeros and the counts of a task that writes the
\* signature again.
MeetOnlyWhereCountedTwice ==
  /\ \A t \in Point :
       task[t].pc = "use" => signature[task[t].point] = "complete" \/ Contested(task[t].point)
  /\ \A p \in Raced : Contested(p)

\* fpfh_extractor_impl.hpp calls the lazy computation thread-safe: no list and no
\* signature is written by one task while another one reads or writes it.
ThreadSafe == Raced = {}

===============================================================================
