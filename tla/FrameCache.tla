------------------------------ MODULE FrameCache ------------------------------
(***************************************************************************)
(* The frames that toolbox::io::kitti_odometry_dataset_t keeps in memory:  *)
(* at_impl() looks a frame up, loads it, puts it into the cache, evicts    *)
(* the least recently used, and answers from the cache.                    *)
(*                                                                         *)
(* at_impl() is const and unlocked, and a dataloader_t calls it from       *)
(* several tasks of its pool.  A helper that uses the containers is a step *)
(* into it and a step out of it, which has its effect; readers come and go *)
(* between the two.  Where two of them are in the containers at a time and *)
(* one of them writes, the code has a data race.  What a program does      *)
(* after one is undefined, and the model ends there.                       *)
(***************************************************************************)
EXTENDS Integers, Sequences, FiniteSets, SequencesExt, SequenceFacts

CONSTANTS
  Reader,      \* threads that read frames
  NFrames,     \* cloud_files_.size()
  Corrupt,     \* frames whose file cannot be read
  CacheSizes,  \* arguments to set_cache_size()
  DefaultSize  \* max_cache_size_ as constructed (100)

CacheAssumption ==
  /\ NFrames \in Nat
  /\ Corrupt \subseteq 0 .. NFrames - 1
  /\ CacheSizes \subseteq Nat /\ DefaultSize \in Nat

\* NFrames itself stands for the indices out of range.
Index == 0 .. NFrames
Good == 0 .. NFrames - 1 \ Corrupt

\* pc: "idle"; "lookup", "answer" (about to call get_from_cache(), the first time and
\* the second), "find", "find again" (in cache_.find()), "move" (in lru_list_, and
\* copying the frame), "load", "update" (about to call update_cache()), "insert" (in it).
VARIABLES
  cache, lru_list, max_cache_size,
  strict,      \* error_policy_ is strict
  pc, index, answer,   \* of each reader: where it is in at_impl(index), what it returned
  recent       \* every frame used since the last clear_cache(), the latest first

cache_vars == <<cache, lru_list, recent>>
config_vars == <<max_cache_size, strict>>
vars == <<cache_vars, config_vars, pc, index, answer>>

\* Operators called Mutant_... are faulty variants of the definition that follows
\* them; no specification uses them.

Init ==
  /\ cache = {} /\ lru_list = <<>> /\ recent = <<>>
  /\ max_cache_size = DefaultSize
  /\ strict \in BOOLEAN
  /\ pc = [r \in Reader |-> "idle"]
  /\ index = [r \in Reader |-> 0]
  /\ answer = [r \in Reader |-> "none"]

Goto(r, label) == pc' = [pc EXCEPT ![r] = label]

Answer(r, what) ==
  /\ Goto(r, "idle")
  /\ answer' = [answer EXCEPT ![r] = what]

Refuse(r) == Answer(r, IF strict THEN "throws" ELSE "nullopt")

\* To the front of a list, from wherever it is in it.
ToFront(list, i) == <<i>> \o Without(list, {i})

Mutant_LeaveInPlace(list, i) == list
Used(list, i) == ToFront(list, i)

Kept(list, n) == SubSeq(list, 1, n)

\* The loop that evicts from the back of the list until n entries stay.
Evicting(entries, list, n) ==
  IF Cardinality(entries) > n
  THEN /\ lru_list' = Kept(list, n)
       /\ cache' = entries \ (ToSet(list) \ ToSet(Kept(list, n)))
  ELSE lru_list' = list /\ cache' = entries

\* Two readers use a container at a time, and one of them writes: "move" writes the
\* list and reads the cache, "insert" writes both.
Racing ==
  \E r, u \in Reader :
    /\ r # u
    /\ \/ {pc[r], pc[u]} \subseteq {"move", "insert"}
       \/ pc[r] = "insert" /\ pc[u] \in {"find", "find again"}

Read(r) ==
  /\ pc[r] = "idle"
  /\ \E i \in Index : index' = [index EXCEPT ![r] = i]
  /\ Goto(r, "lookup")
  /\ answer' = [answer EXCEPT ![r] = "none"]
  /\ UNCHANGED <<cache_vars, config_vars>>

OutOfRange(r) ==
  /\ pc[r] = "lookup"
  /\ index[r] >= NFrames
  /\ Refuse(r)
  /\ UNCHANGED <<cache_vars, config_vars, index>>

Calls(label) == [lookup |-> "find", answer |-> "find again", update |-> "insert"][label]

\* A reader calls get_from_cache() or update_cache().
Enter(r) ==
  /\ pc[r] \in {"lookup", "answer", "update"}
  /\ pc[r] = "lookup" => index[r] < NFrames
  /\ Goto(r, Calls(pc[r]))
  /\ UNCHANGED <<cache_vars, config_vars, index, answer>>

\* get_from_cache() finds the frame, before or after it has been loaded,
Found(r) ==
  /\ pc[r] \in {"find", "find again"}
  /\ index[r] \in cache
  /\ Goto(r, "move")
  /\ UNCHANGED <<cache_vars, config_vars, index, answer>>

\* and has moved it to the front of the list and copied it.
Hit(r) ==
  /\ pc[r] = "move"
  /\ lru_list' = Used(lru_list, index[r])
  /\ recent' = ToFront(recent, index[r])
  /\ Answer(r, "frame")
  /\ UNCHANGED <<cache, config_vars, index>>

Miss(r) ==
  /\ pc[r] = "find"
  /\ index[r] \notin cache
  /\ Goto(r, "load")
  /\ UNCHANGED <<cache_vars, config_vars, index, answer>>

Readable(i) == i \notin Corrupt

\* load_cloud() logs what it catches and returns nullptr.
LoadFails(r) ==
  /\ pc[r] = "load"
  /\ ~Readable(index[r])
  /\ Refuse(r)
  /\ UNCHANGED <<cache_vars, config_vars, index>>

Load(r) ==
  /\ pc[r] = "load"
  /\ Readable(index[r])
  /\ Goto(r, "update")
  /\ UNCHANGED <<cache_vars, config_vars, index, answer>>

\* The end of update_cache().
UpdateCache(r) ==
  /\ pc[r] = "insert"
  /\ Evicting(cache \cup {index[r]}, ToFront(lru_list, index[r]), max_cache_size)
  /\ recent' = ToFront(recent, index[r])
  /\ Goto(r, "answer")
  /\ UNCHANGED <<config_vars, index, answer>>

\* get_from_cache() does not find what update_cache() has just put there.
Gone(r) ==
  /\ pc[r] = "find again"
  /\ index[r] \notin cache
  /\ Answer(r, "nullopt")
  /\ UNCHANGED <<cache_vars, config_vars, index>>

\* The owner configures the dataset while nobody reads.
Quiet == \A r \in Reader : pc[r] = "idle"

SetCacheSize ==
  /\ Quiet
  /\ \E n \in CacheSizes :
       /\ max_cache_size' = n
       /\ Evicting(cache, lru_list, n)
  /\ UNCHANGED <<recent, strict, pc, index, answer>>

ClearCache ==
  /\ Quiet
  /\ cache' = {} /\ lru_list' = <<>> /\ recent' = <<>>
  /\ UNCHANGED <<config_vars, pc, index, answer>>

ReadStep(r) ==
  \/ Read(r) \/ OutOfRange(r) \/ Enter(r) \/ Found(r) \/ Hit(r) \/ Miss(r)
  \/ LoadFails(r) \/ Load(r) \/ UpdateCache(r) \/ Gone(r)

Next ==
  /\ ~Racing
  /\ (\E r \in Reader : ReadStep(r)) \/ SetCacheSize \/ ClearCache

Spec == Init /\ [][Next]_vars

-------------------------------------------------------------------------------
(* Properties                                                              *)

TypeOK ==
  /\ cache \subseteq Good
  /\ lru_list \in Seq(Good) /\ recent \in Seq(Good)
  /\ max_cache_size \in CacheSizes \cup {DefaultSize} /\ strict \in BOOLEAN
  /\ pc \in [Reader -> {"idle", "lookup", "find", "load", "update", "insert", "answer",
                        "find again", "move"}]
  /\ index \in [Reader -> Index]
  /\ answer \in [Reader -> {"none", "frame", "nullopt", "throws"}]

\* As long as the readers have not raced: the list names each frame of the cache once
\* and nothing else - back() of an empty list is never taken, and every frame can be
\* evicted - there are never more than the "Maximum number of frames to keep in memory",
\* and a reader that moves a frame in the list and copies it has that frame.
ListMatchesCache ==
  /\ TypeOK
  /\ ToSet(lru_list) = cache
  /\ Len(lru_list) = Cardinality(cache)
  /\ Cardinality(cache) <= max_cache_size
  /\ Racing \/ \A r \in Reader : pc[r] = "move" => index[r] \in cache

\* What stays is what was used last: the list is the beginning of the history.
LatestKept == IsPrefix(lru_list, recent)

\* A frame that has been loaded is still there to be answered unless as many other
\* frames as the cache can hold have been used since: a reader alone with a cache
\* of at least one frame never loses it.
LostOnlyWhenOvertaken ==
  \A r \in Reader :
    pc[r] \in {"answer", "find again"} /\ index[r] \notin cache
      => index[r] \notin ToSet(SubSeq(recent, 1, max_cache_size))
===============================================================================
