------------------------------ MODULE MappedFile ------------------------------
(***************************************************************************)
(* toolbox::file::memory_mapped_file_t on POSIX: open() asks for the size  *)
(* of the file, opens it and maps as many bytes as it had been told; the   *)
(* file may change between these calls.  close() and the destructor give   *)
(* back what open() got.                                                   *)
(***************************************************************************)
EXTENDS Integers, FiniteSets

CONSTANTS
  Sizes,       \* sizes that the file can have
  Descriptors, \* numbers that ::open() can return
  Addresses    \* what mmap() can return

None == -1     \* no descriptor, no mapping; as a size: there is no file

VARIABLES
  file_size,
  m_mapped_ptr, m_mapped_size, m_fd,
  step,        \* where open() is: size, open, map; or closed, mapped, destroyed
  fds,         \* the process's open descriptors
  mappings     \* [Addresses -> 0 or the length of what is mapped there]

mapped_vars == <<m_mapped_ptr, m_mapped_size, m_fd, step, fds, mappings>>

InitMapped ==
  /\ m_mapped_ptr = None /\ m_mapped_size = 0 /\ m_fd = None
  /\ step = "closed"
  /\ fds = {} /\ mappings = [a \in Addresses |-> 0]

Init == InitMapped /\ file_size \in Sizes \cup {None}

\* munmap() takes the length from m_mapped_size; one that is too short leaves the rest.
CloseNow ==
  /\ mappings' = IF m_mapped_ptr = None THEN mappings
                 ELSE [mappings EXCEPT ![m_mapped_ptr] = IF @ > m_mapped_size THEN @ - m_mapped_size ELSE 0]
  /\ fds' = fds \ {m_fd}
  /\ m_mapped_ptr' = None /\ m_mapped_size' = 0 /\ m_fd' = None

Close ==
  /\ step \in {"closed", "mapped"}
  /\ CloseNow
  /\ step' = "closed"

Destroy ==
  /\ step \in {"closed", "mapped"}
  /\ CloseNow
  /\ step' = "destroyed"

Open ==
  /\ step \in {"closed", "mapped"}
  /\ CloseNow
  /\ step' = "size"

\* file_size() fails, or the file is empty.
NoSize ==
  /\ step = "size"
  /\ step' = "closed"
  /\ UNCHANGED <<m_mapped_ptr, m_mapped_size, m_fd, fds, mappings>>

Sized ==
  /\ step = "size"
  /\ file_size > 0
  /\ m_mapped_size' = file_size
  /\ step' = "open"
  /\ UNCHANGED <<m_mapped_ptr, m_fd, fds, mappings>>

OpenFails ==
  /\ step = "open"
  /\ m_mapped_size' = 0
  /\ step' = "closed"
  /\ UNCHANGED <<m_mapped_ptr, m_fd, fds, mappings>>

Opened ==
  /\ step = "open"
  /\ file_size # None
  /\ m_fd' \in Descriptors \ fds
  /\ fds' = fds \cup {m_fd'}
  /\ step' = "map"
  /\ UNCHANGED <<m_mapped_ptr, m_mapped_size, mappings>>

FdsAfterMapFails == fds \ {m_fd}

MapFails ==
  /\ step = "map"
  /\ fds' = FdsAfterMapFails
  /\ m_fd' = None /\ m_mapped_size' = 0
  /\ step' = "closed"
  /\ UNCHANGED <<m_mapped_ptr, mappings>>

\* mmap() maps what it is asked for, the file may be shorter by now.
Mapped ==
  /\ step = "map"
  /\ m_mapped_ptr' \in {a \in Addresses : mappings[a] = 0}
  /\ mappings' = [mappings EXCEPT ![m_mapped_ptr'] = m_mapped_size]
  /\ step' = "mapped"
  /\ UNCHANGED <<m_mapped_size, m_fd, fds>>

\* What is thrown on the way, by a log message for one, ends in close().
Throws ==
  /\ step \in {"size", "open", "map"}
  /\ CloseNow
  /\ step' = "closed"

OpenStep == NoSize \/ Sized \/ OpenFails \/ Opened \/ MapFails \/ Mapped \/ Throws

FileChanges == file_size' \in Sizes \cup {None} /\ UNCHANGED mapped_vars

Next ==
  \/ (Open \/ OpenStep \/ Close \/ Destroy) /\ UNCHANGED file_size
  \/ FileChanges

Spec == Init /\ [][Next]_<<file_size, mapped_vars>>

-------------------------------------------------------------------------------
(* Properties                                                              *)

TypeOK ==
  /\ m_mapped_ptr \in Addresses \cup {None} /\ m_mapped_size \in Nat /\ m_fd \in Descriptors \cup {None}
  /\ step \in {"closed", "size", "open", "map", "mapped", "destroyed"}
  /\ fds \subseteq Descriptors /\ mappings \in [Addresses -> Nat]

Live == {a \in Addresses : mappings[a] # 0}

\* Between calls the object is closed and has nothing, or it has a mapping of the size
\* it tells and one descriptor; the process has nothing else, whichever call of open()
\* failed and however often it was called: nothing leaks.
ResourcesAccounted ==
  /\ TypeOK
  /\ step # "mapped" => Live = {}
  /\ step \notin {"mapped", "map"} => fds = {} /\ m_fd = None
  /\ step \in {"closed", "destroyed"} => m_mapped_ptr = None /\ m_mapped_size = 0
  /\ step = "mapped" =>
       /\ Live = {m_mapped_ptr} /\ mappings[m_mapped_ptr] = m_mapped_size /\ m_mapped_size > 0
       /\ fds = {m_fd}
===============================================================================
