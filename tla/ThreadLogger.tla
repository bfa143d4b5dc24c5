----------------------------- MODULE ThreadLogger -----------------------------
(***************************************************************************)
(* toolbox::logger::thread_logger_t: a singleton made under double-checked *)
(* locking, callers that build a message and enqueue it, one worker thread *)
(* that writes the messages to stderr, and a static shutdown().            *)
(***************************************************************************)
EXTENDS Integers, Sequences, SequenceFacts

CONSTANTS
  Caller,         \* threads that log
  Stopper,        \* callers that call shutdown() when they have logged enough
  NMessages,      \* messages are numbered; a caller logs its own in that order
  Author,         \* Author[m]: the caller that logs m
  Severity,       \* Severity[m]: the level m is logged at
  Level,          \* arguments to set_level()
  InitialLevel,   \* level_ as constructed (INFO)
  Parts,          \* insertions into the stream of a message
  Logger,         \* addresses of thread_logger_t objects
  Null

Message == 1 .. NMessages

ASSUME LoggerAssumption ==
  /\ Stopper \subseteq Caller
  /\ NMessages \in Nat /\ Parts \in Nat \ {0}
  /\ Author \in [Message -> Caller]
  /\ Level \subseteq Nat /\ InitialLevel \in Level
  /\ Severity \in [Message -> Nat]
  /\ Logger # {} /\ Null \notin Logger \cup Caller

VARIABLES
  instance_ptr, instance_mutex, shutdown_called,   \* the static members
  level, running, queue, streams,   \* of each logger; queue[l][c]: what c enqueued
  worker, hand,   \* of each logger: where processLogs() stands, log_entry_value
  pc, logger, msg,   \* of each caller: where it is, with which logger and message
  stream, part,   \* ... the stringstream it holds and the insertions made
  entry,          \* ... the string it moves into the queue
  written,        \* what has gone to stderr
  accepted,       \* accepted[c]: everything that c ever enqueued
  stopped         \* stop() has joined the worker

static_vars == <<instance_ptr, instance_mutex, shutdown_called>>
logger_vars == <<level, running, queue, streams>>
worker_vars == <<worker, hand, written>>
caller_vars == <<pc, logger, msg, stream, part, entry>>
vars == <<static_vars, logger_vars, worker_vars, caller_vars, accepted, stopped>>

\* Operators called Mutant_... are faulty variants of the definition that follows
\* them; no specification uses them.

\* A text is the sequence of the insertions it consists of.
Insertion == [message : Message, part : 1 .. Parts]
Whole(m) == [i \in 1 .. Parts |-> [message |-> m, part |-> i]]
MessageOf(text) == text[1].message
By(c, text) == Author[MessageOf(text)] = c

Init ==
  /\ instance_ptr = Null /\ instance_mutex = Null /\ shutdown_called = FALSE
  /\ level = [l \in Logger |-> InitialLevel]
  /\ running = [l \in Logger |-> FALSE]
  /\ queue = [l \in Logger |-> [c \in Caller |-> <<>>]]
  /\ streams = [l \in Logger |-> <<>>]
  /\ worker = [l \in Logger |-> "none"]
  /\ hand = [l \in Logger |-> <<>>]
  /\ pc = [c \in Caller |-> "idle"]
  /\ logger = [c \in Caller |-> Null]
  /\ msg = [c \in Caller |-> 0]
  /\ stream = [c \in Caller |-> Null]
  /\ part = [c \in Caller |-> 0]
  /\ entry = [c \in Caller |-> <<>>]
  /\ written = <<>>
  /\ accepted = [c \in Caller |-> <<>>]
  /\ stopped = FALSE

Goto(c, label) == pc' = [pc EXCEPT ![c] = label]

-------------------------------------------------------------------------------
(* instance(): every log statement begins with it                          *)

\* c begins with its next message.
LogCall(c) ==
  /\ pc[c] = "idle"
  /\ \E m \in Message :
       /\ Author[m] = c /\ m > msg[c]
       /\ \A k \in Message : Author[k] = c /\ k > msg[c] => m <= k
       /\ msg' = [msg EXCEPT ![c] = m]
  /\ Goto(c, "first_check")
  /\ UNCHANGED <<static_vars, logger_vars, worker_vars, logger, stream, part, entry, accepted, stopped>>

FirstCheck(c) ==
  /\ pc[c] = "first_check"
  /\ IF instance_ptr = Null
     THEN Goto(c, "lock") /\ UNCHANGED logger
     ELSE Goto(c, "have") /\ logger' = [logger EXCEPT ![c] = instance_ptr]
  /\ UNCHANGED <<static_vars, logger_vars, worker_vars, msg, stream, part, entry, accepted, stopped>>

Lock(c) ==
  /\ pc[c] = "lock"
  /\ instance_mutex = Null
  /\ instance_mutex' = c
  /\ Goto(c, "second_check")
  /\ UNCHANGED <<instance_ptr, shutdown_called, logger_vars, worker_vars, logger, msg, stream, part,
                 entry, accepted, stopped>>

StillThere == instance_ptr # Null

\* Another caller has made the logger in the meantime.
SecondCheck(c) ==
  /\ pc[c] = "second_check"
  /\ StillThere
  /\ logger' = [logger EXCEPT ![c] = instance_ptr]
  /\ instance_mutex' = Null
  /\ Goto(c, "have")
  /\ UNCHANGED <<instance_ptr, shutdown_called, logger_vars, worker_vars, msg, stream, part, entry,
                 accepted, stopped>>

\* The constructor starts the worker.  The streams it puts into the pool are as
\* good as those acquire() makes when the pool is empty.
Construct(c) ==
  /\ pc[c] = "second_check"
  /\ ~StillThere
  /\ LET l == CHOOSE i \in Logger : worker[i] = "none"
     IN  /\ logger' = [logger EXCEPT ![c] = l]
         /\ running' = [running EXCEPT ![l] = TRUE]
         /\ worker' = [worker EXCEPT ![l] = "test"]
  /\ Goto(c, "publish")
  /\ UNCHANGED <<static_vars, level, queue, streams, hand, written, msg, stream, part, entry,
                 accepted, stopped>>

\* The store and the end of the lock_guard.
Publish(c) ==
  /\ pc[c] = "publish"
  /\ instance_ptr' = logger[c]
  /\ instance_mutex' = Null
  /\ Goto(c, "have")
  /\ UNCHANGED <<shutdown_called, logger_vars, worker_vars, logger, msg, stream, part, entry,
                 accepted, stopped>>

\* The reference stays good for set_level().
SetLevel(c) ==
  /\ pc[c] = "idle" /\ logger[c] # Null
  /\ \E v \in Level : level' = [level EXCEPT ![logger[c]] = v]
  /\ UNCHANGED <<static_vars, running, queue, streams, worker_vars, caller_vars, accepted, stopped>>

Enabled(c) == Severity[msg[c]] >= level[logger[c]]

-------------------------------------------------------------------------------
(* A message: info_s() << ... ; or info_f()(format, ...)                   *)

\* acquire(): a pooled stringstream or a new one.
AcquireStream(c) ==
  /\ pc[c] = "have"
  /\ LET pool == streams[logger[c]]
     IN  IF pool = <<>>
         THEN stream' = [stream EXCEPT ![c] = <<>>] /\ UNCHANGED streams
         ELSE /\ stream' = [stream EXCEPT ![c] = Head(pool)]
              /\ streams' = [streams EXCEPT ![logger[c]] = Tail(pool)]
  /\ part' = [part EXCEPT ![c] = 0]
  /\ Goto(c, "insert")
  /\ UNCHANGED <<static_vars, level, running, queue, worker_vars, logger, msg, entry, accepted, stopped>>

\* operator<< is silent when the level forbids it; red(), bold(), ... never are.
Insert(c) ==
  /\ pc[c] = "insert"
  /\ part[c] < Parts
  /\ part' = [part EXCEPT ![c] = @ + 1]
  /\ \E coloured \in BOOLEAN :
       stream' = IF Enabled(c) \/ coloured
                 THEN [stream EXCEPT ![c] = Append(@, [message |-> msg[c], part |-> part'[c]])]
                 ELSE stream
  /\ UNCHANGED <<static_vars, logger_vars, worker_vars, pc, logger, msg, entry, accepted, stopped>>

\* ~thread_stream_logger_t: the level is tested once more.
EndOfStatement(c) ==
  /\ pc[c] = "insert"
  /\ part[c] = Parts
  /\ IF Enabled(c) /\ stream[c] # <<>>
     THEN Goto(c, "enqueue") /\ entry' = [entry EXCEPT ![c] = stream[c]]
     ELSE Goto(c, "release") /\ UNCHANGED entry
  /\ UNCHANGED <<static_vars, logger_vars, worker_vars, logger, msg, stream, part, accepted, stopped>>

\* thread_format_logger_t::operator().
Format(c) ==
  /\ pc[c] = "have"
  /\ IF Enabled(c)
     THEN Goto(c, "enqueue") /\ entry' = [entry EXCEPT ![c] = Whole(msg[c])]
     ELSE Goto(c, "idle") /\ UNCHANGED entry
  /\ UNCHANGED <<static_vars, logger_vars, worker_vars, logger, msg, stream, part, accepted, stopped>>

Enqueue(c) ==
  /\ pc[c] = "enqueue"
  /\ queue' = [queue EXCEPT ![logger[c]][c] = Append(@, entry[c])]
  /\ accepted' = [accepted EXCEPT ![c] = Append(@, entry[c])]
  /\ entry' = [entry EXCEPT ![c] = <<>>]
  /\ Goto(c, IF stream[c] = Null THEN "idle" ELSE "release")
  /\ UNCHANGED <<static_vars, level, running, streams, worker_vars, logger, msg, stream, part, stopped>>

Mutant_Keep(text) == text
Reset(text) == <<>>

\* PoolDeleter: the resetter, then back into the pool.
ReleaseStream(c) ==
  /\ pc[c] = "release"
  /\ streams' = [streams EXCEPT ![logger[c]] = Append(@, Reset(stream[c]))]
  /\ stream' = [stream EXCEPT ![c] = Null]
  /\ Goto(c, "idle")
  /\ UNCHANGED <<static_vars, level, running, queue, worker_vars, logger, msg, part, entry, accepted, stopped>>

-------------------------------------------------------------------------------
(* processLogs().  running_ only ever falls, so the tests that follow one  *)
(* another in the code are the last of them.                               *)

TestRunning(l) ==
  /\ worker[l] = "test"
  /\ worker' = [worker EXCEPT ![l] = IF running[l] THEN "wait" ELSE "exited"]
  /\ UNCHANGED <<static_vars, logger_vars, hand, written, caller_vars, accepted, stopped>>

\* Messages of one producer come out in order, of several in any order.
Dequeue(l) ==
  /\ worker[l] = "wait"
  /\ \E c \in Caller :
       /\ queue[l][c] # <<>>
       /\ hand' = [hand EXCEPT ![l] = Head(queue[l][c])]
       /\ queue' = [queue EXCEPT ![l][c] = Tail(@)]
  /\ worker' = [worker EXCEPT ![l] = "write"]
  /\ UNCHANGED <<static_vars, level, running, streams, written, caller_vars, accepted, stopped>>

Mutant_GiveUp == "exited"
AfterTimeout == "test"

\* 100 ms without a message.
Timeout(l) ==
  /\ worker[l] = "wait"
  /\ \A c \in Caller : queue[l][c] = <<>>
  /\ worker' = [worker EXCEPT ![l] = AfterTimeout]
  /\ UNCHANGED <<static_vars, logger_vars, hand, written, caller_vars, accepted, stopped>>

Mutant_TestFirst(l) == IF running[l] THEN Append(written, hand[l]) ELSE written
Out(l) == Append(written, hand[l])

Write(l) ==
  /\ worker[l] = "write"
  /\ written' = Out(l)
  /\ hand' = [hand EXCEPT ![l] = <<>>]
  /\ worker' = [worker EXCEPT ![l] = "test"]
  /\ UNCHANGED <<static_vars, logger_vars, caller_vars, accepted, stopped>>

-------------------------------------------------------------------------------
(* shutdown().  Its 100 ms of sleep order nothing.  The program ends after *)
(* it, but other threads and static destructors may log on.                *)

Shutdown(c) ==
  /\ c \in Stopper /\ pc[c] = "idle"
  /\ Goto(c, "exchange")
  /\ UNCHANGED <<static_vars, logger_vars, worker_vars, logger, msg, stream, part, entry, accepted, stopped>>

Exchange(c) ==
  /\ pc[c] = "exchange"
  /\ shutdown_called' = TRUE
  /\ Goto(c, IF shutdown_called THEN "done" ELSE "load")
  /\ UNCHANGED <<instance_ptr, instance_mutex, logger_vars, worker_vars, logger, msg, stream, part,
                 entry, accepted, stopped>>

LoadInstance(c) ==
  /\ pc[c] = "load"
  /\ IF instance_ptr = Null
     THEN Goto(c, "done") /\ UNCHANGED logger
     ELSE Goto(c, "stop") /\ logger' = [logger EXCEPT ![c] = instance_ptr]
  /\ UNCHANGED <<static_vars, logger_vars, worker_vars, msg, stream, part, entry, accepted, stopped>>

NotRunning(l) == [running EXCEPT ![l] = FALSE]

Stop(c) ==
  /\ pc[c] = "stop"
  /\ Goto(c, IF running[logger[c]] THEN "join" ELSE "done")
  /\ running' = NotRunning(logger[c])
  /\ UNCHANGED <<static_vars, level, queue, streams, worker_vars, logger, msg, stream, part, entry,
                 accepted, stopped>>

Mutant_Detached(l) == TRUE
Joinable(l) == worker[l] = "exited"

Join(c) ==
  /\ pc[c] = "join"
  /\ Joinable(logger[c])
  /\ stopped' = TRUE
  /\ Goto(c, "done")
  /\ UNCHANGED <<static_vars, logger_vars, worker_vars, logger, msg, stream, part, entry, accepted>>

-------------------------------------------------------------------------------
CallStep(c) ==
  \/ FirstCheck(c) \/ Lock(c) \/ SecondCheck(c) \/ Construct(c) \/ Publish(c)
  \/ AcquireStream(c) \/ Insert(c) \/ EndOfStatement(c) \/ Format(c)
  \/ Enqueue(c) \/ ReleaseStream(c)
  \/ Exchange(c) \/ LoadInstance(c) \/ Stop(c) \/ Join(c)

WorkerStep(l) == TestRunning(l) \/ Dequeue(l) \/ Timeout(l) \/ Write(l)

Next ==
  \/ \E c \in Caller : LogCall(c) \/ SetLevel(c) \/ Shutdown(c) \/ CallStep(c)
  \/ \E l \in Logger : WorkerStep(l)

Spec == Init /\ [][Next]_vars

\* Threads are scheduled; nobody has to log, to change the level or to shut down.
FairSpec ==
  /\ Spec
  /\ \A c \in Caller : WF_vars(CallStep(c))
  /\ \A l \in Logger : WF_vars(WorkerStep(l))

-------------------------------------------------------------------------------
(* Properties                                                              *)

CallerLabel == {"idle", "first_check", "lock", "second_check", "publish", "have", "insert",
                "enqueue", "release", "exchange", "load", "stop", "join", "done"}
WorkerLabel == {"none", "test", "wait", "write", "exited"}

TypeOK ==
  /\ instance_ptr \in Logger \cup {Null} /\ instance_mutex \in Caller \cup {Null}
  /\ shutdown_called \in BOOLEAN /\ stopped \in BOOLEAN
  /\ level \in [Logger -> Level] /\ running \in [Logger -> BOOLEAN]
  /\ queue \in [Logger -> [Caller -> Seq(Seq(Insertion))]]
  /\ streams \in [Logger -> Seq({<<>>})]
  /\ worker \in [Logger -> WorkerLabel]
  /\ hand \in [Logger -> Seq(Insertion)]
  /\ pc \in [Caller -> CallerLabel]
  /\ logger \in [Caller -> Logger \cup {Null}] /\ msg \in [Caller -> 0 .. NMessages]
  /\ \A c \in Caller : stream[c] = Null \/ stream[c] \in Seq(Insertion)
  /\ part \in [Caller -> 0 .. Parts] /\ entry \in [Caller -> Seq(Insertion)]
  /\ written \in Seq(Seq(Insertion)) /\ accepted \in [Caller -> Seq(Seq(Insertion))]

\* However many callers race for the first instance(), they all get the same logger
\* and there is one worker.
OneLogger ==
  /\ \A c \in Caller : pc[c] \in {"have", "insert", "enqueue", "release"} => logger[c] = instance_ptr
  /\ \A k, l \in Logger : worker[k] # "none" /\ worker[l] # "none" => k = l

\* There is one logger, and what c has enqueued is written, in the worker's hand, or in
\* its queue: in c's order, each message once, none dropped.
From(c, texts) == Without(texts, {text \in Seq(Insertion) : ~By(c, text)})
InHand(l) == IF hand[l] = <<>> THEN <<>> ELSE <<hand[l]>>
Kept ==
  /\ TypeOK /\ OneLogger
  /\ \A c \in Caller : \A l \in Logger : l = logger[c] =>
       accepted[c] = From(c, written) \o From(c, InHand(l)) \o queue[l][c]

\* A line holds insertions of one message, in order, nothing of the message that
\* used the stringstream before.
LinesUnmixed ==
  \A j \in DOMAIN written :
    \A a, b \in DOMAIN written[j] :
      /\ written[j][a].message = written[j][b].message
      /\ a < b => written[j][a].part < written[j][b].part

\* When stop() has joined the worker, nothing more goes to stderr.
SilentOnceStopped == [][stopped => written' = written]_vars

\* shutdown() returns, however busy the other callers keep the worker, and a message
\* that reaches the queue is written, unless the logger is stopped.
ShutdownReturns == \A c \in Stopper : pc[c] = "exchange" ~> pc[c] = "done"
QueuedIsWritten ==
  /\ ShutdownReturns
  /\ \A l \in Logger : \A c \in Caller :
       queue[l][c] # <<>> ~> (queue[l][c] = <<>> /\ hand[l] = <<>>) \/ ~running[l]
===============================================================================
