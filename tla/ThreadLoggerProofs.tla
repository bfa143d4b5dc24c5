--------------------------- MODULE ThreadLoggerProofs ---------------------------
(***************************************************************************)
(* Theorems about ThreadLogger for any number of callers, stoppers,        *)
(* messages and insertions.                                                *)
(***************************************************************************)
EXTENDS ThreadLogger, SequenceFacts

-------------------------------------------------------------------------------
(* The inductive invariant, in parts.                                      *)

Typed == TypeOK /\ stream \in [Caller -> {Null} \cup Seq(Insertion)]

Made(l) == worker[l] # "none"

\* Double-checked locking: who is in the critical section holds the mutex, and a logger
\* that has been made is published or about to be.
Locked ==
  /\ \A c \in Caller : pc[c] \in {"second_check", "publish"} <=> instance_mutex = c
  /\ \A c \in Caller : pc[c] = "publish" => instance_ptr = Null /\ logger[c] # Null
  /\ \A c \in Caller : pc[c] # "publish" => logger[c] \in {Null, instance_ptr}
  /\ \A c \in Caller : pc[c] \in {"have", "insert", "enqueue", "release", "stop", "join"} =>
       instance_ptr # Null /\ logger[c] = instance_ptr
  /\ \A l \in Logger : Made(l) <=> l = instance_ptr \/ \E c \in Caller : pc[c] = "publish" /\ logger[c] = l

\* A line of the message m.
InsertedInOrder(text) ==
  \A a, b \in DOMAIN text : /\ text[a].message = text[b].message
                            /\ a < b => text[a].part < text[b].part
Line(c, text) == text \in Seq(Insertion) /\ text # <<>> /\ InsertedInOrder(text) /\ By(c, text)

\* What a caller builds, and everything it has enqueued, is of one of its messages.
Building(c) ==
  /\ pc[c] \in {"first_check", "lock", "second_check", "publish", "have", "insert"} =>
       msg[c] \in Message /\ Author[msg[c]] = c
  /\ pc[c] = "insert" =>
       /\ stream[c] \in Seq(Insertion)
       /\ \A a \in DOMAIN stream[c] : stream[c][a].message = msg[c] /\ stream[c][a].part <= part[c]
       /\ InsertedInOrder(stream[c])
  /\ pc[c] = "enqueue" => Line(c, entry[c])

LinesOnTheWay ==
  /\ \A l \in Logger, c \in Caller : \A i \in DOMAIN queue[l][c] : Line(c, queue[l][c][i])
  /\ \A l \in Logger : worker[l] = "write" => \E c \in Caller : Line(c, hand[l])
  /\ \A j \in DOMAIN written : \E c \in Caller : Line(c, written[j])
Lines == (\A c \in Caller : Building(c)) /\ LinesOnTheWay

\* Nothing is lost or reordered on the way.
OnTheWay(l, c) == From(c, written) \o From(c, InHand(l)) \o queue[l][c]
NothingYet ==
  /\ \A l \in Logger : ~Made(l) => \A c \in Caller : queue[l][c] = <<>>
  /\ (\A l \in Logger : ~Made(l)) => written = <<>> /\ \A c \in Caller : accepted[c] = <<>>
Flow ==
  /\ \A l \in Logger : hand[l] # <<>> <=> worker[l] = "write"
  /\ NothingYet
  /\ \A l \in Logger : Made(l) => \A c \in Caller : accepted[c] = OnTheWay(l, c)

Silent == stopped => instance_ptr # Null /\ \A l \in Logger : worker[l] \in {"none", "exited"}

LoggerInv == Typed /\ Locked /\ Lines /\ Flow /\ Silent

-------------------------------------------------------------------------------
(* Types.                                                                  *)

LEMMA HasLogger ==
  ASSUME Typed, Locked, NEW c \in Caller,
         pc[c] \in {"have", "insert", "enqueue", "release", "stop", "join"}
  PROVE  logger[c] \in Logger /\ Made(logger[c]) /\ logger[c] = instance_ptr
BY DEF Typed, TypeOK, Locked

\* Who logs a message has one, and it is one of its own.
LEMMA WholeFacts ==
  ASSUME NEW m \in Message
  PROVE  /\ Whole(m) \in Seq(Insertion) /\ Whole(m) # <<>> /\ InsertedInOrder(Whole(m))
         /\ MessageOf(Whole(m)) = m
<1>1. Parts \in Nat /\ 1 \in 1 .. Parts
  BY LoggerAssumption
<1>2. \A i \in 1 .. Parts : [message |-> m, part |-> i] \in Insertion
  BY DEF Insertion
<1>3. Whole(m) \in [1 .. Parts -> Insertion]
  BY <1>2 DEF Whole
<1>4. Whole(m) \in Seq(Insertion) /\ Len(Whole(m)) = Parts /\ DOMAIN Whole(m) = 1 .. Parts
  BY <1>1, <1>3
<1>5. \A i \in 1 .. Parts : Whole(m)[i].message = m /\ Whole(m)[i].part = i
  BY DEF Whole
<1>6. Whole(m) # <<>>
  BY <1>1, <1>4
<1> QED BY <1>1, <1>4, <1>5, <1>6 DEF InsertedInOrder, MessageOf

\* Who finds no logger under the lock makes the first one.
LEMMA SomeLogger ==
  ASSUME Locked, NEW c \in Caller, pc[c] = "second_check", ~StillThere
  PROVE  /\ \A l \in Logger : worker[l] = "none"
         /\ (CHOOSE i \in Logger : worker[i] = "none") \in Logger
<1>1. \A d \in Caller : pc[d] # "publish"
  BY LoggerAssumption DEF Locked
<1>2. \A l \in Logger : worker[l] = "none"
  BY <1>1, LoggerAssumption DEF Locked, Made, StillThere
<1>3. \E i \in Logger : worker[i] = "none"
  BY <1>2, LoggerAssumption
<1> QED BY <1>2, <1>3

LEMMA TypedStep ==
  ASSUME LoggerInv, [Next]_vars
  PROVE  Typed'
<1> USE DEF Typed, TypeOK, CallerLabel, WorkerLabel, static_vars, logger_vars, worker_vars, caller_vars
<1>0. Typed /\ Locked /\ \A c \in Caller : Building(c)
  BY DEF LoggerInv, Lines
<1>1. ASSUME NEW c \in Caller, LogCall(c)
      PROVE  Typed'
  <2>1. PICK m \in Message : msg' = [msg EXCEPT ![c] = m]
    BY <1>1 DEF LogCall
  <2>2. m \in 0 .. NMessages
    BY LoggerAssumption DEF Message
  <2> QED BY <1>0, <1>1, <2>1, <2>2 DEF LogCall, Goto
<1>2. ASSUME NEW c \in Caller, SetLevel(c)
      PROVE  Typed'
  BY <1>0, <1>2 DEF SetLevel
<1>3. ASSUME NEW c \in Caller, Shutdown(c)
      PROVE  Typed'
  BY <1>0, <1>3 DEF Shutdown, Goto
<1>4. ASSUME NEW c \in Caller, FirstCheck(c)
      PROVE  Typed'
  BY <1>0, <1>4 DEF FirstCheck, Goto
<1>5. ASSUME NEW c \in Caller, Lock(c)
      PROVE  Typed'
  BY <1>0, <1>5 DEF Lock, Goto
<1>6. ASSUME NEW c \in Caller, SecondCheck(c)
      PROVE  Typed'
  BY <1>0, <1>6 DEF SecondCheck, Goto
<1>7. ASSUME NEW c \in Caller, Construct(c)
      PROVE  Typed'
  BY <1>0, <1>7, SomeLogger DEF Construct, Goto
<1>8. ASSUME NEW c \in Caller, Publish(c)
      PROVE  Typed'
  BY <1>0, <1>8 DEF Publish, Goto
<1>9. ASSUME NEW c \in Caller, AcquireStream(c)
      PROVE  Typed'
  <2>1. logger[c] \in Logger /\ streams[logger[c]] \in Seq({<<>>}) /\ <<>> \in Seq(Insertion)
    BY <1>0, <1>9, HasLogger DEF AcquireStream
  <2>2. /\ stream' = [stream EXCEPT ![c] = <<>>]
        /\ streams' \in [Logger -> Seq({<<>>})]
    <3>1. CASE streams[logger[c]] = <<>>
      BY <1>0, <1>9, <3>1 DEF AcquireStream
    <3>2. CASE streams[logger[c]] # <<>>
      <4>1. Head(streams[logger[c]]) = <<>> /\ Tail(streams[logger[c]]) \in Seq({<<>>})
        BY <2>1, <3>2
      <4> QED BY <1>0, <1>9, <3>2, <4>1 DEF AcquireStream
    <3> QED BY <3>1, <3>2
  <2>3. stream' \in [Caller -> {Null} \cup Seq(Insertion)]
    BY <1>0, <2>1, <2>2
  <2>4. /\ part' = [part EXCEPT ![c] = 0] /\ pc' = [pc EXCEPT ![c] = "insert"]
        /\ UNCHANGED <<static_vars, level, running, queue, worker_vars, logger, msg, entry,
                       accepted, stopped>>
    BY <1>9 DEF AcquireStream, Goto
  <2>5. 0 \in 0 .. Parts
    BY LoggerAssumption
  <2> QED BY <1>0, <2>2, <2>3, <2>4, <2>5
<1>10. ASSUME NEW c \in Caller, Insert(c)
       PROVE  Typed'
  <2>1. /\ stream[c] \in Seq(Insertion) /\ msg[c] \in Message
        /\ part[c] \in 0 .. Parts /\ part[c] < Parts /\ Parts \in Nat
    BY <1>0, <1>10, LoggerAssumption DEF Insert, Building
  <2>2. part' = [part EXCEPT ![c] = part[c] + 1] /\ part[c] + 1 \in 1 .. Parts
    BY <1>10, <2>1 DEF Insert
  <2>3. part' \in [Caller -> 0 .. Parts] /\ part'[c] \in 1 .. Parts
    BY <1>0, <2>1, <2>2
  <2>4. [message |-> msg[c], part |-> part'[c]] \in Insertion
    BY <2>1, <2>3 DEF Insertion
  <2>5. stream' = stream \/ stream' = [stream EXCEPT ![c] = Append(stream[c], [message |-> msg[c], part |-> part'[c]])]
    BY <1>10 DEF Insert
  <2>6. Append(stream[c], [message |-> msg[c], part |-> part'[c]]) \in Seq(Insertion)
    BY <2>1, <2>4
  <2>7. stream' \in [Caller -> {Null} \cup Seq(Insertion)]
    BY <1>0, <2>5, <2>6
  <2> QED BY <1>0, <1>10, <2>3, <2>7 DEF Insert
<1>11. ASSUME NEW c \in Caller, EndOfStatement(c)
       PROVE  Typed'
  <2>1. stream[c] \in Seq(Insertion)
    BY <1>0, <1>11 DEF EndOfStatement, Building
  <2> QED BY <1>0, <1>11, <2>1 DEF EndOfStatement, Goto
<1>12. ASSUME NEW c \in Caller, Format(c)
       PROVE  Typed'
  <2>1. Whole(msg[c]) \in Seq(Insertion)
    BY <1>0, <1>12, WholeFacts DEF Format, Building
  <2> QED BY <1>0, <1>12, <2>1 DEF Format, Goto
<1>13. ASSUME NEW c \in Caller, Enqueue(c)
       PROVE  Typed'
  <2>1. logger[c] \in Logger
    BY <1>0, <1>13, HasLogger DEF Enqueue
  <2>2. /\ Append(queue[logger[c]][c], entry[c]) \in Seq(Seq(Insertion))
        /\ Append(accepted[c], entry[c]) \in Seq(Seq(Insertion))
    BY <1>0, <2>1
  <2>3. /\ queue' = [queue EXCEPT ![logger[c]][c] = Append(queue[logger[c]][c], entry[c])]
        /\ accepted' = [accepted EXCEPT ![c] = Append(accepted[c], entry[c])]
    BY <1>13 DEF Enqueue
  <2>4. /\ queue' \in [Logger -> [Caller -> Seq(Seq(Insertion))]]
        /\ accepted' \in [Caller -> Seq(Seq(Insertion))]
    BY <1>0, <2>1, <2>2, <2>3
  <2> QED BY <1>0, <1>13, <2>4 DEF Enqueue, Goto
<1>14. ASSUME NEW c \in Caller, ReleaseStream(c)
       PROVE  Typed'
  <2>1. logger[c] \in Logger
    BY <1>0, <1>14, HasLogger DEF ReleaseStream
  <2>2. Append(streams[logger[c]], <<>>) \in Seq({<<>>})
    BY <1>0, <2>1
  <2>3. streams' = [streams EXCEPT ![logger[c]] = Append(streams[logger[c]], <<>>)]
    BY <1>14 DEF ReleaseStream, Reset
  <2>4. streams' \in [Logger -> Seq({<<>>})]
    BY <1>0, <2>2, <2>3
  <2> QED BY <1>0, <1>14, <2>4 DEF ReleaseStream, Goto
<1>15. ASSUME NEW c \in Caller, Exchange(c)
       PROVE  Typed'
  BY <1>0, <1>15 DEF Exchange, Goto
<1>16. ASSUME NEW c \in Caller, LoadInstance(c)
       PROVE  Typed'
  BY <1>0, <1>16 DEF LoadInstance, Goto
<1>17. ASSUME NEW c \in Caller, Stop(c)
       PROVE  Typed'
  BY <1>0, <1>17, HasLogger DEF Stop, Goto, NotRunning
<1>18. ASSUME NEW c \in Caller, Join(c)
       PROVE  Typed'
  BY <1>0, <1>18 DEF Join, Goto, Joinable
<1>19. ASSUME NEW l \in Logger, TestRunning(l)
       PROVE  Typed'
  BY <1>0, <1>19 DEF TestRunning
<1>20. ASSUME NEW l \in Logger, Dequeue(l)
       PROVE  Typed'
  <2>1. PICK c \in Caller : /\ queue[l][c] # <<>>
                            /\ hand' = [hand EXCEPT ![l] = Head(queue[l][c])]
                            /\ queue' = [queue EXCEPT ![l][c] = Tail(queue[l][c])]
    BY <1>20 DEF Dequeue
  <2>2. queue[l][c] \in Seq(Seq(Insertion))
    BY <1>0
  <2>3. Head(queue[l][c]) \in Seq(Insertion) /\ Tail(queue[l][c]) \in Seq(Seq(Insertion))
    BY <2>1, <2>2
  <2>4. queue' \in [Logger -> [Caller -> Seq(Seq(Insertion))]] /\ hand' \in [Logger -> Seq(Insertion)]
    BY <1>0, <2>1, <2>3
  <2> QED BY <1>0, <1>20, <2>4 DEF Dequeue
<1>21. ASSUME NEW l \in Logger, Timeout(l)
       PROVE  Typed'
  BY <1>0, <1>21 DEF Timeout, AfterTimeout
<1>22. ASSUME NEW l \in Logger, Write(l)
       PROVE  Typed'
  BY <1>0, <1>22 DEF Write, Out
<1>23. CASE UNCHANGED vars
  BY <1>0, <1>23 DEF vars
<1> QED
  BY <1>1, <1>2, <1>3, <1>4, <1>5, <1>6, <1>7, <1>8, <1>9, <1>10, <1>11, <1>12, <1>13, <1>14, <1>15, <1>16,
     <1>17, <1>18, <1>19, <1>20, <1>21, <1>22, <1>23
  DEF Next, CallStep, WorkerStep

-------------------------------------------------------------------------------
(* Double-checked locking.                                                 *)

LEMMA LockedStep ==
  ASSUME LoggerInv, [Next]_vars
  PROVE  Locked'
<1> USE DEF Locked, Made, static_vars, logger_vars, worker_vars, caller_vars
<1>0. /\ Locked
      /\ pc \in [Caller -> CallerLabel] /\ logger \in [Caller -> Logger \cup {Null}]
      /\ worker \in [Logger -> WorkerLabel]
      /\ instance_ptr \in Logger \cup {Null} /\ instance_mutex \in Caller \cup {Null}
      /\ Null \notin Logger \cup Caller
  BY LoggerAssumption DEF LoggerInv, Typed, TypeOK
<1>1. ASSUME NEW c \in Caller, LogCall(c)
      PROVE  Locked'
  BY <1>0, <1>1 DEF LogCall, Goto
<1>2. ASSUME NEW c \in Caller, SetLevel(c)
      PROVE  Locked'
  BY <1>0, <1>2 DEF SetLevel
<1>3. ASSUME NEW c \in Caller, Shutdown(c)
      PROVE  Locked'
  BY <1>0, <1>3 DEF Shutdown, Goto
<1>4. ASSUME NEW c \in Caller, FirstCheck(c)
      PROVE  Locked'
  BY <1>0, <1>4 DEF FirstCheck, Goto
<1>5. ASSUME NEW c \in Caller, Lock(c)
      PROVE  Locked'
  BY <1>0, <1>5 DEF Lock, Goto
<1>6. ASSUME NEW c \in Caller, SecondCheck(c)
      PROVE  Locked'
  BY <1>0, <1>6 DEF SecondCheck, Goto, StillThere
<1>7. ASSUME NEW c \in Caller, Construct(c)
      PROVE  Locked'
  BY <1>0, <1>7, SomeLogger DEF Construct, Goto, StillThere
<1>8. ASSUME NEW c \in Caller, Publish(c)
      PROVE  Locked'
  BY <1>0, <1>8 DEF Publish, Goto
<1>9. ASSUME NEW c \in Caller, AcquireStream(c)
      PROVE  Locked'
  BY <1>0, <1>9 DEF AcquireStream, Goto
<1>10. ASSUME NEW c \in Caller, Insert(c)
       PROVE  Locked'
  BY <1>0, <1>10 DEF Insert
<1>11. ASSUME NEW c \in Caller, EndOfStatement(c)
       PROVE  Locked'
  BY <1>0, <1>11 DEF EndOfStatement, Goto
<1>12. ASSUME NEW c \in Caller, Format(c)
       PROVE  Locked'
  BY <1>0, <1>12 DEF Format, Goto
<1>13. ASSUME NEW c \in Caller, Enqueue(c)
       PROVE  Locked'
  BY <1>0, <1>13 DEF Enqueue, Goto
<1>14. ASSUME NEW c \in Caller, ReleaseStream(c)
       PROVE  Locked'
  BY <1>0, <1>14 DEF ReleaseStream, Goto
<1>15. ASSUME NEW c \in Caller, Exchange(c)
       PROVE  Locked'
  BY <1>0, <1>15 DEF Exchange, Goto
<1>16. ASSUME NEW c \in Caller, LoadInstance(c)
       PROVE  Locked'
  BY <1>0, <1>16 DEF LoadInstance, Goto
<1>17. ASSUME NEW c \in Caller, Stop(c)
       PROVE  Locked'
  BY <1>0, <1>17 DEF Stop, Goto
<1>18. ASSUME NEW c \in Caller, Join(c)
       PROVE  Locked'
  BY <1>0, <1>18 DEF Join, Goto
<1>19. ASSUME NEW l \in Logger, TestRunning(l)
       PROVE  Locked'
  BY <1>0, <1>19 DEF TestRunning
<1>20. ASSUME NEW l \in Logger, Dequeue(l)
       PROVE  Locked'
  BY <1>0, <1>20 DEF Dequeue
<1>21. ASSUME NEW l \in Logger, Timeout(l)
       PROVE  Locked'
  BY <1>0, <1>21 DEF Timeout, AfterTimeout
<1>22. ASSUME NEW l \in Logger, Write(l)
       PROVE  Locked'
  BY <1>0, <1>22 DEF Write
<1>23. CASE UNCHANGED vars
  BY <1>0, <1>23 DEF vars
<1> QED
  BY <1>1, <1>2, <1>3, <1>4, <1>5, <1>6, <1>7, <1>8, <1>9, <1>10, <1>11, <1>12, <1>13, <1>14, <1>15, <1>16,
     <1>17, <1>18, <1>19, <1>20, <1>21, <1>22, <1>23
  DEF Next, CallStep, WorkerStep

LEMMA BuildingStep ==
  ASSUME LoggerInv, [Next]_vars
  PROVE  \A d \in Caller : Building(d)'
<1> USE DEF Building, Goto, static_vars, logger_vars, worker_vars, caller_vars
<1>0. /\ pc \in [Caller -> CallerLabel] /\ msg \in [Caller -> 0 .. NMessages] /\ part \in [Caller -> 0 .. Parts]
      /\ stream \in [Caller -> {Null} \cup Seq(Insertion)] /\ entry \in [Caller -> Seq(Insertion)]
      /\ \A d \in Caller : Building(d)
  BY DEF LoggerInv, Lines, Typed, TypeOK
<1>1. ASSUME NEW c \in Caller, LogCall(c)
      PROVE  \A d \in Caller : Building(d)'
  BY <1>0, <1>1 DEF LogCall
<1>2. ASSUME NEW c \in Caller, SetLevel(c)
      PROVE  \A d \in Caller : Building(d)'
  BY <1>0, <1>2 DEF SetLevel
<1>3. ASSUME NEW c \in Caller, Shutdown(c)
      PROVE  \A d \in Caller : Building(d)'
  BY <1>0, <1>3 DEF Shutdown
<1>4. ASSUME NEW c \in Caller, FirstCheck(c)
      PROVE  \A d \in Caller : Building(d)'
  BY <1>0, <1>4 DEF FirstCheck
<1>5. ASSUME NEW c \in Caller, Lock(c)
      PROVE  \A d \in Caller : Building(d)'
  BY <1>0, <1>5 DEF Lock
<1>6. ASSUME NEW c \in Caller, SecondCheck(c)
      PROVE  \A d \in Caller : Building(d)'
  BY <1>0, <1>6 DEF SecondCheck
<1>7. ASSUME NEW c \in Caller, Construct(c)
      PROVE  \A d \in Caller : Building(d)'
  BY <1>0, <1>7 DEF Construct
<1>8. ASSUME NEW c \in Caller, Publish(c)
      PROVE  \A d \in Caller : Building(d)'
  BY <1>0, <1>8 DEF Publish
<1>9. ASSUME NEW c \in Caller, AcquireStream(c)
      PROVE  \A d \in Caller : Building(d)'
  <2>1. stream' = [stream EXCEPT ![c] = <<>>]
    <3>1. c \in Caller /\ logger[c] \in Logger /\ streams[logger[c]] \in Seq({<<>>})
      BY <1>9, HasLogger DEF AcquireStream, LoggerInv, Typed, TypeOK
    <3>2. streams[logger[c]] # <<>> => Head(streams[logger[c]]) = <<>>
      BY <3>1
    <3> QED BY <1>9, <3>2 DEF AcquireStream
  <2>2. <<>> \in Seq(Insertion) /\ DOMAIN <<>> = {}
    OBVIOUS
  <2>3. InsertedInOrder(<<>>)
    BY <2>2 DEF InsertedInOrder
  <2> QED BY <1>0, <1>9, <2>1, <2>2, <2>3 DEF AcquireStream
<1>10. ASSUME NEW c \in Caller, Insert(c)
       PROVE  \A d \in Caller : Building(d)'
  <2>1. /\ stream[c] \in Seq(Insertion) /\ msg[c] \in Message /\ part[c] \in 0 .. Parts
        /\ part[c] < Parts /\ Parts \in Nat
    BY <1>0, <1>10, LoggerAssumption DEF Insert
  <2> DEFINE n == [message |-> msg[c], part |-> part[c] + 1]
  <2>2. /\ part' = [part EXCEPT ![c] = part[c] + 1] /\ part'[c] = part[c] + 1
        /\ stream' = stream \/ stream' = [stream EXCEPT ![c] = Append(stream[c], n)]
        /\ UNCHANGED <<pc, msg, entry>>
    BY <1>0, <1>10, <2>1 DEF Insert
  <2>3. n \in Insertion /\ n.message = msg[c] /\ n.part = part[c] + 1
    BY <2>1 DEF Insertion
  <2> HIDE DEF n
  <2> DEFINE s == stream[c]
             t == Append(s, n)
  <2>4. /\ t \in Seq(Insertion) /\ DOMAIN s = 1 .. Len(s) /\ DOMAIN t = 1 .. Len(s) + 1 /\ Len(s) \in Nat
        /\ t[Len(s) + 1] = n /\ \A i \in 1 .. Len(s) : t[i] = s[i]
    BY <2>1, <2>3
  <2>5. /\ \A a \in DOMAIN s : s[a].message = msg[c] /\ s[a].part <= part[c] /\ s[a].part \in 1 .. Parts
        /\ InsertedInOrder(s)
    <3>1. \A a \in DOMAIN s : s[a] \in Insertion
      BY <2>1
    <3> QED BY <1>0, <1>10, <3>1 DEF Insert, Insertion
  <2>6. \A a \in DOMAIN t : t[a].message = msg[c] /\ t[a].part <= part[c] + 1
    <3> HIDE DEF t, s
    <3> SUFFICES ASSUME NEW a \in DOMAIN t
                 PROVE  t[a].message = msg[c] /\ t[a].part <= part[c] + 1
      OBVIOUS
    <3>1. CASE a \in DOMAIN s
      BY <2>1, <2>4, <2>5, <3>1
    <3>2. CASE a = Len(s) + 1
      BY <2>1, <2>3, <2>4, <3>2
    <3> QED BY <2>4, <3>1, <3>2
  <2>7. InsertedInOrder(t)
    <3> HIDE DEF t, s
    <3> SUFFICES ASSUME NEW a \in DOMAIN t, NEW b \in DOMAIN t
                 PROVE  t[a].message = t[b].message /\ (a < b => t[a].part < t[b].part)
      BY DEF InsertedInOrder
    <3>1. t[a].message = t[b].message
      BY <2>6
    <3>2. ASSUME a < b PROVE t[a].part < t[b].part
      <4>1. a \in DOMAIN s
        BY <2>4, <3>2
      <4>2. CASE b \in DOMAIN s
        BY <2>4, <2>5, <3>2, <4>1, <4>2 DEF InsertedInOrder
      <4>3. CASE b = Len(s) + 1
        BY <2>1, <2>3, <2>4, <2>5, <4>1, <4>3
      <4> QED BY <2>4, <4>2, <4>3
    <3> QED BY <3>1, <3>2
  <2>8. \A a \in DOMAIN s : s[a].part <= part[c] + 1
    BY <2>1, <2>5
  <2> HIDE DEF t
  <2>9. stream'[c] = s \/ stream'[c] = t
    BY <1>0, <2>2 DEF t
  <2>10. Building(c)'
    <3>1. pc'[c] = "insert" /\ msg'[c] = msg[c] /\ Author[msg[c]] = c /\ msg[c] \in Message
      BY <1>0, <1>10 DEF Insert
    <3>2. /\ stream'[c] \in Seq(Insertion) /\ InsertedInOrder(stream'[c])
          /\ \A a \in DOMAIN stream'[c] : stream'[c][a].message = msg[c] /\ stream'[c][a].part <= part'[c]
      BY <2>1, <2>2, <2>4, <2>5, <2>6, <2>7, <2>8, <2>9
    <3> QED BY <3>1, <3>2
  <2>11. ASSUME NEW d \in Caller, d # c PROVE Building(d)'
    BY <1>0, <2>2, <2>11
  <2> QED BY <2>10, <2>11
<1>11. ASSUME NEW c \in Caller, EndOfStatement(c)
       PROVE  \A d \in Caller : Building(d)'
  <2>1. stream[c] # <<>> /\ stream[c] \in Seq(Insertion) => 1 \in DOMAIN stream[c]
    OBVIOUS
  <2>2. stream[c] # <<>> => Line(c, stream[c])
    BY <1>0, <1>11, <2>1 DEF EndOfStatement, Line, By, MessageOf
  <2> QED BY <1>0, <1>11, <2>2 DEF EndOfStatement
<1>12. ASSUME NEW c \in Caller, Format(c)
       PROVE  \A d \in Caller : Building(d)'
  <2>1. Line(c, Whole(msg[c]))
    BY <1>0, <1>12, WholeFacts DEF Format, Line, By
  <2> QED BY <1>0, <1>12, <2>1 DEF Format
<1>13. ASSUME NEW c \in Caller, Enqueue(c)
       PROVE  \A d \in Caller : Building(d)'
  BY <1>0, <1>13 DEF Enqueue
<1>14. ASSUME NEW c \in Caller, ReleaseStream(c)
       PROVE  \A d \in Caller : Building(d)'
  BY <1>0, <1>14 DEF ReleaseStream
<1>15. ASSUME NEW c \in Caller, Exchange(c)
       PROVE  \A d \in Caller : Building(d)'
  BY <1>0, <1>15 DEF Exchange
<1>16. ASSUME NEW c \in Caller, LoadInstance(c)
       PROVE  \A d \in Caller : Building(d)'
  BY <1>0, <1>16 DEF LoadInstance
<1>17. ASSUME NEW c \in Caller, Stop(c)
       PROVE  \A d \in Caller : Building(d)'
  BY <1>0, <1>17 DEF Stop
<1>18. ASSUME NEW c \in Caller, Join(c)
       PROVE  \A d \in Caller : Building(d)'
  BY <1>0, <1>18 DEF Join
<1>19. ASSUME NEW l \in Logger, TestRunning(l)
       PROVE  \A d \in Caller : Building(d)'
  BY <1>0, <1>19 DEF TestRunning
<1>20. ASSUME NEW l \in Logger, Dequeue(l)
       PROVE  \A d \in Caller : Building(d)'
  BY <1>0, <1>20 DEF Dequeue
<1>21. ASSUME NEW l \in Logger, Timeout(l)
       PROVE  \A d \in Caller : Building(d)'
  BY <1>0, <1>21 DEF Timeout
<1>22. ASSUME NEW l \in Logger, Write(l)
       PROVE  \A d \in Caller : Building(d)'
  BY <1>0, <1>22 DEF Write
<1>23. CASE UNCHANGED vars
  BY <1>0, <1>23 DEF vars
<1> QED
  BY <1>1, <1>2, <1>3, <1>4, <1>5, <1>6, <1>7, <1>8, <1>9, <1>10, <1>11, <1>12, <1>13, <1>14, <1>15, <1>16,
     <1>17, <1>18, <1>19, <1>20, <1>21, <1>22, <1>23
  DEF Next, CallStep, WorkerStep

LEMMA LinesOnTheWayStep ==
  ASSUME LoggerInv, [Next]_vars
  PROVE  LinesOnTheWay'
<1> USE DEF LinesOnTheWay, Goto, static_vars, logger_vars, worker_vars, caller_vars
<1>0. /\ queue \in [Logger -> [Caller -> Seq(Seq(Insertion))]] /\ worker \in [Logger -> WorkerLabel]
      /\ hand \in [Logger -> Seq(Insertion)] /\ written \in Seq(Seq(Insertion))
      /\ LinesOnTheWay
  BY DEF LoggerInv, Lines, Typed, TypeOK
<1>1. ASSUME NEW c \in Caller, LogCall(c)
      PROVE  LinesOnTheWay'
  BY <1>0, <1>1 DEF LogCall
<1>2. ASSUME NEW c \in Caller, SetLevel(c)
      PROVE  LinesOnTheWay'
  BY <1>0, <1>2 DEF SetLevel
<1>3. ASSUME NEW c \in Caller, Shutdown(c)
      PROVE  LinesOnTheWay'
  BY <1>0, <1>3 DEF Shutdown
<1>4. ASSUME NEW c \in Caller, FirstCheck(c)
      PROVE  LinesOnTheWay'
  BY <1>0, <1>4 DEF FirstCheck
<1>5. ASSUME NEW c \in Caller, Lock(c)
      PROVE  LinesOnTheWay'
  BY <1>0, <1>5 DEF Lock
<1>6. ASSUME NEW c \in Caller, SecondCheck(c)
      PROVE  LinesOnTheWay'
  BY <1>0, <1>6 DEF SecondCheck
<1>7. ASSUME NEW c \in Caller, Construct(c)
      PROVE  LinesOnTheWay'
  <2>1. worker' = [worker EXCEPT ![CHOOSE i \in Logger : worker[i] = "none"] = "test"]
    BY <1>7 DEF Construct
  <2> QED BY <1>0, <1>7, <2>1 DEF Construct
<1>8. ASSUME NEW c \in Caller, Publish(c)
      PROVE  LinesOnTheWay'
  BY <1>0, <1>8 DEF Publish
<1>9. ASSUME NEW c \in Caller, AcquireStream(c)
      PROVE  LinesOnTheWay'
  BY <1>0, <1>9 DEF AcquireStream
<1>10. ASSUME NEW c \in Caller, Insert(c)
       PROVE  LinesOnTheWay'
  BY <1>0, <1>10 DEF Insert
<1>11. ASSUME NEW c \in Caller, EndOfStatement(c)
       PROVE  LinesOnTheWay'
  BY <1>0, <1>11 DEF EndOfStatement
<1>12. ASSUME NEW c \in Caller, Format(c)
       PROVE  LinesOnTheWay'
  BY <1>0, <1>12 DEF Format
<1>13. ASSUME NEW c \in Caller, Enqueue(c)
       PROVE  LinesOnTheWay'
  <2>1. /\ logger[c] \in Logger /\ queue[logger[c]][c] \in Seq(Seq(Insertion))
        /\ entry[c] \in Seq(Insertion) /\ Line(c, entry[c])
    BY <1>13, HasLogger DEF Enqueue, LoggerInv, Typed, TypeOK, Lines, Building
  <2> DEFINE q == queue[logger[c]][c]
  <2>2. queue' = [queue EXCEPT ![logger[c]] = [queue[logger[c]] EXCEPT ![c] = Append(q, entry[c])]]
    BY <1>13 DEF Enqueue
  <2>3. \A i \in DOMAIN q : Line(c, q[i])
    BY <1>0, <2>1
  <2>4. \A i \in DOMAIN Append(q, entry[c]) : Line(c, Append(q, entry[c])[i])
    <3> HIDE DEF q
    <3>1. q \in Seq(Seq(Insertion))
      BY <2>1 DEF q
    <3> QED BY <2>1, <2>3, <3>1
  <2> HIDE DEF q
  <2>5. \A l \in Logger, d \in Caller : queue'[l][d] = queue[l][d] \/ (d = c /\ queue'[l][d] = Append(q, entry[c]))
    BY <1>0, <2>1, <2>2
  <2>6. \A l \in Logger, d \in Caller : \A i \in DOMAIN queue'[l][d] : Line(d, queue'[l][d][i])
    <3> TAKE l \in Logger, d \in Caller
    <3>1. \A i \in DOMAIN queue[l][d] : Line(d, queue[l][d][i])
      BY <1>0
    <3> QED BY <3>1, <2>4, <2>5
  <2> QED BY <1>0, <1>13, <2>6 DEF Enqueue
<1>14. ASSUME NEW c \in Caller, ReleaseStream(c)
       PROVE  LinesOnTheWay'
  BY <1>0, <1>14 DEF ReleaseStream
<1>15. ASSUME NEW c \in Caller, Exchange(c)
       PROVE  LinesOnTheWay'
  BY <1>0, <1>15 DEF Exchange
<1>16. ASSUME NEW c \in Caller, LoadInstance(c)
       PROVE  LinesOnTheWay'
  BY <1>0, <1>16 DEF LoadInstance
<1>17. ASSUME NEW c \in Caller, Stop(c)
       PROVE  LinesOnTheWay'
  BY <1>0, <1>17 DEF Stop
<1>18. ASSUME NEW c \in Caller, Join(c)
       PROVE  LinesOnTheWay'
  BY <1>0, <1>18 DEF Join
<1>19. ASSUME NEW l \in Logger, TestRunning(l)
       PROVE  LinesOnTheWay'
  BY <1>0, <1>19 DEF TestRunning
<1>20. ASSUME NEW l \in Logger, Dequeue(l)
       PROVE  LinesOnTheWay'
  <2>1. PICK c \in Caller : /\ queue[l][c] # <<>>
                            /\ hand' = [hand EXCEPT ![l] = Head(queue[l][c])]
                            /\ queue' = [queue EXCEPT ![l][c] = Tail(queue[l][c])]
    BY <1>20 DEF Dequeue
  <2> DEFINE q == queue[l][c]
  <2>2. q \in Seq(Seq(Insertion)) /\ q # <<>> /\ \A i \in DOMAIN q : Line(c, q[i])
    BY <1>0, <2>1
  <2>3. queue' = [queue EXCEPT ![l] = [queue[l] EXCEPT ![c] = Tail(q)]] /\ hand' = [hand EXCEPT ![l] = Head(q)]
    BY <2>1
  <2> HIDE DEF q
  <2>4. Head(q) = q[1] /\ 1 \in DOMAIN q /\ \A i \in DOMAIN Tail(q) : Tail(q)[i] = q[i + 1] /\ i + 1 \in DOMAIN q
    BY <2>2
  <2>5. Line(c, Head(q)) /\ \A i \in DOMAIN Tail(q) : Line(c, Tail(q)[i])
    BY <2>2, <2>4
  <2>6. \A k \in Logger, d \in Caller : queue'[k][d] = queue[k][d] \/ (d = c /\ queue'[k][d] = Tail(q))
    BY <1>0, <2>3
  <2>7. \A k \in Logger, d \in Caller : \A i \in DOMAIN queue'[k][d] : Line(d, queue'[k][d][i])
    <3> TAKE k \in Logger, d \in Caller
    <3>1. \A i \in DOMAIN queue[k][d] : Line(d, queue[k][d][i])
      BY <1>0
    <3> QED BY <3>1, <2>5, <2>6
  <2>8. \A k \in Logger : worker'[k] = "write" => \E d \in Caller : Line(d, hand'[k])
    BY <1>0, <1>20, <2>3, <2>5 DEF Dequeue
  <2> QED BY <1>0, <1>20, <2>7, <2>8 DEF Dequeue
<1>21. ASSUME NEW l \in Logger, Timeout(l)
       PROVE  LinesOnTheWay'
  BY <1>0, <1>21 DEF Timeout, AfterTimeout
<1>22. ASSUME NEW l \in Logger, Write(l)
       PROVE  LinesOnTheWay'
  <2>1. written' = Append(written, hand[l]) /\ hand[l] \in Seq(Insertion)
    BY <1>0, <1>22 DEF Write, Out
  <2>2. \E c \in Caller : Line(c, hand[l])
    BY <1>0, <1>22 DEF Write
  <2>3. \A j \in DOMAIN written' : (j \in DOMAIN written /\ written'[j] = written[j]) \/ written'[j] = hand[l]
    BY <1>0, <2>1
  <2>4. \A j \in DOMAIN written' : \E c \in Caller : Line(c, written'[j])
    BY <1>0, <2>2, <2>3
  <2> QED BY <1>0, <1>22, <2>4 DEF Write
<1>23. CASE UNCHANGED vars
  BY <1>0, <1>23 DEF vars
<1> QED
  BY <1>1, <1>2, <1>3, <1>4, <1>5, <1>6, <1>7, <1>8, <1>9, <1>10, <1>11, <1>12, <1>13, <1>14, <1>15, <1>16,
     <1>17, <1>18, <1>19, <1>20, <1>21, <1>22, <1>23
  DEF Next, CallStep, WorkerStep

-------------------------------------------------------------------------------
(* Order: what a caller has enqueued is on its way.                        *)

LEMMA OneMade ==
  ASSUME Locked, NEW k \in Logger, NEW l \in Logger, Made(k), Made(l)
  PROVE  k = l
<1>1. CASE \E c \in Caller : pc[c] = "publish"
  <2>1. PICK c \in Caller : pc[c] = "publish"
    BY <1>1
  <2>2. \A d \in Caller : pc[d] = "publish" => d = c
    BY <2>1 DEF Locked
  <2>3. instance_ptr = Null
    BY <2>1 DEF Locked
  <2> QED BY <2>2, <2>3, LoggerAssumption DEF Locked
<1>2. CASE ~\E c \in Caller : pc[c] = "publish"
  BY <1>2 DEF Locked
<1> QED BY <1>1, <1>2

LEMMA FromFacts ==
  ASSUME NEW c
  PROVE  /\ From(c, <<>>) = <<>>
         /\ \A texts \in Seq(Seq(Insertion)) : From(c, texts) \in Seq(Seq(Insertion))
         /\ \A text \in Seq(Insertion) :
              From(c, <<text>>) = IF By(c, text) THEN <<text>> ELSE <<>>
         /\ \A texts \in Seq(Seq(Insertion)), text \in Seq(Insertion) :
              From(c, Append(texts, text)) = From(c, texts) \o From(c, <<text>>)
<1> DEFINE X == {text \in Seq(Insertion) : ~By(c, text)}
<1>1. \A text \in Seq(Insertion) : text \in X <=> ~By(c, text)
  OBVIOUS
<1>2. \A texts : From(c, texts) = Without(texts, X)
  BY DEF From
<1> HIDE DEF X
<1>3. From(c, <<>>) = <<>>
  BY <1>2, WithoutEmpty
<1>4. \A texts \in Seq(Seq(Insertion)) : From(c, texts) \in Seq(Seq(Insertion))
  BY <1>2, WithoutFacts
<1>5. ASSUME NEW texts \in Seq(Seq(Insertion)), NEW text \in Seq(Insertion)
      PROVE  From(c, Append(texts, text)) = IF By(c, text) THEN Append(From(c, texts), text) ELSE From(c, texts)
  BY <1>1, <1>2, WithoutAppend
<1>6. ASSUME NEW text \in Seq(Insertion)
      PROVE  From(c, <<text>>) = IF By(c, text) THEN <<text>> ELSE <<>>
  <2>1. <<text>> = Append(<<>>, text) /\ <<>> \in Seq(Seq(Insertion))
    OBVIOUS
  <2> QED BY <1>3, <1>5, <2>1
<1>7. ASSUME NEW texts \in Seq(Seq(Insertion)), NEW text \in Seq(Insertion)
      PROVE  From(c, Append(texts, text)) = From(c, texts) \o From(c, <<text>>)
  <2>1. From(c, texts) \in Seq(Seq(Insertion))
    BY <1>4
  <2>2. CASE By(c, text)
    <3>1. Append(From(c, texts), text) = From(c, texts) \o <<text>>
      BY <2>1, AppendIsConcat
    <3> QED BY <1>5, <1>6, <2>2, <3>1
  <2>3. CASE ~By(c, text)
    <3>1. From(c, texts) \o <<>> = From(c, texts)
      BY <2>1, ConcatEmptySeq
    <3> QED BY <1>5, <1>6, <2>3, <3>1
  <2> QED BY <2>2, <2>3
<1> QED BY <1>3, <1>4, <1>6, <1>7

LEMMA SilentStep ==
  ASSUME LoggerInv, [Next]_vars
  PROVE  Silent'
<1> USE DEF Silent, Goto, static_vars, logger_vars, worker_vars, caller_vars
<1>0. /\ worker \in [Logger -> WorkerLabel] /\ instance_ptr \in Logger \cup {Null}
      /\ logger \in [Caller -> Logger \cup {Null}] /\ Silent
  BY DEF LoggerInv, Typed, TypeOK
<1>1. ASSUME NEW c \in Caller, LogCall(c)
      PROVE  Silent'
  BY <1>0, <1>1 DEF LogCall
<1>2. ASSUME NEW c \in Caller, SetLevel(c)
      PROVE  Silent'
  BY <1>0, <1>2 DEF SetLevel
<1>3. ASSUME NEW c \in Caller, Shutdown(c)
      PROVE  Silent'
  BY <1>0, <1>3 DEF Shutdown
<1>4. ASSUME NEW c \in Caller, FirstCheck(c)
      PROVE  Silent'
  BY <1>0, <1>4 DEF FirstCheck
<1>5. ASSUME NEW c \in Caller, Lock(c)
      PROVE  Silent'
  BY <1>0, <1>5 DEF Lock
<1>6. ASSUME NEW c \in Caller, SecondCheck(c)
      PROVE  Silent'
  BY <1>0, <1>6 DEF SecondCheck
<1>7. ASSUME NEW c \in Caller, Construct(c)
      PROVE  Silent'
  BY <1>0, <1>7 DEF Construct, StillThere
<1>8. ASSUME NEW c \in Caller, Publish(c)
      PROVE  Silent'
  BY <1>0, <1>8 DEF Publish, LoggerInv, Locked
<1>9. ASSUME NEW c \in Caller, AcquireStream(c)
      PROVE  Silent'
  BY <1>0, <1>9 DEF AcquireStream
<1>10. ASSUME NEW c \in Caller, Insert(c)
       PROVE  Silent'
  BY <1>0, <1>10 DEF Insert
<1>11. ASSUME NEW c \in Caller, EndOfStatement(c)
       PROVE  Silent'
  BY <1>0, <1>11 DEF EndOfStatement
<1>12. ASSUME NEW c \in Caller, Format(c)
       PROVE  Silent'
  BY <1>0, <1>12 DEF Format
<1>13. ASSUME NEW c \in Caller, Enqueue(c)
       PROVE  Silent'
  BY <1>0, <1>13 DEF Enqueue
<1>14. ASSUME NEW c \in Caller, ReleaseStream(c)
       PROVE  Silent'
  BY <1>0, <1>14 DEF ReleaseStream
<1>15. ASSUME NEW c \in Caller, Exchange(c)
       PROVE  Silent'
  BY <1>0, <1>15 DEF Exchange
<1>16. ASSUME NEW c \in Caller, LoadInstance(c)
       PROVE  Silent'
  BY <1>0, <1>16 DEF LoadInstance
<1>17. ASSUME NEW c \in Caller, Stop(c)
       PROVE  Silent'
  BY <1>0, <1>17 DEF Stop
<1>18. ASSUME NEW c \in Caller, Join(c)
       PROVE  Silent'
  <2>1. Locked /\ logger[c] \in Logger /\ Made(logger[c]) /\ logger[c] = instance_ptr
    BY <1>18, HasLogger DEF Join, LoggerInv
  <2>2. \A l \in Logger : worker[l] # "none" => l = logger[c]
    BY <2>1, OneMade DEF Made
  <2> QED BY <1>0, <1>18, <2>1, <2>2, LoggerAssumption DEF Join, Joinable
<1>19. ASSUME NEW l \in Logger, TestRunning(l)
       PROVE  Silent'
  BY <1>0, <1>19 DEF TestRunning
<1>20. ASSUME NEW l \in Logger, Dequeue(l)
       PROVE  Silent'
  BY <1>0, <1>20 DEF Dequeue
<1>21. ASSUME NEW l \in Logger, Timeout(l)
       PROVE  Silent'
  BY <1>0, <1>21 DEF Timeout
<1>22. ASSUME NEW l \in Logger, Write(l)
       PROVE  Silent'
  BY <1>0, <1>22 DEF Write
<1>23. CASE UNCHANGED vars
  BY <1>0, <1>23 DEF vars
<1> QED
  BY <1>1, <1>2, <1>3, <1>4, <1>5, <1>6, <1>7, <1>8, <1>9, <1>10, <1>11, <1>12, <1>13, <1>14, <1>15, <1>16,
     <1>17, <1>18, <1>19, <1>20, <1>21, <1>22, <1>23
  DEF Next, CallStep, WorkerStep

LEMMA HandStep ==
  ASSUME LoggerInv, [Next]_vars
  PROVE  \A k \in Logger : hand'[k] # <<>> <=> worker'[k] = "write"
<1> USE DEF static_vars, logger_vars, worker_vars, caller_vars
<1>0. /\ queue \in [Logger -> [Caller -> Seq(Seq(Insertion))]] /\ worker \in [Logger -> WorkerLabel]
      /\ hand \in [Logger -> Seq(Insertion)] /\ written \in Seq(Seq(Insertion))
      /\ accepted \in [Caller -> Seq(Seq(Insertion))] 
      /\ \A k \in Logger : hand[k] # <<>> <=> worker[k] = "write"
  BY DEF LoggerInv, Typed, TypeOK, Flow
<1>1. ASSUME NEW c \in Caller, LogCall(c)
      PROVE  \A k \in Logger : hand'[k] # <<>> <=> worker'[k] = "write"
  BY <1>0, <1>1 DEF LogCall
<1>2. ASSUME NEW c \in Caller, SetLevel(c)
      PROVE  \A k \in Logger : hand'[k] # <<>> <=> worker'[k] = "write"
  BY <1>0, <1>2 DEF SetLevel
<1>3. ASSUME NEW c \in Caller, Shutdown(c)
      PROVE  \A k \in Logger : hand'[k] # <<>> <=> worker'[k] = "write"
  BY <1>0, <1>3 DEF Shutdown
<1>4. ASSUME NEW c \in Caller, FirstCheck(c)
      PROVE  \A k \in Logger : hand'[k] # <<>> <=> worker'[k] = "write"
  BY <1>0, <1>4 DEF FirstCheck
<1>5. ASSUME NEW c \in Caller, Lock(c)
      PROVE  \A k \in Logger : hand'[k] # <<>> <=> worker'[k] = "write"
  BY <1>0, <1>5 DEF Lock
<1>6. ASSUME NEW c \in Caller, SecondCheck(c)
      PROVE  \A k \in Logger : hand'[k] # <<>> <=> worker'[k] = "write"
  BY <1>0, <1>6 DEF SecondCheck
<1>7. ASSUME NEW c \in Caller, Construct(c)
      PROVE  \A k \in Logger : hand'[k] # <<>> <=> worker'[k] = "write"
  <2>1. PICK l \in Logger : worker[l] = "none" /\ worker' = [worker EXCEPT ![l] = "test"] /\ hand' = hand
    BY <1>7, SomeLogger DEF Construct, LoggerInv
  <2> QED BY <1>0, <2>1
<1>8. ASSUME NEW c \in Caller, Publish(c)
      PROVE  \A k \in Logger : hand'[k] # <<>> <=> worker'[k] = "write"
  BY <1>0, <1>8 DEF Publish
<1>9. ASSUME NEW c \in Caller, AcquireStream(c)
      PROVE  \A k \in Logger : hand'[k] # <<>> <=> worker'[k] = "write"
  BY <1>0, <1>9 DEF AcquireStream
<1>10. ASSUME NEW c \in Caller, Insert(c)
       PROVE  \A k \in Logger : hand'[k] # <<>> <=> worker'[k] = "write"
  BY <1>0, <1>10 DEF Insert
<1>11. ASSUME NEW c \in Caller, EndOfStatement(c)
       PROVE  \A k \in Logger : hand'[k] # <<>> <=> worker'[k] = "write"
  BY <1>0, <1>11 DEF EndOfStatement
<1>12. ASSUME NEW c \in Caller, Format(c)
       PROVE  \A k \in Logger : hand'[k] # <<>> <=> worker'[k] = "write"
  BY <1>0, <1>12 DEF Format
<1>13. ASSUME NEW c \in Caller, Enqueue(c)
       PROVE  \A k \in Logger : hand'[k] # <<>> <=> worker'[k] = "write"
  BY <1>0, <1>13 DEF Enqueue
<1>14. ASSUME NEW c \in Caller, ReleaseStream(c)
       PROVE  \A k \in Logger : hand'[k] # <<>> <=> worker'[k] = "write"
  BY <1>0, <1>14 DEF ReleaseStream
<1>15. ASSUME NEW c \in Caller, Exchange(c)
       PROVE  \A k \in Logger : hand'[k] # <<>> <=> worker'[k] = "write"
  BY <1>0, <1>15 DEF Exchange
<1>16. ASSUME NEW c \in Caller, LoadInstance(c)
       PROVE  \A k \in Logger : hand'[k] # <<>> <=> worker'[k] = "write"
  BY <1>0, <1>16 DEF LoadInstance
<1>17. ASSUME NEW c \in Caller, Stop(c)
       PROVE  \A k \in Logger : hand'[k] # <<>> <=> worker'[k] = "write"
  BY <1>0, <1>17 DEF Stop
<1>18. ASSUME NEW c \in Caller, Join(c)
       PROVE  \A k \in Logger : hand'[k] # <<>> <=> worker'[k] = "write"
  BY <1>0, <1>18 DEF Join
<1>19. ASSUME NEW l \in Logger, TestRunning(l)
       PROVE  \A k \in Logger : hand'[k] # <<>> <=> worker'[k] = "write"
  BY <1>0, <1>19 DEF TestRunning
<1>20. ASSUME NEW l \in Logger, Dequeue(l)
       PROVE  \A k \in Logger : hand'[k] # <<>> <=> worker'[k] = "write"
  <2>1. PICK c \in Caller : queue[l][c] # <<>> /\ hand' = [hand EXCEPT ![l] = Head(queue[l][c])]
    BY <1>20 DEF Dequeue
  <2>2. Head(queue[l][c]) # <<>>
    <3>1. queue[l][c] \in Seq(Seq(Insertion))
      BY <1>0
    <3>2. Head(queue[l][c]) = queue[l][c][1] /\ 1 \in DOMAIN queue[l][c]
      BY <2>1, <3>1
    <3>3. Line(c, queue[l][c][1])
      BY <3>2 DEF LoggerInv, Lines, LinesOnTheWay
    <3> QED BY <3>2, <3>3 DEF Line
  <2> QED BY <1>0, <1>20, <2>1, <2>2 DEF Dequeue
<1>21. ASSUME NEW l \in Logger, Timeout(l)
       PROVE  \A k \in Logger : hand'[k] # <<>> <=> worker'[k] = "write"
  BY <1>0, <1>21 DEF Timeout, AfterTimeout
<1>22. ASSUME NEW l \in Logger, Write(l)
       PROVE  \A k \in Logger : hand'[k] # <<>> <=> worker'[k] = "write"
  BY <1>0, <1>22 DEF Write
<1>23. CASE UNCHANGED vars
  BY <1>0, <1>23 DEF vars
<1> QED
  BY <1>1, <1>2, <1>3, <1>4, <1>5, <1>6, <1>7, <1>8, <1>9, <1>10, <1>11, <1>12, <1>13, <1>14, <1>15, <1>16,
     <1>17, <1>18, <1>19, <1>20, <1>21, <1>22, <1>23
  DEF Next, CallStep, WorkerStep

LEMMA NothingYetStep ==
  ASSUME LoggerInv, [Next]_vars
  PROVE  NothingYet'
<1> USE DEF NothingYet, Made, static_vars, logger_vars, worker_vars, caller_vars
<1>0. /\ queue \in [Logger -> [Caller -> Seq(Seq(Insertion))]] /\ worker \in [Logger -> WorkerLabel]
      /\ hand \in [Logger -> Seq(Insertion)] /\ written \in Seq(Seq(Insertion))
      /\ accepted \in [Caller -> Seq(Seq(Insertion))] /\ NothingYet
  BY DEF LoggerInv, Typed, TypeOK, Flow
<1>1. ASSUME NEW c \in Caller, LogCall(c)
      PROVE  NothingYet'
  BY <1>0, <1>1 DEF LogCall
<1>2. ASSUME NEW c \in Caller, SetLevel(c)
      PROVE  NothingYet'
  BY <1>0, <1>2 DEF SetLevel
<1>3. ASSUME NEW c \in Caller, Shutdown(c)
      PROVE  NothingYet'
  BY <1>0, <1>3 DEF Shutdown
<1>4. ASSUME NEW c \in Caller, FirstCheck(c)
      PROVE  NothingYet'
  BY <1>0, <1>4 DEF FirstCheck
<1>5. ASSUME NEW c \in Caller, Lock(c)
      PROVE  NothingYet'
  BY <1>0, <1>5 DEF Lock
<1>6. ASSUME NEW c \in Caller, SecondCheck(c)
      PROVE  NothingYet'
  BY <1>0, <1>6 DEF SecondCheck
<1>7. ASSUME NEW c \in Caller, Construct(c)
      PROVE  NothingYet'
  <2>1. PICK l \in Logger : worker' = [worker EXCEPT ![l] = "test"] /\ UNCHANGED <<queue, written, accepted>>
    BY <1>7, SomeLogger DEF Construct, LoggerInv
  <2> QED BY <1>0, <2>1
<1>8. ASSUME NEW c \in Caller, Publish(c)
      PROVE  NothingYet'
  BY <1>0, <1>8 DEF Publish
<1>9. ASSUME NEW c \in Caller, AcquireStream(c)
      PROVE  NothingYet'
  BY <1>0, <1>9 DEF AcquireStream
<1>10. ASSUME NEW c \in Caller, Insert(c)
       PROVE  NothingYet'
  BY <1>0, <1>10 DEF Insert
<1>11. ASSUME NEW c \in Caller, EndOfStatement(c)
       PROVE  NothingYet'
  BY <1>0, <1>11 DEF EndOfStatement
<1>12. ASSUME NEW c \in Caller, Format(c)
       PROVE  NothingYet'
  BY <1>0, <1>12 DEF Format
<1>13. ASSUME NEW c \in Caller, Enqueue(c)
       PROVE  NothingYet'
  <2>1. logger[c] \in Logger /\ Made(logger[c])
    BY <1>13, HasLogger DEF Enqueue, LoggerInv
  <2>2. \A l \in Logger : l # logger[c] => queue'[l] = queue[l]
    BY <1>0, <1>13, <2>1 DEF Enqueue
  <2>3. worker' = worker
    BY <1>13 DEF Enqueue
  <2>4. \A l \in Logger : worker'[l] = "none" => queue'[l] = queue[l]
    BY <2>1, <2>2, <2>3
  <2>5. ~\A l \in Logger : worker'[l] = "none"
    BY <2>1, <2>3
  <2>6. \A l \in Logger : worker'[l] = "none" => \A d \in Caller : queue'[l][d] = <<>>
    BY <1>0, <2>3, <2>4
  <2> QED BY <2>5, <2>6
<1>14. ASSUME NEW c \in Caller, ReleaseStream(c)
       PROVE  NothingYet'
  BY <1>0, <1>14 DEF ReleaseStream
<1>15. ASSUME NEW c \in Caller, Exchange(c)
       PROVE  NothingYet'
  BY <1>0, <1>15 DEF Exchange
<1>16. ASSUME NEW c \in Caller, LoadInstance(c)
       PROVE  NothingYet'
  BY <1>0, <1>16 DEF LoadInstance
<1>17. ASSUME NEW c \in Caller, Stop(c)
       PROVE  NothingYet'
  BY <1>0, <1>17 DEF Stop
<1>18. ASSUME NEW c \in Caller, Join(c)
       PROVE  NothingYet'
  BY <1>0, <1>18 DEF Join
<1>19. ASSUME NEW l \in Logger, TestRunning(l)
       PROVE  NothingYet'
  BY <1>0, <1>19 DEF TestRunning
<1>20. ASSUME NEW l \in Logger, Dequeue(l)
       PROVE  NothingYet'
  <2>1. Made(l) /\ worker' = [worker EXCEPT ![l] = "write"]
    BY <1>20 DEF Dequeue
  <2>2. \A k \in Logger : k # l => queue'[k] = queue[k]
    BY <1>0, <1>20 DEF Dequeue
  <2> QED BY <1>0, <2>1, <2>2
<1>21. ASSUME NEW l \in Logger, Timeout(l)
       PROVE  NothingYet'
  BY <1>0, <1>21 DEF Timeout, AfterTimeout
<1>22. ASSUME NEW l \in Logger, Write(l)
       PROVE  NothingYet'
  BY <1>0, <1>22 DEF Write
<1>23. CASE UNCHANGED vars
  BY <1>0, <1>23 DEF vars
<1> QED
  BY <1>1, <1>2, <1>3, <1>4, <1>5, <1>6, <1>7, <1>8, <1>9, <1>10, <1>11, <1>12, <1>13, <1>14, <1>15, <1>16,
     <1>17, <1>18, <1>19, <1>20, <1>21, <1>22, <1>23
  DEF Next, CallStep, WorkerStep

LEMMA OnTheWayStays ==
  ASSUME UNCHANGED <<queue, hand, written, accepted>>,
         \A k \in Logger, d \in Caller : Made(k) => accepted[d] = OnTheWay(k, d),
         \A k \in Logger : Made(k)' => Made(k)
  PROVE  \A k \in Logger, d \in Caller : Made(k)' => accepted'[d] = OnTheWay(k, d)'
BY DEF OnTheWay, InHand

LEMMA OnTheWayStep ==
  ASSUME LoggerInv, [Next]_vars
  PROVE  \A k \in Logger, d \in Caller : Made(k)' => accepted'[d] = OnTheWay(k, d)'
<1> USE DEF static_vars, logger_vars, worker_vars, caller_vars
<1>0. /\ queue \in [Logger -> [Caller -> Seq(Seq(Insertion))]] /\ worker \in [Logger -> WorkerLabel]
      /\ hand \in [Logger -> Seq(Insertion)] /\ written \in Seq(Seq(Insertion))
      /\ accepted \in [Caller -> Seq(Seq(Insertion))]
      /\ \A k \in Logger : hand[k] # <<>> <=> worker[k] = "write"
      /\ \A k \in Logger, d \in Caller : Made(k) => accepted[d] = OnTheWay(k, d)
  BY DEF LoggerInv, Typed, TypeOK, Flow
<1>1. ASSUME NEW c \in Caller, LogCall(c)
      PROVE  \A k \in Logger, d \in Caller : Made(k)' => accepted'[d] = OnTheWay(k, d)'
  BY <1>0, <1>1, OnTheWayStays DEF LogCall, Made
<1>2. ASSUME NEW c \in Caller, SetLevel(c)
      PROVE  \A k \in Logger, d \in Caller : Made(k)' => accepted'[d] = OnTheWay(k, d)'
  BY <1>0, <1>2, OnTheWayStays DEF SetLevel, Made
<1>3. ASSUME NEW c \in Caller, Shutdown(c)
      PROVE  \A k \in Logger, d \in Caller : Made(k)' => accepted'[d] = OnTheWay(k, d)'
  BY <1>0, <1>3, OnTheWayStays DEF Shutdown, Made
<1>4. ASSUME NEW c \in Caller, FirstCheck(c)
      PROVE  \A k \in Logger, d \in Caller : Made(k)' => accepted'[d] = OnTheWay(k, d)'
  BY <1>0, <1>4, OnTheWayStays DEF FirstCheck, Made
<1>5. ASSUME NEW c \in Caller, Lock(c)
      PROVE  \A k \in Logger, d \in Caller : Made(k)' => accepted'[d] = OnTheWay(k, d)'
  BY <1>0, <1>5, OnTheWayStays DEF Lock, Made
<1>6. ASSUME NEW c \in Caller, SecondCheck(c)
      PROVE  \A k \in Logger, d \in Caller : Made(k)' => accepted'[d] = OnTheWay(k, d)'
  BY <1>0, <1>6, OnTheWayStays DEF SecondCheck, Made
<1>7. ASSUME NEW c \in Caller, Construct(c)
      PROVE  \A k \in Logger, d \in Caller : Made(k)' => accepted'[d] = OnTheWay(k, d)'
  <2>1. PICK l \in Logger : worker' = [worker EXCEPT ![l] = "test"] /\ UNCHANGED <<queue, hand, written, accepted>>
    BY <1>7, SomeLogger DEF Construct, LoggerInv
  <2>2. \A k \in Logger : worker[k] = "none"
    BY <1>7, SomeLogger DEF Construct, LoggerInv
  <2>3. written = <<>> /\ \A k \in Logger, d \in Caller : queue[k][d] = <<>> /\ hand[k] = <<>> /\ accepted[d] = <<>>
    BY <1>0, <2>2 DEF LoggerInv, Flow, NothingYet, Made
  <2>4. <<>> \o <<>> = <<>>
    OBVIOUS
  <2>5. ASSUME NEW k \in Logger, NEW d \in Caller PROVE accepted'[d] = OnTheWay(k, d)'
    <3>1. From(d, <<>>) = <<>>
      BY FromFacts
    <3> QED BY <2>1, <2>3, <2>4, <3>1 DEF OnTheWay, InHand
  <2> QED BY <2>5
<1>8. ASSUME NEW c \in Caller, Publish(c)
      PROVE  \A k \in Logger, d \in Caller : Made(k)' => accepted'[d] = OnTheWay(k, d)'
  BY <1>0, <1>8, OnTheWayStays DEF Publish, Made
<1>9. ASSUME NEW c \in Caller, AcquireStream(c)
      PROVE  \A k \in Logger, d \in Caller : Made(k)' => accepted'[d] = OnTheWay(k, d)'
  BY <1>0, <1>9, OnTheWayStays DEF AcquireStream, Made
<1>10. ASSUME NEW c \in Caller, Insert(c)
       PROVE  \A k \in Logger, d \in Caller : Made(k)' => accepted'[d] = OnTheWay(k, d)'
  BY <1>0, <1>10, OnTheWayStays DEF Insert, Made
<1>11. ASSUME NEW c \in Caller, EndOfStatement(c)
       PROVE  \A k \in Logger, d \in Caller : Made(k)' => accepted'[d] = OnTheWay(k, d)'
  BY <1>0, <1>11, OnTheWayStays DEF EndOfStatement, Made
<1>12. ASSUME NEW c \in Caller, Format(c)
       PROVE  \A k \in Logger, d \in Caller : Made(k)' => accepted'[d] = OnTheWay(k, d)'
  BY <1>0, <1>12, OnTheWayStays DEF Format, Made
<1>13. ASSUME NEW c \in Caller, Enqueue(c)
       PROVE  \A k \in Logger, d \in Caller : Made(k)' => accepted'[d] = OnTheWay(k, d)'
  <2>1. /\ logger[c] \in Logger /\ Made(logger[c]) /\ queue[logger[c]][c] \in Seq(Seq(Insertion))
        /\ entry[c] \in Seq(Insertion) /\ Locked
    BY <1>0, <1>13, HasLogger DEF Enqueue, LoggerInv, Typed, TypeOK
  <2>2. /\ queue' = [queue EXCEPT ![logger[c]] = [queue[logger[c]] EXCEPT ![c] = Append(queue[logger[c]][c], entry[c])]]
        /\ accepted' = [accepted EXCEPT ![c] = Append(accepted[c], entry[c])]
        /\ UNCHANGED <<written, hand, worker>>
    BY <1>13 DEF Enqueue
  <2> SUFFICES ASSUME NEW k \in Logger, NEW d \in Caller, Made(k)
               PROVE  accepted'[d] = OnTheWay(k, d)'
    BY <2>2 DEF Made
  <2>3. k = logger[c] /\ accepted[d] = OnTheWay(k, d)
    BY <1>0, <2>1, OneMade
  <2>4. CASE d # c
    BY <1>0, <2>1, <2>2, <2>3, <2>4 DEF OnTheWay, InHand
  <2>5. CASE d = c
    <3> DEFINE p == From(c, written) \o From(c, InHand(k))
               q == queue[k][c]
    <3>1. p \in Seq(Seq(Insertion)) /\ q \in Seq(Seq(Insertion))
      <4>1. InHand(k) \in Seq(Seq(Insertion))
        BY <1>0 DEF InHand
      <4>2. From(c, written) \in Seq(Seq(Insertion)) /\ From(c, InHand(k)) \in Seq(Seq(Insertion))
        BY <1>0, <4>1, FromFacts
      <4> QED BY <2>1, <2>3, <4>2, ConcatProperties
    <3>2. accepted[c] = p \o q
      BY <2>3, <2>5 DEF OnTheWay
    <3>3. OnTheWay(k, c)' = p \o queue'[k][c]
      BY <2>2 DEF OnTheWay, InHand
    <3>4. queue'[k][c] = Append(q, entry[c]) /\ accepted'[c] = Append(accepted[c], entry[c])
      BY <1>0, <2>1, <2>2, <2>3
    <3> HIDE DEF p, q
    <3>5. Append(p \o q, entry[c]) = p \o Append(q, entry[c])
      <4>1. /\ Append(p \o q, entry[c]) = (p \o q) \o <<entry[c]>> /\ Append(q, entry[c]) = q \o <<entry[c]>>
        BY <2>1, <3>1, AppendIsConcat, ConcatProperties
      <4>2. <<entry[c]>> \in Seq(Seq(Insertion))
        BY <2>1
      <4> QED BY <3>1, <4>1, <4>2, ConcatAssociative
    <3> QED BY <2>5, <3>2, <3>3, <3>4, <3>5
  <2> QED BY <2>4, <2>5
<1>14. ASSUME NEW c \in Caller, ReleaseStream(c)
       PROVE  \A k \in Logger, d \in Caller : Made(k)' => accepted'[d] = OnTheWay(k, d)'
  BY <1>0, <1>14, OnTheWayStays DEF ReleaseStream, Made
<1>15. ASSUME NEW c \in Caller, Exchange(c)
       PROVE  \A k \in Logger, d \in Caller : Made(k)' => accepted'[d] = OnTheWay(k, d)'
  BY <1>0, <1>15, OnTheWayStays DEF Exchange, Made
<1>16. ASSUME NEW c \in Caller, LoadInstance(c)
       PROVE  \A k \in Logger, d \in Caller : Made(k)' => accepted'[d] = OnTheWay(k, d)'
  BY <1>0, <1>16, OnTheWayStays DEF LoadInstance, Made
<1>17. ASSUME NEW c \in Caller, Stop(c)
       PROVE  \A k \in Logger, d \in Caller : Made(k)' => accepted'[d] = OnTheWay(k, d)'
  BY <1>0, <1>17, OnTheWayStays DEF Stop, Made
<1>18. ASSUME NEW c \in Caller, Join(c)
       PROVE  \A k \in Logger, d \in Caller : Made(k)' => accepted'[d] = OnTheWay(k, d)'
  BY <1>0, <1>18, OnTheWayStays DEF Join, Made
<1>19. ASSUME NEW l \in Logger, TestRunning(l)
       PROVE  \A k \in Logger, d \in Caller : Made(k)' => accepted'[d] = OnTheWay(k, d)'
  <2>1. \A k \in Logger : Made(k)' => Made(k)
    BY <1>0, <1>19 DEF TestRunning, Made
  <2> QED BY <1>0, <1>19, <2>1, OnTheWayStays DEF TestRunning
<1>20. ASSUME NEW l \in Logger, Dequeue(l)
       PROVE  \A k \in Logger, d \in Caller : Made(k)' => accepted'[d] = OnTheWay(k, d)'
  <2>1. PICK c \in Caller : /\ queue[l][c] # <<>>
                            /\ hand' = [hand EXCEPT ![l] = Head(queue[l][c])]
                            /\ queue' = [queue EXCEPT ![l][c] = Tail(queue[l][c])]
    BY <1>20 DEF Dequeue
  <2> DEFINE q == queue[l][c]
  <2>2. q \in Seq(Seq(Insertion)) /\ q # <<>>
    BY <1>0, <2>1
  <2>3. queue' = [queue EXCEPT ![l] = [queue[l] EXCEPT ![c] = Tail(q)]] /\ hand' = [hand EXCEPT ![l] = Head(q)]
    BY <2>1
  <2>4. \A i \in DOMAIN q : Line(c, q[i])
    BY DEF LoggerInv, Lines, LinesOnTheWay
  <2> HIDE DEF q
  <2>5. Head(q) \in Seq(Insertion) /\ Head(q) # <<>> /\ By(c, Head(q))
    <3>1. Head(q) = q[1] /\ 1 \in DOMAIN q
      BY <2>2
    <3> QED BY <2>4, <3>1 DEF Line
  <2>6. /\ worker[l] = "wait" /\ hand[l] = <<>> /\ Made(l) /\ worker' = [worker EXCEPT ![l] = "write"]
        /\ UNCHANGED <<written, accepted>>
    BY <1>0, <1>20 DEF Dequeue, Made
  <2> SUFFICES ASSUME NEW k \in Logger, NEW d \in Caller, Made(k)'
               PROVE  accepted'[d] = OnTheWay(k, d)'
    OBVIOUS
  <2>7. k = l
    <3>1. Made(k)
      BY <1>0, <2>6 DEF Made
    <3> QED BY <2>6, <3>1, OneMade DEF LoggerInv
  <2>8. accepted[d] = From(d, written) \o From(d, <<>>) \o queue[l][d]
    BY <1>0, <2>6 DEF OnTheWay, InHand
  <2>9. OnTheWay(l, d)' = From(d, written) \o From(d, <<Head(q)>>) \o queue'[l][d]
    <3>1. InHand(l)' = <<Head(q)>>
      BY <1>0, <2>3, <2>5 DEF InHand
    <3> QED BY <2>6, <3>1 DEF OnTheWay
  <2>10. From(d, written) \in Seq(Seq(Insertion)) /\ From(d, <<>>) = <<>>
    BY <1>0, FromFacts
  <2>11. CASE d # c
    <3>1. ~By(d, Head(q)) /\ queue'[l][d] = queue[l][d]
      BY <1>0, <2>3, <2>5, <2>11 DEF By
    <3>2. From(d, <<Head(q)>>) = <<>>
      BY <2>5, <3>1, FromFacts
    <3> QED BY <2>6, <2>7, <2>8, <2>9, <2>10, <3>1, <3>2
  <2>12. CASE d = c
    <3>1. queue'[l][c] = Tail(q) /\ queue[l][c] = q
      BY <1>0, <2>3 DEF q
    <3>2. From(c, <<Head(q)>>) = <<Head(q)>>
      BY <2>5, FromFacts
    <3>3. <<Head(q)>> \o Tail(q) = q /\ <<Head(q)>> \in Seq(Seq(Insertion)) /\ Tail(q) \in Seq(Seq(Insertion))
      BY <2>2, <2>5
    <3> DEFINE p == From(c, written)
    <3>4. p \in Seq(Seq(Insertion))
      BY <2>10, <2>12
    <3>5. accepted[c] = p \o <<>> \o q /\ OnTheWay(l, c)' = p \o <<Head(q)>> \o Tail(q)
      BY <2>8, <2>9, <2>10, <2>12, <3>1, <3>2
    <3> HIDE DEF p
    <3>6. p \o <<>> \o q = p \o q
      BY <2>2, <3>4, ConcatEmptySeq
    <3>7. p \o <<Head(q)>> \o Tail(q) = p \o q
      BY <3>3, <3>4, ConcatAssociative
    <3> QED BY <2>6, <2>7, <2>12, <3>5, <3>6, <3>7
  <2> QED BY <2>11, <2>12
<1>21. ASSUME NEW l \in Logger, Timeout(l)
       PROVE  \A k \in Logger, d \in Caller : Made(k)' => accepted'[d] = OnTheWay(k, d)'
  <2>1. \A k \in Logger : Made(k)' => Made(k)
    BY <1>0, <1>21 DEF Timeout, Made
  <2> QED BY <1>0, <1>21, <2>1, OnTheWayStays DEF Timeout
<1>22. ASSUME NEW l \in Logger, Write(l)
       PROVE  \A k \in Logger, d \in Caller : Made(k)' => accepted'[d] = OnTheWay(k, d)'
  <2>1. /\ worker[l] = "write" /\ hand[l] # <<>> /\ hand[l] \in Seq(Insertion) /\ Made(l)
        /\ written' = Append(written, hand[l]) /\ hand' = [hand EXCEPT ![l] = <<>>]
        /\ worker' = [worker EXCEPT ![l] = "test"] /\ UNCHANGED <<queue, accepted>>
    BY <1>0, <1>22 DEF Write, Out, Made
  <2> SUFFICES ASSUME NEW k \in Logger, NEW d \in Caller, Made(k)'
               PROVE  accepted'[d] = OnTheWay(k, d)'
    OBVIOUS
  <2>2. k = l
    <3>1. Made(k)
      BY <1>0, <2>1 DEF Made
    <3> QED BY <2>1, <3>1, OneMade DEF LoggerInv
  <2>3. InHand(l) = <<hand[l]>> /\ InHand(l)' = <<>>
    BY <1>0, <2>1 DEF InHand
  <2>4. accepted[d] = From(d, written) \o From(d, <<hand[l]>>) \o queue[l][d]
    BY <1>0, <2>1, <2>3 DEF OnTheWay
  <2>5. OnTheWay(l, d)' = From(d, written') \o From(d, <<>>) \o queue[l][d]
    BY <2>1, <2>3 DEF OnTheWay
  <2>6. From(d, written') = From(d, written) \o From(d, <<hand[l]>>) /\ From(d, <<>>) = <<>>
    BY <1>0, <2>1, FromFacts
  <2>7. From(d, written') \o <<>> = From(d, written')
    <3>1. From(d, written') \in Seq(Seq(Insertion))
      <4>1. written' \in Seq(Seq(Insertion))
        BY <1>0, <2>1
      <4> QED BY <4>1, FromFacts
    <3> QED BY <3>1, ConcatEmptySeq
  <2> QED BY <2>1, <2>2, <2>4, <2>5, <2>6, <2>7
<1>23. CASE UNCHANGED vars
  BY <1>0, <1>23, OnTheWayStays DEF vars, Made
<1> QED
  BY <1>1, <1>2, <1>3, <1>4, <1>5, <1>6, <1>7, <1>8, <1>9, <1>10, <1>11, <1>12, <1>13, <1>14, <1>15, <1>16,
     <1>17, <1>18, <1>19, <1>20, <1>21, <1>22, <1>23
  DEF Next, CallStep, WorkerStep

-------------------------------------------------------------------------------
(* The theorems.                                                           *)

LEMMA LoggerInitially ==
  ASSUME Init
  PROVE  LoggerInv
<1>1. Typed
  <2>1. 0 \in 0 .. NMessages /\ 0 \in 0 .. Parts /\ InitialLevel \in Level
    BY LoggerAssumption
  <2>2. "idle" \in CallerLabel /\ "none" \in WorkerLabel
    BY DEF CallerLabel, WorkerLabel
  <2>3. <<>> \in Seq(Insertion) /\ <<>> \in Seq(Seq(Insertion)) /\ <<>> \in Seq({<<>>})
    OBVIOUS
  <2> QED BY <2>1, <2>2, <2>3 DEF Init, Typed, TypeOK
<1>2. Locked
  BY LoggerAssumption DEF Init, Locked, Made
<1>3. Lines
  BY DEF Init, Lines, LinesOnTheWay, Building
<1>4. Flow
  BY DEF Init, Flow, NothingYet, Made
<1>5. Silent
  BY DEF Init, Silent
<1> QED BY <1>1, <1>2, <1>3, <1>4, <1>5 DEF LoggerInv

LEMMA LoggerKept ==
  ASSUME LoggerInv, [Next]_vars
  PROVE  LoggerInv'
<1>1. Typed' /\ Locked' /\ Silent'
  BY TypedStep, LockedStep, SilentStep
<1>2. Lines'
  BY BuildingStep, LinesOnTheWayStep DEF Lines
<1>3. Flow'
  BY HandStep, NothingYetStep, OnTheWayStep DEF Flow
<1> QED BY <1>1, <1>2, <1>3 DEF LoggerInv

\* In every reachable state the logger is published under its lock, a text in a queue or
\* on stderr is of one message, and each message is where it should be.
THEOREM LoggerAlways == Spec => []LoggerInv
<1>1. Init => LoggerInv
  BY LoggerInitially
<1>2. LoggerInv /\ [Next]_vars => LoggerInv'
  BY LoggerKept
<1> QED BY <1>1, <1>2, PTL DEF Spec

\* instance() gives all the callers that race for it the same logger, and what a caller
\* has enqueued is written, in the hand of processLogs() or in the queue, in the
\* caller's order, each message once.
THEOREM MessagesKept == Spec => []Kept
<1>1. LoggerInv => Kept
  <2> SUFFICES ASSUME LoggerInv PROVE Kept
    OBVIOUS
  <2>0. Typed /\ Locked /\ Flow
    BY DEF LoggerInv
  <2>1. OneLogger
    BY <2>0, OneMade DEF OneLogger, Made, Locked
  <2>2. ASSUME NEW c \in Caller, NEW l \in Logger, l = logger[c] PROVE accepted[c] = OnTheWay(l, c)
    <3>1. CASE pc[c] = "publish"
      BY <2>0, <2>2, <3>1 DEF Locked, Flow
    <3>2. CASE pc[c] # "publish"
      BY <2>0, <2>2, <3>2, LoggerAssumption DEF Locked, Flow
    <3> QED BY <3>1, <3>2
  <2> QED BY <2>0, <2>1, <2>2 DEF Kept, Typed, OnTheWay
<1> QED BY <1>1, LoggerAlways, PTL

\* What goes to stderr as one line consists of insertions into the stream of one message,
\* in the order they were made: a pooled stringstream brings nothing of its last message.
THEOREM LinesNeverMixed == Spec => []LinesUnmixed
<1>1. LoggerInv => LinesUnmixed
  BY DEF LoggerInv, Lines, LinesOnTheWay, Line, InsertedInOrder, LinesUnmixed
<1> QED BY <1>1, LoggerAlways, PTL

\* Once stop() has joined the worker no step of any thread writes to stderr.
THEOREM StoppedIsSilent == Spec => SilentOnceStopped
<1>1. LoggerInv /\ [Next]_vars => [stopped => written' = written]_vars
  <2> SUFFICES ASSUME LoggerInv, [Next]_vars, stopped PROVE written' = written
    OBVIOUS
  <2>1. \A l \in Logger : worker[l] # "write"
    BY DEF LoggerInv, Silent
  <2>2. CASE UNCHANGED vars
    BY <2>2 DEF vars, worker_vars
  <2>3. CASE Next
    <3>1. ASSUME NEW c \in Caller, LogCall(c) \/ SetLevel(c) \/ Shutdown(c) \/ CallStep(c) PROVE written' = written
      BY <3>1 DEF LogCall, SetLevel, Shutdown, CallStep, FirstCheck, Lock, SecondCheck, Construct, Publish,
           AcquireStream, Insert, EndOfStatement, Format, Enqueue, ReleaseStream, Exchange, LoadInstance,
           Stop, Join, worker_vars
    <3>2. ASSUME NEW l \in Logger, WorkerStep(l) PROVE written' = written
      BY <2>1, <3>2 DEF WorkerStep, TestRunning, Dequeue, Timeout, Write
    <3> QED BY <2>3, <3>1, <3>2 DEF Next
  <2> QED BY <2>2, <2>3
<1> QED BY <1>1, LoggerAlways, PTL DEF Spec, SilentOnceStopped
===============================================================================
