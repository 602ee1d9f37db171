---------------------------- MODULE ServerProofs ----------------------------
(***************************************************************************)
(* The server on the BeagleBone in both builds, and what it is connected   *)
(* to.  Over the serial line: what BBGServer does with the frames it       *)
(* reads, their order, what a crash costs, and the channel it implements,  *)
(* for every length of the message queue, every set of calls that fail and *)
(* any number of restarts.  Over sockets: what the server logs and how     *)
(* often its client is made, for every length of a record, of a queue and  *)
(* of a connection, and for every set of calls that fail.                  *)
(***************************************************************************)
EXTENDS BBGServer, SocketBuild, SequenceFacts

ComPlaces  == {"down", "open", "spawn", "mq_open", "loop", "read", "send", "join"}
TaskPlaces == {"none", "fopen", "mq_open", "loop", "receive", "log", "sleep",
               "fclose", "done"}

\* Every variable holds what the code can store in it, and taskThread runs only
\* after comTask has created it.
TypeOK ==
    /\ cpc \in ComPlaces
    /\ tpc \in TaskPlaces
    /\ cpc \in {"down", "open", "spawn"} => tpc = "none"
    /\ got \in Nat
    /\ rxBuf \in Nat
    /\ logBuf \in Nat
    /\ mq \in Seq(Nat)
    /\ file \in Seq(Nat)
    /\ erased \in Seq(Nat)
    /\ readErrors \in Nat
    /\ crashes \in Nat

LEMMA TypeInit == Init => TypeOK
BY DEF Init, TypeOK, ComPlaces, TaskPlaces

LEMMA TypeStep == TypeOK /\ [Next]_vars => TypeOK'
<1> SUFFICES ASSUME TypeOK, [Next]_vars PROVE TypeOK'
  OBVIOUS
<1> USE DEF TypeOK, ComPlaces, TaskPlaces, bufVars, logVars, histVars
<1>1. CASE Start \/ SIGINT_handler \/ Kill \/ Arrive
  BY <1>1 DEF Start, SIGINT_handler, Kill, Die, Exit, Arrive, Running
<1>2. CASE ComOpen \/ ComSpawn \/ ComMqOpen \/ ComLoop \/ ComRead
             \/ ComReadFails \/ ComSendFails \/ ComJoin
  BY <1>2 DEF ComOpen, ComSpawn, ComMqOpen, ComLoop, ComRead, ComReadFails,
     ComSendFails, ComJoin, Exit
<1>3. CASE ComSend
  <2>1. mq' \in Seq(Nat)
    BY <1>3, AppendProperties DEF ComSend
  <2> QED
    BY <1>3, <2>1 DEF ComSend
<1>4. CASE TaskFopen
  <2>1. erased \o file \in Seq(Nat) /\ <<>> \in Seq(Nat)
    BY ConcatProperties, EmptySeq
  <2> QED
    BY <1>4, <2>1 DEF TaskFopen
<1>5. CASE TaskGivesUp \/ TaskMqOpen \/ TaskLoop \/ TaskReceiveFails \/ TaskSleep
             \/ TaskClose \/ TaskFault
  BY <1>5 DEF TaskGivesUp, TaskMqOpen, TaskLoop, TaskReceiveFails, TaskSleep,
     TaskClose, TaskFault, Die, Exit
<1>6. CASE TaskReceive
  <2>1. Head(mq) \in Nat /\ Tail(mq) \in Seq(Nat)
    BY <1>6, HeadTailProperties DEF TaskReceive
  <2> QED
    BY <1>6, <2>1 DEF TaskReceive
<1>7. CASE TaskLog
  <2>1. file' \in Seq(Nat)
    BY <1>7, AppendProperties DEF TaskLog
  <2> QED
    BY <1>7, <2>1 DEF TaskLog
<1>8. CASE UNCHANGED vars
  BY <1>8 DEF vars
<1> QED
  BY <1>1, <1>2, <1>3, <1>4, <1>5, <1>6, <1>7, <1>8 DEF Next, ComTask, TaskThread

LEMMA TypeHolds == Spec => []TypeOK
BY TypeInit, TypeStep, PTL DEF Spec

-----------------------------------------------------------------------------
(* The order of the frames.                                                *)

\* Frame a may stand before frame b.  A failed read passes on what rx_buf holds:
\* nothing that was read yet, or the last frame once more.
Before(a, b) == IF readErrors = 0 THEN a < b ELSE a = 0 \/ b = 0 \/ a <= b

Ascending(q) == \A i, j \in DOMAIN q : i < j => Before(q[i], q[j])

AllBefore(S, T) == \A a \in S, b \in T : Before(a, b)

\* The places of a frame, from the one where it is last to the one where it is
\* first: the log of all runs, taskThread, the queue, comTask.
Log       == erased \o file
AtLogger  == IF tpc = "log" THEN {logBuf} ELSE {}
AtReader == IF cpc = "send" THEN {rxBuf} ELSE {}

\* No frame is newer than the last one read; rx_buf is as new as any, if it holds
\* one at all.
NoneNewer ==
    /\ rxBuf <= got
    /\ \A a \in Elems(Log) \cup AtLogger \cup Elems(mq) :
          a <= got /\ (rxBuf = 0 \/ a <= rxBuf)

InOrder ==
    /\ Ascending(Log) /\ Ascending(mq)
    /\ AllBefore(Elems(Log), AtLogger)
    /\ AllBefore(Elems(Log), Elems(mq))
    /\ AllBefore(Elems(Log), AtReader)
    /\ AllBefore(AtLogger, Elems(mq))
    /\ AllBefore(AtLogger, AtReader)
    /\ AllBefore(Elems(mq), AtReader)
    /\ NoneNewer

LEMMA AscendingTail ==
    ASSUME NEW q \in Seq(Nat), q # <<>>, Ascending(q)
    PROVE  /\ Ascending(Tail(q))
           /\ AllBefore({Head(q)}, Elems(Tail(q)))
<1>1. /\ DOMAIN q = 1..Len(q) /\ Len(q) \in Nat /\ Len(q) >= 1
      /\ Head(q) = q[1] /\ DOMAIN Tail(q) = 1..(Len(q) - 1)
  OBVIOUS
<1>2. \A i \in 1..(Len(q) - 1) : i + 1 \in 1..Len(q) /\ Tail(q)[i] = q[i + 1]
  OBVIOUS
<1>3. Ascending(Tail(q))
  <2> SUFFICES ASSUME NEW i \in 1..(Len(q) - 1), NEW j \in 1..(Len(q) - 1), i < j
               PROVE  Before(Tail(q)[i], Tail(q)[j])
    BY <1>1 DEF Ascending
  <2>1. i + 1 \in DOMAIN q /\ j + 1 \in DOMAIN q /\ i + 1 < j + 1
    BY <1>1, <1>2
  <2> QED
    BY <1>2, <2>1 DEF Ascending
<1>4. ASSUME NEW i \in 1..(Len(q) - 1) PROVE Before(Head(q), Tail(q)[i])
  <2>1. 1 \in DOMAIN q /\ i + 1 \in DOMAIN q /\ 1 < i + 1
    BY <1>1, <1>2
  <2> QED
    BY <1>1, <1>2, <2>1 DEF Ascending
<1> QED
  BY <1>1, <1>3, <1>4 DEF AllBefore, Elems

LEMMA AscendingAppend ==
    ASSUME NEW q \in Seq(Nat), NEW n \in Nat, Ascending(q), AllBefore(Elems(q), {n})
    PROVE  Ascending(Append(q, n))
<1>1. /\ DOMAIN q = 1..Len(q) /\ Len(q) \in Nat
      /\ DOMAIN Append(q, n) = 1..(Len(q) + 1)
      /\ Append(q, n)[Len(q) + 1] = n
  OBVIOUS
<1>2. \A i \in 1..Len(q) : Append(q, n)[i] = q[i]
  OBVIOUS
<1>3. \A i \in 1..Len(q) : Before(q[i], n)
  BY <1>1 DEF Elems, AllBefore
<1> QED
  BY <1>1, <1>2, <1>3 DEF Ascending

\* The log goes on where it ended, and fopen only moves it.
LEMMA LogType == TypeOK => Log \in Seq(Nat)
BY ConcatProperties DEF TypeOK, Log

LEMMA LogWritten ==
    ASSUME TypeOK, TaskLog
    PROVE  Log' = Append(Log, logBuf)
<1>1. file' = Append(file, logBuf) /\ erased' = erased
  BY DEF TaskLog
<1>2. file' = file \o <<logBuf>> /\ <<logBuf>> \in Seq(Nat)
  BY <1>1, AppendIsConcat DEF TypeOK
<1>3. erased \o (file \o <<logBuf>>) = (erased \o file) \o <<logBuf>>
  BY <1>2, ConcatAssociative DEF TypeOK
<1>4. Append(Log, logBuf) = Log \o <<logBuf>>
  BY LogType, AppendIsConcat DEF TypeOK
<1> QED
  BY <1>1, <1>2, <1>3, <1>4 DEF Log

LEMMA LogReopened ==
    ASSUME TypeOK, TaskFopen
    PROVE  Log' = Log
<1>1. CASE UNCHANGED <<file, erased>>
  BY <1>1 DEF Log
<1>2. CASE erased' = erased \o file /\ file' = <<>>
  BY <1>2, LogType, ConcatEmptySeq DEF Log
<1> QED
  BY <1>1, <1>2 DEF TaskFopen

\* No frame moves, or one in the hands of a thread is given up.
LEMMA OrderStill ==
    ASSUME TypeOK, InOrder, UNCHANGED <<got, mq, readErrors>>, Log' = Log,
           rxBuf' \in {rxBuf, 0},
           AtLogger' \subseteq AtLogger, AtReader' \subseteq AtReader
    PROVE  InOrder'
<1>1. \A a, b : Before(a, b)' <=> Before(a, b)
  BY DEF Before
<1>2. /\ Ascending(Log)' /\ Ascending(mq)'
      /\ AllBefore(Elems(Log), AtLogger)'
      /\ AllBefore(Elems(Log), Elems(mq))'
      /\ AllBefore(Elems(Log), AtReader)'
      /\ AllBefore(AtLogger, Elems(mq))'
      /\ AllBefore(AtLogger, AtReader)'
      /\ AllBefore(Elems(mq), AtReader)'
  BY <1>1 DEF InOrder, Ascending, AllBefore
<1>3. NoneNewer'
  BY DEF InOrder, NoneNewer, TypeOK
<1> QED
  BY <1>2, <1>3 DEF InOrder

LEMMA OrderRead ==
    ASSUME TypeOK, InOrder, ComRead
    PROVE  InOrder'
<1>1. /\ got' = got + 1 /\ rxBuf' = got + 1 /\ AtReader' = {got + 1}
      /\ UNCHANGED <<mq, readErrors, file, erased, tpc, logBuf>>
  BY DEF ComRead, AtReader, logVars, histVars
<1>2. Log' = Log /\ AtLogger' = AtLogger
  BY <1>1 DEF Log, AtLogger
<1>3. \A a, b : Before(a, b)' <=> Before(a, b)
  BY <1>1 DEF Before
<1>4. \A a \in Elems(Log) \cup AtLogger \cup Elems(mq) : a \in Nat
  BY LogType, ElemsType DEF TypeOK, AtLogger
<1>5. \A a \in Elems(Log) \cup AtLogger \cup Elems(mq) : a <= got
  BY DEF InOrder, NoneNewer
<1>6. \A a \in Elems(Log) \cup AtLogger \cup Elems(mq) : Before(a, got + 1)
  BY <1>4, <1>5 DEF Before, TypeOK
<1>7. NoneNewer'
  BY <1>1, <1>2, <1>4, <1>5 DEF NoneNewer, TypeOK
<1>8. /\ Ascending(Log)' /\ Ascending(mq)'
      /\ AllBefore(Elems(Log), AtLogger)'
      /\ AllBefore(Elems(Log), Elems(mq))'
      /\ AllBefore(AtLogger, Elems(mq))'
  BY <1>1, <1>2, <1>3 DEF InOrder, Ascending, AllBefore
<1>9. /\ AllBefore(Elems(Log), AtReader)'
      /\ AllBefore(AtLogger, AtReader)'
      /\ AllBefore(Elems(mq), AtReader)'
  BY <1>1, <1>2, <1>3, <1>6 DEF AllBefore
<1> QED
  BY <1>7, <1>8, <1>9 DEF InOrder

LEMMA OrderReadFails ==
    ASSUME TypeOK, InOrder, ComReadFails
    PROVE  InOrder'
<1>1. /\ readErrors' = readErrors + 1 /\ AtReader' = {rxBuf}
      /\ UNCHANGED <<mq, got, rxBuf, file, erased, tpc, logBuf>>
  BY DEF ComReadFails, AtReader, logVars, bufVars
<1>2. Log' = Log /\ AtLogger' = AtLogger
  BY <1>1 DEF Log, AtLogger
<1>3. /\ \A a \in Elems(Log) \cup AtLogger \cup Elems(mq) : a \in Nat
      /\ Log \in Seq(Nat)
  BY LogType, ElemsType DEF TypeOK, AtLogger
<1>4. \A a, b \in Nat : Before(a, b) => Before(a, b)'
  BY <1>1 DEF Before, TypeOK
<1>5. \A a \in Elems(Log) \cup AtLogger \cup Elems(mq) : Before(a, rxBuf)'
  BY <1>1 DEF InOrder, NoneNewer, Before, TypeOK
<1>6. NoneNewer'
  BY <1>1, <1>2 DEF InOrder, NoneNewer
<1>7. Ascending(Log)' /\ Ascending(mq)'
  <2>1. \A i \in DOMAIN Log : Log[i] \in Nat
    BY <1>3
  <2>2. \A i \in DOMAIN mq : mq[i] \in Nat
    BY DEF TypeOK
  <2> QED
    BY <1>1, <1>2, <1>4, <2>1, <2>2 DEF InOrder, Ascending
<1>8. /\ AllBefore(Elems(Log), AtLogger)'
      /\ AllBefore(Elems(Log), Elems(mq))'
      /\ AllBefore(AtLogger, Elems(mq))'
  BY <1>1, <1>2, <1>3, <1>4 DEF InOrder, AllBefore
<1>9. /\ AllBefore(Elems(Log), AtReader)'
      /\ AllBefore(AtLogger, AtReader)'
      /\ AllBefore(Elems(mq), AtReader)'
  BY <1>1, <1>2, <1>5 DEF AllBefore
<1> QED
  BY <1>6, <1>7, <1>8, <1>9 DEF InOrder

LEMMA OrderSend ==
    ASSUME TypeOK, InOrder, ComSend
    PROVE  InOrder'
<1>1. /\ mq' = Append(mq, rxBuf) /\ AtReader = {rxBuf} /\ AtReader' = {}
      /\ UNCHANGED <<got, rxBuf, readErrors, file, erased, tpc, logBuf>>
  BY DEF ComSend, AtReader, logVars, bufVars, histVars
<1>2. Log' = Log /\ AtLogger' = AtLogger
  BY <1>1 DEF Log, AtLogger
<1>3. \A a, b : Before(a, b)' <=> Before(a, b)
  BY <1>1 DEF Before
<1>4. Elems(mq') = Elems(mq) \cup {rxBuf}
  BY <1>1, ElemsAppend DEF TypeOK
<1>5. Ascending(mq')
  BY <1>1, AscendingAppend DEF InOrder, TypeOK
<1>6. Ascending(Log)' /\ Ascending(mq)'
  BY <1>1, <1>2, <1>3, <1>5 DEF InOrder, Ascending
<1>7. /\ AllBefore(Elems(Log), AtLogger)'
      /\ AllBefore(Elems(Log), Elems(mq))'
      /\ AllBefore(AtLogger, Elems(mq))'
      /\ AllBefore(Elems(Log), AtReader)'
      /\ AllBefore(AtLogger, AtReader)'
      /\ AllBefore(Elems(mq), AtReader)'
  BY <1>1, <1>2, <1>3, <1>4 DEF InOrder, AllBefore
<1>8. NoneNewer'
  BY <1>1, <1>2, <1>4 DEF InOrder, NoneNewer, TypeOK
<1> QED
  BY <1>6, <1>7, <1>8 DEF InOrder

LEMMA OrderReceive ==
    ASSUME TypeOK, InOrder, TaskReceive
    PROVE  InOrder'
<1>1. /\ mq # <<>> /\ mq' = Tail(mq) /\ AtLogger' = {Head(mq)}
      /\ UNCHANGED <<got, rxBuf, readErrors, file, erased, cpc>>
  BY DEF TaskReceive, AtLogger, logVars, histVars
<1>2. Log' = Log /\ AtReader' = AtReader
  BY <1>1 DEF Log, AtReader
<1>3. \A a, b : Before(a, b)' <=> Before(a, b)
  BY <1>1 DEF Before
<1>4. Elems(mq) = Elems(mq') \cup {Head(mq)}
  BY <1>1, ElemsHead DEF TypeOK
<1>5. Ascending(mq') /\ AllBefore({Head(mq)}, Elems(mq'))
  BY <1>1, AscendingTail DEF InOrder, TypeOK
<1>6. Ascending(Log)' /\ Ascending(mq)'
  BY <1>1, <1>2, <1>3, <1>5 DEF InOrder, Ascending
<1>7. /\ AllBefore(Elems(Log), AtLogger)'
      /\ AllBefore(Elems(Log), Elems(mq))'
      /\ AllBefore(AtLogger, Elems(mq))'
      /\ AllBefore(Elems(Log), AtReader)'
      /\ AllBefore(AtLogger, AtReader)'
      /\ AllBefore(Elems(mq), AtReader)'
  BY <1>1, <1>2, <1>3, <1>4, <1>5 DEF InOrder, AllBefore
<1>8. NoneNewer'
  BY <1>1, <1>2, <1>4 DEF InOrder, NoneNewer
<1> QED
  BY <1>6, <1>7, <1>8 DEF InOrder

LEMMA OrderLog ==
    ASSUME TypeOK, InOrder, TaskLog
    PROVE  InOrder'
<1>1. /\ AtLogger = {logBuf} /\ AtLogger' = {}
      /\ UNCHANGED <<got, rxBuf, readErrors, mq, cpc>>
  BY DEF TaskLog, AtLogger, bufVars, histVars
<1>2. Log' = Append(Log, logBuf) /\ AtReader' = AtReader /\ Log \in Seq(Nat)
  BY <1>1, LogWritten, LogType DEF AtReader
<1>3. \A a, b : Before(a, b)' <=> Before(a, b)
  BY <1>1 DEF Before
<1>4. Elems(Log') = Elems(Log) \cup {logBuf}
  BY <1>2, ElemsAppend DEF TypeOK
<1>5. Ascending(Log')
  BY <1>1, <1>2, AscendingAppend DEF InOrder, TypeOK
<1>6. Ascending(Log)' /\ Ascending(mq)'
  BY <1>1, <1>3, <1>5 DEF InOrder, Ascending
<1>7. /\ AllBefore(Elems(Log), AtLogger)'
      /\ AllBefore(Elems(Log), Elems(mq))'
      /\ AllBefore(AtLogger, Elems(mq))'
      /\ AllBefore(Elems(Log), AtReader)'
      /\ AllBefore(AtLogger, AtReader)'
      /\ AllBefore(Elems(mq), AtReader)'
  BY <1>1, <1>2, <1>3, <1>4 DEF InOrder, AllBefore
<1>8. NoneNewer'
  BY <1>1, <1>4 DEF InOrder, NoneNewer
<1> QED
  BY <1>6, <1>7, <1>8 DEF InOrder

LEMMA OrderStep == TypeOK /\ InOrder /\ [Next]_vars => InOrder'
<1> SUFFICES ASSUME TypeOK, InOrder, [Next]_vars PROVE InOrder'
  OBVIOUS
<1> USE DEF bufVars, logVars, histVars
<1>1. CASE Start \/ SIGINT_handler \/ Kill \/ Arrive \/ ComOpen \/ ComSpawn \/ ComMqOpen
             \/ ComLoop \/ ComSendFails \/ ComJoin \/ TaskGivesUp \/ TaskMqOpen
             \/ TaskLoop \/ TaskReceiveFails \/ TaskSleep \/ TaskClose
             \/ TaskFault \/ UNCHANGED vars
  <2>1. UNCHANGED <<got, mq, readErrors, file, erased>> /\ rxBuf' \in {rxBuf, 0}
    BY <1>1 DEF Start, SIGINT_handler, Kill, Arrive, ComOpen, ComSpawn, ComMqOpen,
       ComLoop, ComSendFails, ComJoin, TaskGivesUp, TaskMqOpen, TaskLoop,
       TaskReceiveFails, TaskSleep, TaskClose, TaskFault, Die, Exit, vars
  <2>2. /\ tpc' = "log" => tpc = "log" /\ logBuf' = logBuf
        /\ cpc' = "send" => cpc = "send" /\ rxBuf' = rxBuf
    BY <1>1 DEF Start, SIGINT_handler, Kill, Arrive, ComOpen, ComSpawn, ComMqOpen,
       ComLoop, ComSendFails, ComJoin, TaskGivesUp, TaskMqOpen, TaskLoop,
       TaskReceiveFails, TaskSleep, TaskClose, TaskFault, Die, Exit, vars
  <2> QED
    BY <2>1, <2>2, OrderStill DEF AtLogger, AtReader, Log
<1>2. CASE ComRead
  BY <1>2, OrderRead
<1>3. CASE ComReadFails
  BY <1>3, OrderReadFails
<1>4. CASE ComSend
  BY <1>4, OrderSend
<1>5. CASE TaskFopen
  <2>1. Log' = Log
    BY <1>5, LogReopened
  <2>2. /\ UNCHANGED <<got, mq, readErrors, rxBuf, cpc>>
        /\ tpc' # "log"
    BY <1>5 DEF TaskFopen
  <2> QED
    BY <2>1, <2>2, OrderStill DEF AtLogger, AtReader
<1>6. CASE TaskReceive
  BY <1>6, OrderReceive
<1>7. CASE TaskLog
  BY <1>7, OrderLog
<1> QED
  BY <1>1, <1>2, <1>3, <1>4, <1>5, <1>6, <1>7 DEF Next, ComTask, TaskThread

LEMMA OrderInit == Init => InOrder
<1> SUFFICES ASSUME Init PROVE InOrder
  OBVIOUS
<1>1. Log = <<>>
  BY DEF Init, Log
<1>2. Elems(Log) = {} /\ Elems(mq) = {} /\ AtLogger = {} /\ AtReader = {}
  BY <1>1, ElemsEmpty DEF Init, AtLogger, AtReader
<1>3. Ascending(Log) /\ Ascending(mq)
  BY <1>1 DEF Init, Ascending
<1> QED
  BY <1>2, <1>3 DEF Init, InOrder, AllBefore, NoneNewer

LEMMA OrderHolds == Spec => []InOrder
BY TypeHolds, OrderInit, OrderStep, PTL DEF Spec

\* Whatever calls fail and however often the process is killed and started
\* again, the log file never goes back to an older frame.
THEOREM LogNeverBackwards == Spec => []NeverBackwards
<1>1. TypeOK /\ InOrder => NeverBackwards
  <2> SUFFICES ASSUME TypeOK, InOrder,
                      NEW i \in DOMAIN file, NEW j \in DOMAIN file,
                      i < j, file[i] # 0, file[j] # 0
               PROVE  file[i] <= file[j]
    BY DEF NeverBackwards
  <2> DEFINE n == Len(erased)
  <2>1. /\ n \in Nat /\ DOMAIN file = 1..Len(file) /\ Len(file) \in Nat
        /\ DOMAIN Log = 1..(n + Len(file))
        /\ \A k \in 1..Len(file) : Log[n + k] = file[k]
    BY ConcatProperties DEF TypeOK, Log
  <2>2. n + i \in DOMAIN Log /\ n + j \in DOMAIN Log /\ n + i < n + j
    BY <2>1
  <2>3. Before(Log[n + i], Log[n + j])
    BY <2>2 DEF InOrder, Ascending
  <2>4. Before(file[i], file[j]) /\ file[i] \in Nat /\ file[j] \in Nat
    BY <2>1, <2>3 DEF TypeOK
  <2> QED
    BY <2>4 DEF Before
<1> QED
  BY <1>1, TypeHolds, OrderHolds, PTL

-----------------------------------------------------------------------------
(* What a crash costs.                                                     *)

\* Where a frame that did not vanish is.
Known == Queued \cup InHand \cup Logged \cup dropped

LEMMA KnownIs ==
    /\ Queued = Elems(mq) /\ InHand = AtReader \cup AtLogger
    /\ Logged = Elems(file) \cup Elems(erased)
    /\ Vanished = (1..got) \ Known
BY DEF Queued, InHand, AtReader, AtLogger, Logged, Known, Vanished, Elems

\* As long as no thread is ended in the middle of something, no frame vanishes.
LEMMA KnownGrows ==
    ASSUME TypeOK, ComTask \/ TaskThread \/ Start \/ SIGINT_handler \/ Arrive, ~TaskFault
    PROVE  Vanished' \subseteq Vanished /\ crashes' = crashes
<1> USE DEF bufVars, logVars, histVars
<1>1. CASE ComRead
  <2>1. /\ got' = got + 1 /\ AtReader = {} /\ AtReader' = {got + 1}
        /\ UNCHANGED <<mq, file, erased, dropped, AtLogger, crashes>>
    BY <1>1 DEF ComRead, AtReader, AtLogger
  <2>2. Known' = Known \cup {got + 1}
    BY <2>1, KnownIs DEF Known, Queued, InHand, Logged, AtReader, AtLogger
  <2>3. 1..(got + 1) \subseteq (1..got) \cup {got + 1}
    BY DEF TypeOK
  <2> QED
    BY <2>1, <2>2, <2>3 DEF Vanished, Known
<1>2. ASSUME got' = got, crashes' = crashes, Known \subseteq Known'
      PROVE  Vanished' \subseteq Vanished /\ crashes' = crashes
  BY <1>2 DEF Vanished, Known
<1>3. CASE ComSend
  <2>1. /\ Elems(mq') = Elems(mq) \cup {rxBuf}
        /\ UNCHANGED <<file, erased, dropped, AtLogger, crashes, got>>
        /\ AtReader = {rxBuf}
    <3>1. mq' = Append(mq, rxBuf)
      BY <1>3 DEF ComSend
    <3>2. \E T : mq \in Seq(T) /\ rxBuf \in T
      BY <1>3 DEF ComSend, TypeOK
    <3>3. Elems(mq') = Elems(mq) \cup {rxBuf}
      BY <3>1, <3>2, ElemsAppend
    <3> QED
      BY <1>3, <3>3 DEF ComSend, AtLogger, AtReader
  <2>2. Queued' = Queued \cup {rxBuf} /\ Logged' = Logged
    BY <2>1 DEF Queued, Logged, Elems
  <2>3. InHand \subseteq InHand' \cup {rxBuf}
    BY <2>1 DEF InHand, AtLogger, AtReader
  <2> QED
    BY <1>2, <2>1, <2>2, <2>3 DEF Known
<1>4. CASE ComSendFails
  BY <1>2, <1>4 DEF ComSendFails, Known, Queued, InHand, Logged
<1>5. CASE TaskReceive
  <2>1. Elems(mq) = Elems(mq') \cup {Head(mq)}
    BY <1>5, ElemsHead DEF TaskReceive, TypeOK
  <2>2. Queued = Queued' \cup {Head(mq)}
    BY <2>1 DEF Queued, Elems
  <2>3. InHand' = InHand \cup {Head(mq)}
    BY <1>5 DEF TaskReceive, InHand
  <2> QED
    BY <1>2, <1>5, <2>2, <2>3 DEF TaskReceive, Known, Logged
<1>6. CASE TaskLog
  <2>1. Elems(file') = Elems(file) \cup {logBuf} /\ erased' = erased
    BY <1>6, ElemsAppend DEF TaskLog, TypeOK
  <2>2. Logged' = Logged \cup {logBuf}
    BY <2>1 DEF Logged, Elems
  <2>3. InHand \subseteq InHand' \cup {logBuf}
    BY <1>6 DEF TaskLog, InHand
  <2> QED
    BY <1>2, <1>6, <2>2, <2>3 DEF TaskLog, Known, Queued
<1>7. CASE TaskFopen
  <2>1. Elems(file) \cup Elems(erased) = Elems(file') \cup Elems(erased')
    <3>1. CASE UNCHANGED <<file, erased>>
      BY <3>1
    <3>2. CASE erased' = erased \o file /\ file' = <<>>
      <4>1. Elems(erased \o file) = Elems(erased) \cup Elems(file)
        BY ElemsConcat DEF TypeOK
      <4> QED
        BY <3>2, <4>1, ElemsEmpty
    <3> QED
      BY <1>7, <3>1, <3>2 DEF TaskFopen
  <2>2. Logged' = Logged
    BY <2>1 DEF Logged, Elems
  <2>3. InHand' = InHand
    BY <1>7 DEF TaskFopen, InHand
  <2> QED
    BY <1>2, <1>7, <2>2, <2>3 DEF TaskFopen, Known, Queued
<1>8. CASE Start \/ SIGINT_handler \/ Arrive \/ ComOpen \/ ComSpawn \/ ComMqOpen \/ ComLoop
             \/ ComReadFails \/ ComJoin \/ TaskGivesUp \/ TaskMqOpen \/ TaskLoop
             \/ TaskReceiveFails \/ TaskSleep \/ TaskClose
  <2>1. UNCHANGED <<got, mq, file, erased, dropped, crashes>>
    BY <1>8 DEF Start, SIGINT_handler, Arrive, ComOpen, ComSpawn, ComMqOpen, ComLoop,
       ComReadFails, ComJoin, TaskGivesUp, TaskMqOpen, TaskLoop, TaskReceiveFails,
       TaskSleep, TaskClose, Exit
  <2>2. InHand \subseteq InHand'
    BY <1>8 DEF Start, SIGINT_handler, Arrive, ComOpen, ComSpawn, ComMqOpen, ComLoop,
       ComReadFails, ComJoin, TaskGivesUp, TaskMqOpen, TaskLoop, TaskReceiveFails,
       TaskSleep, TaskClose, Exit, InHand, TypeOK, Running
  <2> QED
    BY <1>2, <2>1, <2>2 DEF Known, Queued, Logged
<1> QED
  BY <1>1, <1>3, <1>4, <1>5, <1>6, <1>7, <1>8 DEF ComTask, TaskThread

\* A thread that is ended loses the frame in its hands.
LEMMA KnownShrinks ==
    ASSUME Die
    PROVE  Vanished' \subseteq Vanished \cup {rxBuf, logBuf} /\ crashes' = crashes + 1
<1>1. UNCHANGED <<got, mq, file, erased, dropped>> /\ crashes' = crashes + 1
  BY DEF Die, Exit, bufVars
<1>2. Queued' = Queued /\ Logged' = Logged
  BY <1>1 DEF Queued, Logged
<1>3. InHand \subseteq {rxBuf, logBuf}
  BY DEF InHand
<1> QED
  BY <1>1, <1>2, <1>3 DEF Vanished

LEMMA TwoMore ==
    ASSUME NEW V, IsFiniteSet(V), NEW a, NEW b, NEW W, W \subseteq V \cup {a, b}
    PROVE  Cardinality(W) \in Nat /\ Cardinality(W) <= Cardinality(V) + 2
<1> DEFINE Va == V \cup {a}
           Vb == Va \cup {b}
<1>1. /\ IsFiniteSet(Va) /\ Cardinality(V) \in Nat
      /\ Cardinality(Va) \in Nat /\ Cardinality(Va) <= Cardinality(V) + 1
  BY FS_AddElement, FS_CardinalityType
<1>2. /\ IsFiniteSet(Vb)
      /\ Cardinality(Vb) \in Nat /\ Cardinality(Vb) <= Cardinality(Va) + 1
  <2> HIDE DEF Va
  <2>1. /\ IsFiniteSet(Vb)
        /\ Cardinality(Vb) = IF b \in Va THEN Cardinality(Va) ELSE Cardinality(Va) + 1
    BY <1>1, FS_AddElement
  <2> HIDE DEF Vb
  <2> QED
    BY <1>1, <2>1
<1>3. W \in SUBSET Vb
  OBVIOUS
<1>4. IsFiniteSet(W) /\ Cardinality(W) <= Cardinality(Vb) /\ Cardinality(W) \in Nat
  BY <1>2, <1>3, FS_Subset, FS_CardinalityType
<1> HIDE DEF Va, Vb
<1> QED
  BY <1>1, <1>2, <1>4

LEMMA LossStep == TypeOK /\ CrashLoss /\ [Next]_vars => CrashLoss'
<1> SUFFICES ASSUME TypeOK, CrashLoss, [Next]_vars PROVE CrashLoss'
  OBVIOUS
<1>1. IsFiniteSet(Vanished) /\ Cardinality(Vanished) \in Nat
  <2>1. IsFiniteSet(1..got)
    BY FS_Interval DEF TypeOK
  <2>2. Vanished \in SUBSET (1..got)
    BY DEF Vanished
  <2> QED
    BY <2>1, <2>2, FS_Subset, FS_CardinalityType
<1>2. CASE Vanished' \subseteq Vanished /\ crashes' = crashes
  <2>1. Cardinality(Vanished') <= Cardinality(Vanished) /\ Cardinality(Vanished') \in Nat
    BY <1>1, <1>2, FS_Subset, FS_CardinalityType
  <2> QED
    BY <1>1, <1>2, <2>1 DEF CrashLoss, TypeOK
<1>3. CASE Die
  <2>1. Cardinality(Vanished') \in Nat
        /\ Cardinality(Vanished') <= Cardinality(Vanished) + 2 /\ crashes' = crashes + 1
    BY <1>1, <1>3, KnownShrinks, TwoMore
  <2> QED
    BY <1>1, <2>1 DEF CrashLoss, TypeOK
<1>4. CASE UNCHANGED vars
  BY <1>4 DEF vars, CrashLoss, Vanished, Queued, InHand, Logged
<1> QED
  BY <1>2, <1>3, <1>4, KnownGrows DEF Next, Kill, TaskFault

LEMMA LossInit == Init => CrashLoss
<1> SUFFICES ASSUME Init PROVE CrashLoss
  OBVIOUS
<1>1. Vanished = {}
  BY DEF Init, Vanished
<1> QED
  BY <1>1, FS_EmptySet DEF Init, CrashLoss

\* A crash costs at most the two frames in the hands of the two threads, and an
\* end of the process that is no crash costs none.
THEOREM CrashCostsTwo == Spec => []CrashLoss
BY TypeHolds, LossInit, LossStep, PTL DEF Spec

-----------------------------------------------------------------------------
(* The channel the server implements while no read fails.                  *)

Frames(S) == [src : {"UART"}, seq : S]

Flight == Queued \cup InHand

\* The frames of the log, as the channel delivers them.
Delivered == [i \in DOMAIN Log |-> [src |-> "UART", seq |-> Log[i]]]

LEMMA FrameSets ==
    ASSUME NEW S, NEW n
    PROVE  /\ Frames(S \cup {n}) = Frames(S) \cup {[src |-> "UART", seq |-> n]}
           /\ Frames(S \ {n}) = Frames(S) \ {[src |-> "UART", seq |-> n]}
<1>1. ASSUME NEW T, NEW f
      PROVE  f \in Frames(T) <=> \E k \in T : f = [src |-> "UART", seq |-> k]
  BY DEF Frames
<1>2. ASSUME NEW j, NEW k
      PROVE  [src |-> "UART", seq |-> j] = [src |-> "UART", seq |-> k] <=> j = k
  <2>1. [src |-> "UART", seq |-> j].seq = j /\ [src |-> "UART", seq |-> k].seq = k
    OBVIOUS
  <2> QED
    BY <2>1
<1> HIDE DEF Frames
<1>3. Frames(S \cup {n}) = Frames(S) \cup {[src |-> "UART", seq |-> n]}
  BY <1>1
<1>4. Frames(S \ {n}) = Frames(S) \ {[src |-> "UART", seq |-> n]}
  BY <1>1, <1>2
<1> QED
  BY <1>3, <1>4

LEMMA StillIsLose ==
    ASSUME UNCHANGED got, Log' = Log, Flight' \subseteq Flight
    PROVE  Channel!Lose
<1>1. Frames(Flight') \subseteq Frames(Flight)
  BY DEF Frames
<1> QED
  BY <1>1 DEF Channel!Lose, Frames, Flight, Log

LEMMA ReadIsProduce ==
    ASSUME TypeOK, ComRead
    PROVE  Channel!Produce("UART")
<1>1. /\ got' = got + 1 /\ UNCHANGED <<mq, file, erased, tpc, logBuf>>
      /\ Log' = Log
  BY DEF ComRead, logVars, Log
<1>2. Flight' = Flight \cup {got + 1}
  BY <1>1 DEF Flight, Queued, InHand, ComRead
<1>3. Frames(Flight') = Frames(Flight) \cup {[src |-> "UART", seq |-> got + 1]}
  BY <1>2, FrameSets
<1> QED
  BY <1>1, <1>3 DEF Channel!Produce, Frames, Flight, Log

LEMMA LogIsDeliver ==
    ASSUME TypeOK, InOrder, readErrors = 0, TaskLog
    PROVE  \E m \in Frames(Flight) : Channel!Deliver(m)
<1> DEFINE m == [src |-> "UART", seq |-> logBuf]
<1>1. /\ tpc = "log" /\ tpc' = "receive" /\ UNCHANGED <<mq, cpc, rxBuf, got>>
  BY DEF TaskLog, bufVars
<1>2. Flight = Elems(mq) \cup AtReader \cup {logBuf}
      /\ Flight' = Elems(mq) \cup AtReader
  BY <1>1, KnownIs DEF Flight, Queued, InHand, AtReader, AtLogger, Elems
<1>3. \A n \in Elems(mq) \cup AtReader : logBuf < n
  BY <1>1 DEF InOrder, AllBefore, Before, AtLogger
<1>4. Flight' = Flight \ {logBuf}
  BY <1>2, <1>3 DEF TypeOK
<1>5. Frames(Flight') = Frames(Flight) \ {m} /\ m \in Frames(Flight)
  BY ZenonT(60), <1>2, <1>4, FrameSets DEF Frames
<1>6. ASSUME NEW o \in Frames(Flight) PROVE m.seq <= o.seq
  <2>1. o.seq \in Elems(mq) \cup AtReader \cup {logBuf}
    BY <1>2 DEF Frames
  <2>2. \A n \in Elems(mq) \cup AtReader : n \in Nat
    BY ElemsType DEF TypeOK, AtReader
  <2> QED
    BY <1>3, <2>1, <2>2 DEF TypeOK
<1>7. Delivered' = Append(Delivered, m)
  <2>1. Log' = Append(Log, logBuf) /\ Log \in Seq(Nat)
    BY LogWritten, LogType
  <2>2. /\ Len(Log) \in Nat /\ DOMAIN Log = 1..Len(Log)
        /\ DOMAIN Log' = 1..(Len(Log) + 1)
        /\ \A i \in 1..Len(Log) : Log'[i] = Log[i] /\ Log[i] \in Nat
        /\ Log'[Len(Log) + 1] = logBuf
    BY <2>1 DEF TypeOK
  <2>3. Delivered \in [1..Len(Log) -> Frames(Nat)]
    BY <2>2 DEF Delivered, Frames
  <2>4. Delivered \in Seq(Frames(Nat)) /\ Len(Delivered) = Len(Log)
    BY <2>2, <2>3, FunctionIsSeq
  <2>5. m \in Frames(Nat)
    BY DEF Frames, TypeOK
  <2>6. /\ DOMAIN Delivered' = 1..(Len(Log) + 1)
        /\ Delivered' = [i \in DOMAIN Delivered' |-> Delivered'[i]]
        /\ Delivered'[Len(Log) + 1] = m
        /\ \A i \in 1..Len(Log) : Delivered'[i] = Delivered[i]
    BY <2>2 DEF Delivered
  <2> HIDE DEF Delivered, m
  <2> QED
    BY <2>2, <2>4, <2>5, <2>6, AppendIs
<1>8. Channel!Deliver(m)
  BY <1>1, <1>6, <1>5, <1>7 DEF Channel!Deliver, Frames, Flight, Delivered, Log
<1> HIDE DEF m
<1> QED
  BY <1>5, <1>8 DEF Channel!Deliver

LEMMA ChannelStep ==
    ASSUME TypeOK, InOrder, [Next]_vars, readErrors' = 0
    PROVE  Channel!Next \/ UNCHANGED Channel!chanVars
<1> USE DEF bufVars, logVars, histVars
<1>1. CASE ComRead
  <2>1. Channel!Produce("UART")
    BY <1>1, ReadIsProduce
  <2> QED
    BY <2>1 DEF Channel!Next
<1>2. CASE TaskLog
  <2>1. readErrors = 0
    BY <1>2 DEF TaskLog
  <2>2. PICK m \in Frames(Flight) : Channel!Deliver(m)
    BY <1>2, <2>1, LogIsDeliver
  <2> QED
    BY <2>2 DEF Channel!Next, Frames, Flight
<1>3. CASE ComReadFails
  BY <1>3 DEF ComReadFails, TypeOK
<1>4. CASE TaskFopen
  <2>1. Log' = Log /\ got' = got /\ Flight' = Flight
    BY <1>4, LogReopened DEF TaskFopen, Flight, Queued, InHand
  <2> QED
    BY <2>1, StillIsLose DEF Channel!Next
<1>5. CASE ComSend
  <2>1. Elems(mq') = Elems(mq) \cup {rxBuf} /\ UNCHANGED <<got, file, erased>>
    <3>1. mq' = Append(mq, rxBuf)
      BY <1>5 DEF ComSend
    <3>2. \E T : mq \in Seq(T) /\ rxBuf \in T
      BY <1>5 DEF ComSend, TypeOK
    <3>3. Elems(mq') = Elems(mq) \cup {rxBuf}
      BY <3>1, <3>2, ElemsAppend
    <3> QED
      BY <1>5, <3>3 DEF ComSend
  <2>2. Queued' = Queued \cup {rxBuf}
    BY <2>1 DEF Queued, Elems
  <2>3. Flight' = Flight
    BY <1>5, <2>2 DEF ComSend, Flight, InHand
  <2> QED
    BY <2>1, <2>3, StillIsLose DEF Channel!Next, Log
<1>6. CASE TaskReceive
  <2>1. Elems(mq) = Elems(mq') \cup {Head(mq)} /\ UNCHANGED <<got, file, erased>>
    BY <1>6, ElemsHead DEF TaskReceive, TypeOK
  <2>2. Queued = Queued' \cup {Head(mq)}
    BY <2>1 DEF Queued, Elems
  <2>3. Flight' = Flight
    BY <1>6, <2>2 DEF TaskReceive, Flight, InHand
  <2> QED
    BY <2>1, <2>3, StillIsLose DEF Channel!Next, Log
<1>7. CASE Start \/ SIGINT_handler \/ Kill \/ Arrive \/ ComOpen \/ ComSpawn \/ ComMqOpen
             \/ ComLoop \/ ComSendFails \/ ComJoin \/ TaskGivesUp \/ TaskMqOpen
             \/ TaskLoop \/ TaskReceiveFails \/ TaskSleep \/ TaskClose
             \/ TaskFault \/ UNCHANGED vars
  <2>1. /\ UNCHANGED <<got, mq, file, erased>>
        /\ tpc' = "log" => tpc = "log" /\ logBuf' = logBuf
        /\ cpc' = "send" => cpc = "send" /\ rxBuf' = rxBuf
    BY <1>7 DEF Start, SIGINT_handler, Kill, Arrive, ComOpen, ComSpawn, ComMqOpen,
       ComLoop, ComSendFails, ComJoin, TaskGivesUp, TaskMqOpen, TaskLoop,
       TaskReceiveFails, TaskSleep, TaskClose, TaskFault, Die, Exit, vars
  <2>2. Log' = Log /\ Flight' \subseteq Flight
    BY <2>1 DEF Log, Flight, Queued, InHand
  <2> QED
    BY <2>1, <2>2, StillIsLose DEF Channel!Next
<1> QED
  BY <1>1, <1>2, <1>3, <1>4, <1>5, <1>6, <1>7 DEF Next, ComTask, TaskThread

LEMMA ChannelInit == Init => Channel!Init
<1> SUFFICES ASSUME Init PROVE Channel!Init
  OBVIOUS
<1>1. Log = <<>> /\ Flight = {}
  BY DEF Init, Log, Flight, Queued, InHand
<1>2. Delivered = <<>> /\ Frames(Flight) = {}
  BY <1>1 DEF Delivered, Frames
<1> QED
  BY <1>2 DEF Init, Channel!Init, Delivered, Log, Frames, Flight

\* As long as no read has failed, the server implements the abstract channel: a
\* frame it read is logged at most once, and in the order of the line, over all
\* runs of the process.
THEOREM ServerIsChannel == Spec => ImplementsChannel
<1>1. TypeOK /\ InOrder /\ [Next]_vars
         => [readErrors' = 0 => [Channel!Next]_(Channel!chanVars)]_vars
  BY ChannelStep
<1> QED
  BY <1>1, ChannelInit, TypeHolds, OrderHolds, PTL DEF Spec, ImplementsChannel

-----------------------------------------------------------------------------
(* The socket build.                                                       *)

SockSpec == SockInit /\ [][SockNext]_sockVars

Part == Nat \X (1..RecordLen)

ClientPlaces == {"none", "socket", "connect", "spin", "create", "delay", "idle", "halted"}
TaskPcs      == {"none", "start", "receive", "send"}
ConnStates   == {"none", "queued", "open", "closed"}

SockTypeOK ==
    /\ created \in BOOLEAN
    /\ client \in [pc : ClientPlaces, n : Slots]
    /\ com \in [Slots -> [pc : TaskPcs, left : Seq(Part)]]
    /\ que \in [Slots -> Seq(Nat)]
    /\ made \in [Slots -> Nat]
    /\ queues \in [Slots -> Nat]
    /\ conn \in [Slots -> ConnStates]
    /\ stream \in [Slots -> Seq(Part)]
    /\ rows \in [Slots -> Seq(Seq(Part))]
    /\ whole \in [Slots -> BOOLEAN]

-----------------------------------------------------------------------------
(* One client.                                                             *)

\* The client has made the connection of slot i.
Passed(i) ==
    i < client.n \/ (i = client.n /\ client.pc \notin {"none", "socket", "connect"})

\* The client has created the task of slot i.
TaskMade(i) ==
    i < client.n \/ (i = client.n /\ client.pc \in {"delay", "idle", "halted"})

OneClient ==
    /\ ~created => client.pc \in {"none", "halted"} /\ client.n = 0
    /\ created => client.pc # "none"
    /\ client.pc = "create" => conn[client.n] # "none"
    /\ \A i \in Slots :
          /\ conn[i] # "none" => Passed(i)
          /\ com[i].pc # "none" => TaskMade(i) /\ conn[i] # "none"
          /\ queues[i] <= IF com[i].pc \in {"none", "start"} THEN 0 ELSE 1

-----------------------------------------------------------------------------
(* The parts of the records on their way, from the log back to the sensor. *)

\* A reading waits in the queue behind those before it.
QueueInOrder(i) ==
    /\ \A j, k \in DOMAIN que[i] : j < k => que[i][j] < que[i][k]
    /\ \A k \in DOMAIN que[i] : que[i][k] <= made[i]

Newer(i, n) == n <= made[i] /\ \A k \in DOMAIN que[i] : n < que[i][k]

\* What is left of the record being sent is an end of it.
LeftIsEnd(i) ==
    LET left == com[i].left
        n == Len(left)
    IN  IF com[i].pc = "send"
        THEN /\ n \in 1..RecordLen
             /\ \A k \in 1..n : left[k] = <<left[1][1], RecordLen - n + k>>
             /\ Newer(i, left[1][1])
        ELSE left = <<>>

RowsFollow(i) ==
    /\ \A r \in DOMAIN rows[i] :
          /\ rows[i][r] # <<>>
          /\ \A k \in 1..(Len(rows[i][r]) - 1) : Follows(rows[i][r][k], rows[i][r][k + 1])
    /\ \A r \in 1..(Len(rows[i]) - 1) : Follows(Last(rows[i][r]), Head(rows[i][r + 1]))

\* The newest part that has been sent, if there is one.
Sent(i) == stream[i] # <<>> \/ rows[i] # <<>>
Edge(i) == IF stream[i] # <<>> THEN Last(stream[i]) ELSE Last(Last(rows[i]))

StreamFollows(i) ==
    /\ \A k \in 1..(Len(stream[i]) - 1) : Follows(stream[i][k], stream[i][k + 1])
    /\ rows[i] # <<>> /\ stream[i] # <<>> => Follows(Last(Last(rows[i])), stream[i][1])
    /\ Sent(i) => Newer(i, Edge(i)[1])
    /\ Sent(i) /\ com[i].pc = "send" => Follows(Edge(i), com[i].left[1])

\* Position k of the stream begins a record, that is there as far as it was sent.
Begins(i, k) == stream[i][k][2] = 1

SentOf(i, k, n) == \A p \in 1..n : stream[i][k + p - 1] = <<stream[i][k][1], p>>

StreamWhole(i) ==
    /\ stream[i] # <<>> => Begins(i, 1)
    /\ \A k \in DOMAIN stream[i] : Begins(i, k) =>
          \/ k + RecordLen - 1 <= Len(stream[i]) /\ SentOf(i, k, RecordLen)
          \/ /\ com[i].pc = "send"
             /\ Len(stream[i]) - k + 1 = RecordLen - Len(com[i].left)
             /\ SentOf(i, k, Len(stream[i]) - k + 1)
             /\ com[i].left[1][1] = stream[i][k][1]
    /\ stream[i] = <<>> /\ com[i].pc = "send" => Len(com[i].left) = RecordLen

RowsWhole(i) == \A r \in DOMAIN rows[i] : rows[i][r] = Record(rows[i][r][1][1])

\* Before the connection is made nothing is on its way.
Untouched(i) == stream[i] = <<>> /\ rows[i] = <<>>

SlotRight(i) ==
    /\ conn[i] = "none" => Untouched(i)
    /\ QueueInOrder(i) /\ LeftIsEnd(i) /\ RowsFollow(i)
    /\ conn[i] # "closed" => StreamFollows(i)
    /\ whole[i] => RowsWhole(i)
    /\ whole[i] /\ conn[i] # "closed" => StreamWhole(i)

Records == \A i \in Slots : SlotRight(i)

-----------------------------------------------------------------------------
(* Types.                                                                  *)

LEMMA Bounds ==
    /\ RecordLen \in Nat \ {0} /\ StreamSize \in Nat \ {0} /\ MAX_QUE_SIZE \in Nat \ {0}
    /\ Slots = {0, 1} /\ MAX_TASKS - 1 = 1
BY SocketAssumption DEF Slots, MAX_TASKS

LEMMA RecordIs ==
    ASSUME NEW n \in Nat
    PROVE  /\ Record(n) \in Seq(Part) /\ Len(Record(n)) = RecordLen
           /\ \A k \in 1..RecordLen : Record(n)[k] = <<n, k>>
<1>1. Record(n) \in [1..RecordLen -> Part]
  BY DEF Record, Part
<1>2. Record(n) \in Seq(Part) /\ Len(Record(n)) = RecordLen
  BY <1>1, Bounds, FunctionIsSeq
<1> QED
  BY <1>2 DEF Record

LEMMA SockTypeInit == SockInit => SockTypeOK
<1> SUFFICES ASSUME SockInit PROVE SockTypeOK
  OBVIOUS
<1>1. \A T : <<>> \in Seq(T)
  OBVIOUS
<1> QED
  BY <1>1, Bounds DEF SockInit, SockTypeOK, ClientPlaces, TaskPcs, ConnStates

LEMMA ServerEndsType ==
    ASSUME SockTypeOK, ServerEnds, rows' = rows
    PROVE  SockTypeOK'
<1>1. \A T : <<>> \in Seq(T)
  OBVIOUS
<1> QED
  BY <1>1 DEF ServerEnds, SockTypeOK, tivaVars, ConnStates

\* FreeRTOS_send takes a part of what is left.
LEMMA FitsType ==
    ASSUME SockTypeOK, NEW i \in Slots, Fits(i) > 0
    PROVE  Fits(i) \in 1..Len(com[i].left)
<1>1. com[i].left \in Seq(Part) /\ stream[i] \in Seq(Part)
  BY DEF SockTypeOK
<1>2. Len(com[i].left) \in Nat /\ Len(stream[i]) \in Nat
  BY <1>1
<1> QED
  BY <1>2, Bounds DEF Fits

LEMMA SockTypeStep == SockTypeOK /\ [SockNext]_sockVars => SockTypeOK'
<1> SUFFICES ASSUME SockTypeOK, [SockNext]_sockVars PROVE SockTypeOK'
  OBVIOUS
<1> USE DEF SockTypeOK, ClientPlaces, TaskPcs, ConnStates, tivaVars, serverVars
<1>1. CASE HookUp \/ HookDown
  <2>1. created' \in BOOLEAN
    <3>1. May("tiva") \subseteq BOOLEAN
      BY DEF May
    <3> QED
      BY <1>1, <3>1 DEF HookUp, HookOn, HookDown
  <2>2. client' \in [pc : ClientPlaces, n : Slots]
    <3>1. CASE UNCHANGED client
      BY <3>1
    <3>2. ASSUME NEW ok \in BOOLEAN, client' = [pc |-> IF ok THEN "socket" ELSE "halted", n |-> 0]
          PROVE  client' \in [pc : ClientPlaces, n : Slots]
      BY <3>2, Bounds
    <3>3. \/ UNCHANGED client
          \/ \E ok \in BOOLEAN : client' = [pc |-> IF ok THEN "socket" ELSE "halted", n |-> 0]
      BY <1>1 DEF HookUp, HookOn, HookDown, May
    <3> QED
      BY <3>1, <3>2, <3>3
  <2> QED
    BY <1>1, <2>1, <2>2 DEF HookUp, HookOn, HookDown
<1>2. CASE ClientTask
  <2>1. CASE ClientOpens \/ ClientConnects \/ ClientGivesUp
    BY <1>2, <2>1 DEF ClientOpens, ClientConnects, ClientGivesUp, ClientGoes, ClientAt
  <2>2. CASE ClientCreatesTask
    <3>1. [pc |-> "start", left |-> <<>>] \in [pc : TaskPcs, left : Seq(Part)]
      OBVIOUS
    <3>2. com' = com \/ com' = [com EXCEPT ![client.n] = [pc |-> "start", left |-> <<>>]]
      BY <2>2 DEF ClientCreatesTask
    <3>3. com' \in [Slots -> [pc : TaskPcs, left : Seq(Part)]]
      BY <3>1, <3>2
    <3>4. client' \in [pc : ClientPlaces, n : Slots]
      BY <2>2 DEF ClientCreatesTask, ClientGoes
    <3> QED
      BY <2>2, <3>3, <3>4 DEF ClientCreatesTask
  <2>3. CASE ClientDelays
    <3>1. client.n \in {0, 1} /\ (client.n < 1 => client.n + 1 = 1)
      BY Bounds
    <3>2. client' \in [pc : ClientPlaces, n : Slots]
      BY <2>3, <3>1, Bounds DEF ClientDelays
    <3> QED
      BY <2>3, <3>2 DEF ClientDelays
  <2> QED
    BY <1>2, <2>1, <2>2, <2>3 DEF ClientTask
<1>3. ASSUME NEW i \in Slots, SensorReads(i) PROVE SockTypeOK'
  <2>1. made' = [made EXCEPT ![i] = @ + 1] /\ made' \in [Slots -> Nat] /\ made'[i] \in Nat
    BY SMTT(30), <1>3 DEF SensorReads
  <2>2. Append(que[i], made'[i]) \in Seq(Nat)
    BY <2>1, AppendProperties
  <2> QED
    BY <1>3, <2>1, <2>2 DEF SensorReads
<1>4. ASSUME NEW i \in Slots, ComTaskOf(i) PROVE SockTypeOK'
  <2>1. CASE ComStarts(i)
    <3>1. <<>> \in Seq(Nat)
      OBVIOUS
    <3>2. CASE UNCHANGED <<com, que, queues>> /\ ClientGoes("halted")
      BY <2>1, <3>2 DEF ComStarts, ClientGoes
    <3>3. CASE /\ com' = [com EXCEPT ![i].pc = "receive"]
               /\ que' = [que EXCEPT ![i] = <<>>]
               /\ queues' = [queues EXCEPT ![i] = @ + 1]
               /\ UNCHANGED client
      <4>1. com' \in [Slots -> [pc : TaskPcs, left : Seq(Part)]]
        BY ZenonT(60), <3>3
      <4>2. que' \in [Slots -> Seq(Nat)] /\ queues' \in [Slots -> Nat]
        BY <3>1, <3>3
      <4> QED
        BY <2>1, <3>3, <4>1, <4>2 DEF ComStarts
    <3> QED
      BY <2>1, <3>2, <3>3 DEF ComStarts
  <2>2. CASE ComReceives(i)
    <3>1. Head(que[i]) \in Nat /\ Tail(que[i]) \in Seq(Nat)
      BY SMTT(30), <2>2 DEF ComReceives
    <3>2. Record(Head(que[i])) \in Seq(Part)
      BY <3>1, RecordIs
    <3> QED
      BY <2>2, <3>1, <3>2 DEF ComReceives
  <2>3. CASE ComSends(i)
    <3> DEFINE n == Fits(i)
               left == com[i].left
    <3>1. n \in 1..Len(left) /\ left \in Seq(Part) /\ Len(left) \in Nat
      <4>1. Fits(i) \in 1..Len(com[i].left)
        BY <2>3, FitsType DEF ComSends
      <4> QED
        BY <4>1
    <3>2. SubSeq(left, 1, n) \in Seq(Part) /\ SubSeq(left, n + 1, Len(left)) \in Seq(Part)
      <4> HIDE DEF n, left
      <4> QED
        BY SMTT(30), <3>1
    <3>3. stream[i] \o SubSeq(left, 1, n) \in Seq(Part)
      BY <3>2
    <3> QED
      BY <2>3, <3>2, <3>3 DEF ComSends
  <2>4. CASE ComSendEnds(i)
    <3>1. <<>> \in Seq(Part)
      OBVIOUS
    <3>2. (whole[i] /\ Len(com[i].left) = RecordLen) \in BOOLEAN
      OBVIOUS
    <3> QED
      BY <2>4, <3>1, <3>2 DEF ComSendEnds, SendEnds
  <2> QED
    BY <1>4, <2>1, <2>2, <2>3, <2>4 DEF ComTaskOf
<1>5. ASSUME NEW i \in Slots, ThreadOf(i) PROVE SockTypeOK'
  <2>1. CASE ThreadOpens(i) \/ ThreadLoops(i) \/ ThreadReadFails(i)
    BY <2>1 DEF ThreadOpens, ThreadLoops, ThreadReadFails
  <2>2. CASE ThreadReads(i)
    <3>1. CASE ~pfdOk[i]
      BY <2>2, <3>1, ServerEndsType DEF ThreadReads
    <3>2. CASE pfdOk[i]
      <4>1. PICK n \in 1..RecordLen :
              /\ n <= Len(stream[i])
              /\ rows' = [rows EXCEPT ![i] = Append(@, SubSeq(stream[i], 1, n))]
              /\ stream' = [stream EXCEPT ![i] = SubSeq(@, n + 1, Len(@))]
              /\ whole' = [whole EXCEPT ![i] = @ /\ n = RecordLen]
              /\ UNCHANGED <<tivaVars, conn>>
        BY <2>2, <3>2 DEF ThreadReads
      <4>2. stream[i] \in Seq(Part) /\ Len(stream[i]) \in Nat /\ n \in Nat
        BY Bounds
      <4>3. /\ SubSeq(stream[i], 1, n) \in Seq(Part)
            /\ SubSeq(stream[i], n + 1, Len(stream[i])) \in Seq(Part)
        BY SMTT(30), <4>1, <4>2, SplitAt
      <4>4. Append(rows[i], SubSeq(stream[i], 1, n)) \in Seq(Seq(Part))
        BY <4>3, AppendProperties
      <4>5. (whole[i] /\ n = RecordLen) \in BOOLEAN
        OBVIOUS
      <4> QED
        BY <4>1, <4>3, <4>4, <4>5
    <3> QED
      BY <3>1, <3>2
  <2>3. CASE ThreadCloses(i)
    <3>1. CASE ~pfdOk[i]
      BY <2>3, <3>1, ServerEndsType DEF ThreadCloses
    <3>2. CASE pfdOk[i]
      <4>1. stream' \in [Slots -> Seq(Part)]
        <5>1. (IF conn[i] = "open" THEN <<>> ELSE stream[i]) \in Seq(Part)
          OBVIOUS
        <5> QED
          BY <2>3, <3>2, <5>1 DEF ThreadCloses
      <4>2. conn' \in [Slots -> ConnStates]
        BY <2>3, <3>2 DEF ThreadCloses
      <4> QED
        BY <2>3, <3>2, <4>1, <4>2 DEF ThreadCloses
    <3> QED
      BY <3>1, <3>2
  <2> QED
    BY <1>5, <2>1, <2>2, <2>3 DEF ThreadOf
<1>6. CASE ServerStarts \/ ServerKilled \/ Interrupted
  BY <1>6, ServerEndsType DEF ServerStarts, ServerKilled, Interrupted
<1>7. CASE Acceptor
  <2>1. CASE Listens \/ CreatesThread \/ JoinsThreads
    BY <2>1, ServerEndsType DEF Listens, CreatesThread, JoinsThreads, May
  <2>2. CASE Accepts \/ More
    BY <2>2 DEF Accepts, More
  <2> QED
    BY <1>7, <2>1, <2>2 DEF Acceptor
<1>8. CASE UNCHANGED sockVars
  BY <1>8 DEF sockVars
<1> QED
  BY <1>1, <1>2, <1>3, <1>4, <1>5, <1>6, <1>7, <1>8 DEF SockNext

LEMMA SockTypeHolds == SockSpec => []SockTypeOK
BY SockTypeInit, SockTypeStep, PTL DEF SockSpec

-----------------------------------------------------------------------------
(* The client is created once, and so are its two tasks and their queues.  *)

LEMMA OneClientInit == SockInit => OneClient
BY Bounds DEF SockInit, OneClient

\* No step but the client's and those of the two tasks changes what OneClient
\* speaks of; a connection that is closed had been made.
LEMMA ClientKept ==
    ASSUME SockTypeOK, OneClient, UNCHANGED <<created, client, queues>>,
           \A i \in Slots : com'[i].pc = "none" <=> com[i].pc = "none",
           \A i \in Slots : com'[i].pc = "start" <=> com[i].pc = "start",
           \A i \in Slots : conn'[i] = "none" <=> conn[i] = "none"
    PROVE  OneClient'
<1>1. client.n \in Slots
  BY DEF SockTypeOK
<1> QED
  BY <1>1 DEF OneClient, Passed, TaskMade

LEMMA ServerEndsKeepsClient ==
    ASSUME SockTypeOK, OneClient, ServerEnds
    PROVE  OneClient'
<1>1. \A i \in Slots : conn'[i] = "none" <=> conn[i] = "none"
  BY DEF ServerEnds
<1> QED
  BY <1>1, ClientKept DEF ServerEnds, tivaVars

LEMMA OneClientStep == SockTypeOK /\ OneClient /\ [SockNext]_sockVars => OneClient'
<1> SUFFICES ASSUME SockTypeOK, OneClient, [SockNext]_sockVars PROVE OneClient'
  OBVIOUS
<1>t. /\ client \in [pc : ClientPlaces, n : Slots] /\ Slots = {0, 1}
      /\ com \in [Slots -> [pc : TaskPcs, left : Seq(Part)]]
      /\ queues \in [Slots -> Nat] /\ conn \in [Slots -> ConnStates]
  BY Bounds DEF SockTypeOK
<1>1. CASE HookUp
  <2>1. CASE created
    BY <1>1, <2>1, ClientKept DEF HookUp, HookOn
  <2>2. CASE ~created
    <3>1. client.pc = "none" /\ client.n = 0
      BY <1>1, <2>2 DEF HookUp, HookOn, Halted, OneClient
    <3>2. \A i \in Slots : conn[i] = "none" /\ com[i].pc = "none" /\ queues[i] <= 0
      BY <1>t, <3>1 DEF OneClient, Passed
    <3>3. /\ UNCHANGED <<com, conn, queues>>
          /\ \/ created' = TRUE /\ client' = [pc |-> "socket", n |-> 0]
             \/ created' = FALSE /\ client' = [pc |-> "halted", n |-> 0]
      <4>1. PICK ok \in May("tiva") :
              created' = ok /\ client' = [pc |-> IF ok THEN "socket" ELSE "halted", n |-> 0]
        BY <1>1, <2>2 DEF HookUp, HookOn
      <4>2. ok \in BOOLEAN
        BY DEF May
      <4>3. CASE ok = TRUE
        BY <1>1, <4>1, <4>3 DEF HookUp, HookOn
      <4>4. CASE ok = FALSE
        BY <1>1, <4>1, <4>4 DEF HookUp, HookOn
      <4> QED
        BY <4>2, <4>3, <4>4
    <3>4. client'.n = 0 /\ client'.pc # "create" /\ client'.pc # "none"
          /\ (~created' => client'.pc = "halted")
      BY <3>3
    <3> QED
      BY <3>2, <3>3, <3>4 DEF OneClient
  <2> QED
    BY <2>1, <2>2
<1>2. CASE HookDown
  BY <1>2, ClientKept DEF HookDown
<1>3. CASE ClientOpens
  <2>1. /\ client.pc = "socket" /\ UNCHANGED <<created, com, queues, conn>>
        /\ client'.n = client.n /\ client'.pc \in {"connect", "halted"}
    BY <1>t, <1>3 DEF ClientOpens, ClientGoes, ClientAt
  <2> QED
    BY <1>t, <2>1 DEF OneClient, Passed, TaskMade
<1>4. CASE ClientConnects \/ ClientGivesUp
  <2>1. /\ client.pc = "connect" /\ UNCHANGED <<created, com, queues>>
        /\ client'.n = client.n
        /\ \/ client'.pc = "create" /\ conn'[client.n] = "queued"
           \/ client'.pc = "spin"
        /\ \A i \in Slots : i # client.n => conn'[i] = conn[i]
        /\ conn[client.n] # "none" => conn'[client.n] # "none"
    BY <1>t, <1>4 DEF ClientConnects, ClientGivesUp, ClientGoes, ClientAt
  <2>2. client.n \in Slots /\ com[client.n].pc = "none"
    BY <1>t, <2>1 DEF OneClient, TaskMade
  <2> QED
    BY <1>t, <2>1, <2>2 DEF OneClient, Passed, TaskMade
<1>5. CASE ClientCreatesTask
  <2>1. /\ client.pc = "create" /\ UNCHANGED <<created, conn, queues>>
        /\ client'.n = client.n
        /\ \/ client'.pc = "halted" /\ UNCHANGED com
           \/ /\ client'.pc = "delay" /\ com'[client.n].pc = "start"
              /\ \A i \in Slots : i # client.n => com'[i] = com[i]
    BY <1>t, <1>5 DEF ClientCreatesTask, ClientGoes, ClientAt
  <2>2. client.n \in Slots /\ com[client.n].pc = "none" /\ conn[client.n] # "none"
    BY <1>t, <2>1 DEF OneClient, TaskMade
  <2> QED
    BY <1>t, <2>1, <2>2 DEF OneClient, Passed, TaskMade
<1>6. CASE ClientDelays
  <2>1. /\ client.pc = "delay" /\ UNCHANGED <<created, com, conn, queues>>
        /\ \/ client.n = 0 /\ client'.n = 1 /\ client'.pc = "socket"
           \/ client.n = 1 /\ client'.n = 1 /\ client'.pc = "idle"
    BY <1>t, <1>6, Bounds DEF ClientDelays, ClientAt
  <2> QED
    BY <1>t, <2>1 DEF OneClient, Passed, TaskMade
<1>7. ASSUME NEW i \in Slots, SensorReads(i) \/ ComReceives(i) \/ ComSends(i) \/ ComSendEnds(i)
      PROVE  OneClient'
  <2>1. /\ UNCHANGED <<created, client, queues, conn>>
        /\ com[i].pc \in {"receive", "send"} /\ com'[i].pc \in {"receive", "send"}
        /\ \A j \in Slots : j # i => com'[j] = com[j]
    <3>1. CASE SensorReads(i)
      BY <1>t, <3>1 DEF SensorReads
    <3>2. CASE ComReceives(i)
      BY <1>t, <3>2 DEF ComReceives
    <3>3. CASE ComSends(i)
      BY <1>t, <3>3 DEF ComSends
    <3>4. CASE ComSendEnds(i)
      BY <1>t, <3>4 DEF ComSendEnds, SendEnds
    <3> QED
      BY <1>7, <3>1, <3>2, <3>3, <3>4
  <2> QED
    BY <2>1, ClientKept
<1>8. ASSUME NEW i \in Slots, ComStarts(i) PROVE OneClient'
  <2>1. /\ com[i].pc = "start" /\ UNCHANGED <<created, conn>>
        /\ \A j \in Slots : j # i => com'[j] = com[j] /\ queues'[j] = queues[j]
        /\ client'.n = client.n
        /\ \/ com'[i].pc = "receive" /\ queues'[i] = queues[i] + 1 /\ client' = client
           \/ client'.pc = "halted" /\ UNCHANGED <<com, queues>>
    BY <1>t, <1>8 DEF ComStarts, ClientGoes
  <2>2. queues[i] <= 0 /\ queues[i] \in Nat /\ client.pc # "none" /\ conn[i] # "none"
    BY <1>t, <2>1 DEF OneClient, TaskMade
  <2>3. CASE com'[i].pc = "receive" /\ queues'[i] = queues[i] + 1 /\ client' = client
    BY <1>t, <2>1, <2>2, <2>3 DEF OneClient, Passed, TaskMade
  <2>4. CASE client'.pc = "halted" /\ UNCHANGED <<com, queues>>
    BY <1>t, <2>1, <2>2, <2>4 DEF OneClient, Passed, TaskMade
  <2> QED
    BY <2>1, <2>3, <2>4
<1>9. ASSUME NEW i \in Slots, ThreadOf(i) PROVE OneClient'
  <2>1. CASE ServerEnds
    BY <2>1, ServerEndsKeepsClient
  <2>2. CASE ~ServerEnds
    <3>1. /\ UNCHANGED tivaVars
          /\ \A j \in Slots : conn'[j] = "none" <=> conn[j] = "none"
      BY <1>t, <1>9, <2>2 DEF ThreadOf, ThreadOpens, ThreadLoops, ThreadReads, ThreadReadFails,
         ThreadCloses
    <3> QED
      BY <3>1, ClientKept DEF tivaVars
  <2> QED
    BY <2>1, <2>2
<1>10. CASE ServerStarts \/ ServerKilled \/ Interrupted \/ Acceptor
  <2>1. CASE ServerEnds
    BY <2>1, ServerEndsKeepsClient
  <2>2. CASE ~ServerEnds
    <3>1. /\ UNCHANGED tivaVars
          /\ \A j \in Slots : conn'[j] = "none" <=> conn[j] = "none"
      BY <1>t, <1>10, <2>2 DEF ServerStarts, ServerKilled, Interrupted, Acceptor, Listens,
         Accepts, CreatesThread, More, JoinsThreads
    <3> QED
      BY <3>1, ClientKept DEF tivaVars
  <2> QED
    BY <2>1, <2>2
<1>11. CASE UNCHANGED sockVars
  BY <1>11, ClientKept DEF sockVars, tivaVars
<1> QED
  BY <1>1, <1>2, <1>3, <1>4, <1>5, <1>6, <1>7, <1>8, <1>9, <1>10, <1>11
     DEF SockNext, ClientTask, ComTaskOf

LEMMA OneClientHolds == SockSpec => []OneClient
BY OneClientInit, OneClientStep, SockTypeHolds, PTL DEF SockSpec

\* However often the network comes and goes, whatever call fails and however
\* often the server dies: each of the two tasks is created once, on a connection
\* that was made, and each of the two queues once.
THEOREM ClientMadeOnce == SockSpec => []ClientRight
<1>1. SockTypeOK /\ OneClient => ClientRight
  BY DEF SockTypeOK, OneClient, ClientRight
<1> QED
  BY <1>1, SockTypeHolds, OneClientHolds, PTL
-----------------------------------------------------------------------------
(* The records of a slot, step by step.                                    *)

LEMMA RecordsInit == SockInit => Records
<1> SUFFICES ASSUME SockInit, NEW i \in Slots PROVE SlotRight(i)
  BY DEF Records
<1>1. /\ com[i] = [pc |-> "none", left |-> <<>>] /\ que[i] = <<>> /\ conn[i] = "none"
      /\ stream[i] = <<>> /\ rows[i] = <<>>
  BY DEF SockInit
<1>2. Untouched(i) /\ QueueInOrder(i) /\ LeftIsEnd(i) /\ RowsFollow(i) /\ RowsWhole(i)
  BY <1>1 DEF Untouched, QueueInOrder, LeftIsEnd, RowsFollow, RowsWhole
<1>3. StreamFollows(i) /\ StreamWhole(i)
  BY <1>1 DEF StreamFollows, StreamWhole, Sent
<1> QED
  BY <1>2, <1>3 DEF SlotRight

\* The types of what a slot holds.
SlotType(i) ==
    /\ com[i] \in [pc : TaskPcs, left : Seq(Part)]
    /\ que[i] \in Seq(Nat) /\ made[i] \in Nat /\ conn[i] \in ConnStates
    /\ stream[i] \in Seq(Part) /\ rows[i] \in Seq(Seq(Part)) /\ whole[i] \in BOOLEAN

LEMMA SlotTyped ==
    ASSUME SockTypeOK, NEW i \in Slots
    PROVE  SlotType(i)
BY DEF SockTypeOK, SlotType

LEMMA EdgeIsPart ==
    ASSUME SockTypeOK, NEW i \in Slots, RowsFollow(i), Sent(i)
    PROVE  Edge(i) \in Part /\ Edge(i)[1] \in Nat
<1>1. stream[i] # <<>> => Last(stream[i]) \in Part
  BY DEF SockTypeOK, Last
<1>2. ASSUME rows[i] # <<>> PROVE Last(Last(rows[i])) \in Part
  <2>1. rows[i] \in Seq(Seq(Part)) /\ Len(rows[i]) \in DOMAIN rows[i]
    BY <1>2 DEF SockTypeOK
  <2>2. Last(rows[i]) \in Seq(Part) /\ Last(rows[i]) # <<>>
    BY <2>1 DEF RowsFollow, Last
  <2> QED
    BY <2>2 DEF Last
<1> QED
  BY <1>1, <1>2 DEF Sent, Edge, Part

\* The first part that is left to send.
LEMMA LeftIsPart ==
    ASSUME SockTypeOK, NEW i \in Slots, LeftIsEnd(i), com[i].pc = "send"
    PROVE  /\ com[i].left \in Seq(Part) /\ Len(com[i].left) \in 1..RecordLen
           /\ com[i].left[1] \in Part /\ com[i].left[1][1] \in Nat
<1>1. com[i].left \in Seq(Part) /\ Len(com[i].left) \in 1..RecordLen
  BY DEF SockTypeOK, LeftIsEnd
<1>2. Len(com[i].left) >= 1 /\ Len(com[i].left) \in Nat
  BY <1>1, Bounds
<1>3. com[i].left[1] \in Part
  BY <1>1, <1>2
<1> QED
  BY <1>1, <1>3 DEF Part

\* Nothing of the slot changes but, perhaps, its connection.
LEMMA ConnectionMoves ==
    ASSUME NEW i, SlotRight(i),
           com'[i] = com[i], que'[i] = que[i], made'[i] = made[i], whole'[i] = whole[i],
           stream'[i] = stream[i], rows'[i] = rows[i],
           conn'[i] = conn[i] \/ (conn[i] # "closed" /\ conn'[i] # "none")
    PROVE  SlotRight(i)'
<1>1. /\ (QueueInOrder(i) => QueueInOrder(i)') /\ (LeftIsEnd(i) => LeftIsEnd(i)')
      /\ (RowsFollow(i) => RowsFollow(i)') /\ (RowsWhole(i) => RowsWhole(i)')
      /\ (Untouched(i) => Untouched(i)')
  BY DEF QueueInOrder, LeftIsEnd, Newer, RowsFollow, RowsWhole, Untouched
<1>2. StreamFollows(i) => StreamFollows(i)'
  BY DEF StreamFollows, Sent, Edge, Newer
<1>3. StreamWhole(i) => StreamWhole(i)'
  BY DEF StreamWhole, Begins, SentOf
<1> QED
  BY <1>1, <1>2, <1>3 DEF SlotRight

\* The connection is closed, or was never made, and what was on its way is gone.
LEMMA ConnectionCloses ==
    ASSUME NEW i, SlotRight(i),
           com'[i] = com[i], que'[i] = que[i], made'[i] = made[i], whole'[i] = whole[i],
           rows'[i] = rows[i],
           \/ conn'[i] = "closed"
           \/ conn'[i] = "none" /\ conn[i] = "none" /\ stream'[i] = <<>>
    PROVE  SlotRight(i)'
<1>1. CASE conn'[i] = "closed"
  <2>1. /\ (QueueInOrder(i) => QueueInOrder(i)') /\ (LeftIsEnd(i) => LeftIsEnd(i)')
        /\ (RowsFollow(i) => RowsFollow(i)') /\ (RowsWhole(i) => RowsWhole(i)')
    BY DEF QueueInOrder, LeftIsEnd, Newer, RowsFollow, RowsWhole
  <2> QED
    BY <1>1, <2>1 DEF SlotRight
<1>2. CASE conn'[i] = "none" /\ conn[i] = "none" /\ stream'[i] = <<>>
  <2>1. stream'[i] = stream[i] /\ conn'[i] = conn[i]
    BY <1>2 DEF SlotRight, Untouched
  <2> QED
    BY <2>1, ConnectionMoves
<1> QED
  BY <1>1, <1>2

\* The task of the slot is created, or creates its queue.
LEMMA TaskStarts ==
    ASSUME NEW i \in Slots, SockTypeOK, SlotRight(i), com[i].pc # "send",
           com'[i].pc \in {"start", "receive"}, com'[i].left = <<>>,
           que'[i] = que[i] \/ que'[i] = <<>>,
           made'[i] = made[i], whole'[i] = whole[i], stream'[i] = stream[i],
           rows'[i] = rows[i], conn'[i] = conn[i]
    PROVE  SlotRight(i)'
<1>1. /\ (QueueInOrder(i) => QueueInOrder(i)') /\ LeftIsEnd(i)'
      /\ (RowsFollow(i) => RowsFollow(i)') /\ (RowsWhole(i) => RowsWhole(i)')
      /\ (Untouched(i) => Untouched(i)')
  BY DEF QueueInOrder, LeftIsEnd, RowsFollow, RowsWhole, Untouched
<1>2. StreamFollows(i) => StreamFollows(i)'
  <2>1. (Sent(i)' <=> Sent(i)) /\ Edge(i)' = Edge(i)
    BY DEF Sent, Edge
  <2>2. Newer(i, Edge(i)[1]) => Newer(i, Edge(i)[1])'
    BY <2>1 DEF Newer
  <2>3. com'[i].pc # "send"
    OBVIOUS
  <2> QED
    BY <2>1, <2>2, <2>3 DEF StreamFollows
<1>3. StreamWhole(i) => StreamWhole(i)'
  BY DEF StreamWhole, Begins, SentOf
<1> QED
  BY <1>1, <1>2, <1>3 DEF SlotRight

\* A reading joins the queue, or is lost because the queue is full.
LEMMA ReadingJoins ==
    ASSUME NEW i \in Slots, SockTypeOK, SlotRight(i), SensorReads(i)
    PROVE  SlotRight(i)'
<1> DEFINE q == que[i]
           n == made[i]
<1>1. /\ com' = com /\ whole' = whole /\ stream' = stream /\ rows' = rows /\ conn' = conn
      /\ made'[i] = n + 1
      /\ que'[i] = q \/ que'[i] = Append(q, n + 1)
  BY DEF SensorReads, SockTypeOK, serverVars
<1>2. q \in Seq(Nat) /\ n \in Nat
  BY DEF SockTypeOK
<1>3. /\ \A j, k \in DOMAIN q : j < k => q[j] < q[k]
      /\ \A k \in DOMAIN q : q[k] <= n
  BY DEF SlotRight, QueueInOrder
<1>4. QueueInOrder(i)'
  <2>1. CASE que'[i] = q
    BY <1>1, <1>2, <1>3, <2>1 DEF QueueInOrder
  <2>2. CASE que'[i] = Append(q, n + 1)
    <3> DEFINE a == Append(q, n + 1)
    <3>1. /\ DOMAIN q = 1..Len(q) /\ DOMAIN a = 1..(Len(q) + 1) /\ Len(q) \in Nat
          /\ a[Len(q) + 1] = n + 1 /\ \A k \in 1..Len(q) : a[k] = q[k]
      BY <1>2
    <3>2. \A k \in 1..Len(q) : q[k] \in Nat
      BY <1>2
    <3> HIDE DEF a, q, n
    <3>3. \A k \in DOMAIN a : a[k] <= n + 1
      BY <1>2, <1>3, <3>1, <3>2
    <3>4. \A j, k \in DOMAIN a : j < k => a[j] < a[k]
      BY <1>2, <1>3, <3>1, <3>2
    <3> QED
      BY <1>1, <2>2, <3>3, <3>4 DEF QueueInOrder, a, n
  <2> QED
    BY <1>1, <2>1, <2>2
<1>5. ASSUME NEW m \in Nat, Newer(i, m)
      PROVE  m <= made'[i] /\ \A k \in DOMAIN que'[i] : m < que'[i][k]
  <2>1. m <= n /\ \A k \in DOMAIN q : m < q[k]
    BY <1>5 DEF Newer
  <2>2. \A k \in DOMAIN Append(q, n + 1) : m < Append(q, n + 1)[k]
    BY <1>2, <2>1
  <2>3. m <= n + 1
    BY <1>2, <2>1
  <2> QED
    BY <1>1, <2>1, <2>2, <2>3 DEF Newer
<1>6. LeftIsEnd(i)'
  <2>1. CASE com[i].pc = "send"
    <3>1. com[i].left[1][1] \in Nat
      BY <2>1, LeftIsPart DEF SlotRight
    <3> QED
      BY <1>1, <1>5, <2>1, <3>1 DEF SlotRight, LeftIsEnd, Newer
  <2>2. CASE com[i].pc # "send"
    BY <1>1, <2>2 DEF SlotRight, LeftIsEnd
  <2> QED
    BY <2>1, <2>2
<1>7. /\ RowsFollow(i) /\ RowsFollow(i)'
      /\ (RowsWhole(i) => RowsWhole(i)')
      /\ (Untouched(i) => Untouched(i)')
  BY <1>1 DEF RowsFollow, RowsWhole, Untouched, SlotRight
<1>8. StreamFollows(i) => StreamFollows(i)'
  <2>1. Sent(i) => Edge(i)[1] \in Nat
    BY <1>7, EdgeIsPart
  <2>2. (Sent(i)' <=> Sent(i)) /\ Edge(i)' = Edge(i)
    BY <1>1 DEF Sent, Edge
  <2>3. Sent(i) /\ Newer(i, Edge(i)[1]) => Newer(i, Edge(i)[1])'
    <3>1. ASSUME Sent(i), Newer(i, Edge(i)[1]) PROVE Newer(i, Edge(i)[1])'
      <4> DEFINE m == Edge(i)[1]
      <4>1. m \in Nat /\ Newer(i, m) /\ m' = m
        BY <2>1, <2>2, <3>1
      <4> HIDE DEF m
      <4>2. Newer(i, m)'
        BY <1>5, <4>1 DEF Newer
      <4> QED
        BY <4>2 DEF m
    <3> QED
      BY <3>1
  <2> QED
    BY <1>1, <2>2, <2>3 DEF StreamFollows
<1>9. StreamWhole(i) => StreamWhole(i)'
  BY <1>1 DEF StreamWhole, Begins, SentOf
<1> QED
  BY <1>1, <1>4, <1>6, <1>7, <1>8, <1>9 DEF SlotRight
\* The task takes the oldest reading out of its queue.
LEMMA ReadingTaken ==
    ASSUME NEW i \in Slots, SockTypeOK, SlotRight(i), ComReceives(i)
    PROVE  SlotRight(i)'
<1> DEFINE q == que[i]
           h == Head(que[i])
<1>1. /\ whole' = whole /\ stream' = stream /\ rows' = rows /\ conn' = conn /\ made' = made
      /\ com[i].pc = "receive" /\ com'[i] = [pc |-> "send", left |-> Record(h)]
      /\ que'[i] = Tail(q) /\ q # <<>>
  BY DEF ComReceives, SockTypeOK, serverVars
<1>2. /\ q \in Seq(Nat) /\ Len(q) \in Nat /\ Len(q) >= 1 /\ DOMAIN q = 1..Len(q)
      /\ h = q[1] /\ h \in Nat /\ made[i] \in Nat
      /\ DOMAIN Tail(q) = 1..(Len(q) - 1)
      /\ \A k \in 1..(Len(q) - 1) : Tail(q)[k] = q[k + 1]
  BY SMTT(30), <1>1 DEF SockTypeOK
<1>3. /\ \A j, k \in DOMAIN q : j < k => q[j] < q[k]
      /\ \A k \in DOMAIN q : q[k] <= made[i]
  BY DEF SlotRight, QueueInOrder
<1>4. /\ Record(h) \in Seq(Part) /\ Len(Record(h)) = RecordLen
      /\ \A k \in 1..RecordLen : Record(h)[k] = <<h, k>>
  BY <1>2, RecordIs
<1> DEFINE n == Len(q)
           t == Tail(q)
<1> HIDE DEF q, h, n, t
<1>5. /\ n \in Nat /\ n >= 1 /\ DOMAIN q = 1..n /\ DOMAIN t = 1..(n - 1)
      /\ \A k \in 1..(n - 1) : t[k] = q[k + 1]
      /\ h = q[1] /\ h \in Nat
  BY <1>2 DEF n, t
<1>6. \A k \in 1..(n - 1) : k + 1 \in DOMAIN q
  BY <1>5
<1>7. QueueInOrder(i)'
  <2>1. ASSUME NEW j \in 1..(n - 1), NEW k \in 1..(n - 1), j < k PROVE t[j] < t[k]
    <3>1. j + 1 \in DOMAIN q /\ k + 1 \in DOMAIN q /\ j + 1 < k + 1
      BY <1>5, <1>6, <2>1
    <3>2. t[j] = q[j + 1] /\ t[k] = q[k + 1]
      BY <1>5
    <3> QED
      BY <1>3, <3>1, <3>2
  <2>2. \A k \in DOMAIN t : t[k] <= made[i]
    BY <1>3, <1>5, <1>6
  <2> QED
    BY <1>1, <1>5, <2>1, <2>2 DEF QueueInOrder, t
<1>8. \A k \in DOMAIN t : h < t[k]
  <2>1. 1 \in DOMAIN q /\ \A k \in 1..(n - 1) : 1 < k + 1
    BY <1>5
  <2> QED
    BY <1>3, <1>5, <1>6, <2>1
<1>9. ASSUME NEW m, Newer(i, m) PROVE Newer(i, m)' /\ m < h
  <2>1. \A k \in DOMAIN t : m < t[k]
    BY <1>5, <1>6, <1>9 DEF Newer, q
  <2>2. 1 \in DOMAIN q
    BY <1>5
  <2> QED
    BY <1>1, <1>5, <1>9, <2>1, <2>2 DEF Newer, q, t
<1>10. LeftIsEnd(i)'
  <2>1. com'[i].pc = "send" /\ com'[i].left = Record(h)
    BY <1>1 DEF h
  <2>2. h <= made[i]
    BY <1>3, <1>5
  <2>3. Record(h)[1][1] = h
    BY <1>4, Bounds
  <2>4. /\ Len(Record(h)) \in 1..RecordLen
        /\ \A k \in 1..RecordLen : Record(h)[k] = <<h, RecordLen - RecordLen + k>>
    BY <1>4, Bounds
  <2> QED
    BY <1>1, <1>4, <1>8, <2>1, <2>2, <2>3, <2>4 DEF LeftIsEnd, Newer, t
<1>11. /\ RowsFollow(i) /\ RowsFollow(i)'
       /\ (RowsWhole(i) => RowsWhole(i)')
       /\ (Untouched(i) => Untouched(i)')
  BY <1>1 DEF RowsFollow, RowsWhole, Untouched, SlotRight
<1>12. StreamFollows(i) => StreamFollows(i)'
  <2> SUFFICES ASSUME StreamFollows(i) PROVE StreamFollows(i)'
    OBVIOUS
  <2>1. (Sent(i)' <=> Sent(i)) /\ Edge(i)' = Edge(i)
    BY <1>1 DEF Sent, Edge
  <2>2. ASSUME Sent(i)
        PROVE  Newer(i, Edge(i)[1])' /\ Follows(Edge(i), Record(h)[1])
    <3> DEFINE m == Edge(i)[1]
    <3>1. Newer(i, m) /\ m \in Nat /\ m' = m
      BY <1>11, <2>1, <2>2, EdgeIsPart DEF StreamFollows
    <3>2. Record(h)[1] = <<h, 1>>
      BY <1>4, Bounds
    <3> HIDE DEF m
    <3>3. m < h /\ m <= made[i] /\ \A k \in DOMAIN t : m < t[k]
      <4>1. /\ m <= made[i] /\ \A k \in DOMAIN q : m < q[k]
        BY <3>1 DEF Newer, q
      <4> QED
        BY <1>5, <1>6, <4>1
    <3>4. Newer(i, m)'
      BY <1>1, <3>1, <3>3 DEF Newer, t
    <3> QED
      BY <3>2, <3>3, <3>4 DEF m, Follows
  <2>3. com'[i].pc = "send" /\ com'[i].left = Record(h)
    BY <1>1 DEF h
  <2> QED
    BY <1>1, <2>1, <2>2, <2>3 DEF StreamFollows, Follows
<1>13. StreamWhole(i) => StreamWhole(i)'
  <2>1. com[i].pc # "send" /\ com'[i].left = Record(h) /\ Len(com'[i].left) = RecordLen
    BY <1>1, <1>4 DEF h
  <2> QED
    BY <1>1, <2>1 DEF StreamWhole, Begins, SentOf
<1> QED
  BY <1>1, <1>7, <1>10, <1>11, <1>12, <1>13 DEF SlotRight

\* A send that ends early drops what is left of the record.
LEMMA SendDropped ==
    ASSUME NEW i \in Slots, SockTypeOK, SlotRight(i), ComSendEnds(i)
    PROVE  SlotRight(i)'
<1>1. /\ stream' = stream /\ rows' = rows /\ conn' = conn /\ made' = made /\ que' = que
      /\ com[i].pc = "send" /\ com'[i].pc = "receive" /\ com'[i].left = <<>>
      /\ whole'[i] <=> whole[i] /\ Len(com[i].left) = RecordLen
  BY DEF ComSendEnds, SendEnds, SockTypeOK, serverVars
<1>2. /\ (QueueInOrder(i) => QueueInOrder(i)') /\ LeftIsEnd(i)'
      /\ (RowsFollow(i) => RowsFollow(i)') /\ (RowsWhole(i) => RowsWhole(i)')
      /\ (Untouched(i) => Untouched(i)')
  BY <1>1 DEF QueueInOrder, LeftIsEnd, RowsFollow, RowsWhole, Untouched
<1>3. StreamFollows(i) => StreamFollows(i)'
  <2>1. (Sent(i)' <=> Sent(i)) /\ Edge(i)' = Edge(i)
    BY <1>1 DEF Sent, Edge
  <2>2. Newer(i, Edge(i)[1]) => Newer(i, Edge(i)[1])'
    BY <1>1, <2>1 DEF Newer
  <2> QED
    BY <1>1, <2>1, <2>2 DEF StreamFollows
<1>4. StreamWhole(i) /\ whole'[i] => StreamWhole(i)'
  <2> SUFFICES ASSUME StreamWhole(i), whole'[i] PROVE StreamWhole(i)'
    OBVIOUS
  <2>1. Len(com[i].left) = RecordLen /\ stream[i] \in Seq(Part)
    BY <1>1 DEF SockTypeOK
  <2>2. ASSUME NEW k \in DOMAIN stream[i] PROVE Len(stream[i]) - k + 1 # 0
    BY <2>1
  <2>3. ASSUME NEW k \in DOMAIN stream[i], Begins(i, k)
        PROVE  k + RecordLen - 1 <= Len(stream[i]) /\ SentOf(i, k, RecordLen)
    BY <2>1, <2>2, <2>3, Bounds DEF StreamWhole
  <2> QED
    BY <1>1, <2>3 DEF StreamWhole, Begins, SentOf
<1> QED
  BY <1>1, <1>2, <1>3, <1>4 DEF SlotRight
\* FreeRTOS_send moves the next parts of the record into the connection; one that
\* is closed swallows them.
LEMMA PartsSent ==
    ASSUME NEW i \in Slots, SockTypeOK, SlotRight(i), ComSends(i), conn[i] # "none"
    PROVE  SlotRight(i)'
<1> DEFINE left == com[i].left
           c == Len(left)
           n == Fits(i)
           a == left[1][1]
           s == stream[i]
           m == Len(s)
           rest == SubSeq(left, n + 1, c)
           s2 == s \o SubSeq(left, 1, n)
<1>1. /\ whole' = whole /\ rows' = rows /\ conn' = conn /\ made' = made /\ que' = que
      /\ com[i].pc = "send"
      /\ com'[i] = [pc |-> IF rest = <<>> THEN "receive" ELSE "send", left |-> rest]
      /\ stream'[i] = IF conn[i] = "closed" THEN s ELSE s2
  BY DEF ComSends, SockTypeOK, serverVars
<1>2. n \in 1..c
  BY FitsType DEF ComSends
<1>3. /\ left \in Seq(Part) /\ c \in 1..RecordLen /\ left[1] \in Part /\ a \in Nat
      /\ \A k \in 1..c : left[k] = <<a, RecordLen - c + k>>
      /\ Newer(i, a)
  BY <1>1, LeftIsPart DEF SlotRight, LeftIsEnd
<1>4. c \in Nat /\ n \in Nat /\ n >= 1 /\ n <= c /\ c <= RecordLen /\ RecordLen \in Nat
  BY <1>2, <1>3, Bounds
<1>5. /\ Len(rest) = c - n /\ (rest = <<>> <=> c = n)
      /\ \A k \in 1..(c - n) : rest[k] = left[n + k]
  <2> HIDE DEF left, n
  <2>1. n \in 0..Len(left) /\ left \in Seq(Part)
    BY <1>3, <1>4
  <2>2. /\ rest \in Seq(Part) /\ Len(rest) = c - n
        /\ \A k \in 1..(c - n) : rest[k] = left[n + k]
    BY <2>1, SplitAt
  <2> HIDE DEF rest, c
  <2>3. rest = <<>> <=> Len(rest) = 0
    BY <2>2
  <2> QED
    BY <1>4, <2>2, <2>3
<1>6. s \in Seq(Part) /\ m \in Nat /\ DOMAIN s = 1..m
  BY DEF SockTypeOK
<1>7. /\ s2 \in Seq(Part) /\ Len(s2) = m + n /\ DOMAIN s2 = 1..(m + n)
      /\ \A k \in 1..m : s2[k] = s[k]
      /\ \A k \in 1..n : s2[m + k] = left[k]
  <2> DEFINE b == SubSeq(left, 1, n)
  <2> HIDE DEF left, n
  <2>1. b \in Seq(Part) /\ Len(b) = n /\ \A k \in 1..n : b[k] = left[k]
    <3>1. n \in 0..Len(left) /\ left \in Seq(Part)
      BY <1>3, <1>4
    <3> QED
      BY <3>1, SplitAt
  <2> HIDE DEF b, s, m
  <2>2. /\ s \o b \in Seq(Part) /\ Len(s \o b) = m + n
        /\ \A k \in 1..m : (s \o b)[k] = s[k]
        /\ \A k \in 1..n : (s \o b)[m + k] = b[k]
    <3>1. s \in Seq(Part) /\ m = Len(s)
      BY <1>6 DEF m
    <3>2. /\ s \o b \in Seq(Part) /\ Len(s \o b) = Len(s) + Len(b)
          /\ \A k \in 1..Len(s) : (s \o b)[k] = s[k]
          /\ \A k \in 1..Len(b) : (s \o b)[Len(s) + k] = b[k]
      <4>1. \A u, v \in Seq(Part) :
               /\ u \o v \in Seq(Part) /\ Len(u \o v) = Len(u) + Len(v)
               /\ \A k \in 1..Len(u) : (u \o v)[k] = u[k]
               /\ \A k \in 1..Len(v) : (u \o v)[Len(u) + k] = v[k]
        BY ConcatIs
      <4> QED
        BY <2>1, <3>1, <4>1
    <3> QED
      BY <2>1, <3>1, <3>2
  <2> DEFINE t == s \o b
  <2>3. /\ t \in Seq(Part) /\ Len(t) = m + n
        /\ \A k \in 1..m : t[k] = s[k]
        /\ \A k \in 1..n : t[m + k] = b[k]
    BY <2>2
  <2> HIDE DEF t
  <2>4. DOMAIN t = 1..(m + n) /\ \A k \in 1..n : t[m + k] = left[k]
    BY <2>1, <2>3
  <2> QED
    BY <2>3, <2>4 DEF b, t
<1> HIDE DEF left, c, n, a, m, rest, s2
<1>8. \A k \in (m + 1)..(m + n) : s2[k] = <<a, RecordLen - c + (k - m)>>
  <2> SUFFICES ASSUME NEW k \in (m + 1)..(m + n)
               PROVE  s2[k] = <<a, RecordLen - c + (k - m)>>
    OBVIOUS
  <2>1. k - m \in 1..n /\ k - m \in 1..c /\ m + (k - m) = k
    BY <1>4, <1>6
  <2> QED
    BY <1>3, <1>7, <2>1
<1>9. QueueInOrder(i)' /\ RowsFollow(i)' /\ (RowsWhole(i) => RowsWhole(i)')
  BY <1>1 DEF QueueInOrder, RowsFollow, RowsWhole, SlotRight
<1>10. n < c => rest[1] = <<a, RecordLen - c + (n + 1)>> /\ rest[1][1] = a
  <2> SUFFICES ASSUME n < c PROVE rest[1] = <<a, RecordLen - c + (n + 1)>>
    OBVIOUS
  <2>1. 1 \in 1..(c - n) /\ n + 1 \in 1..c
    BY <1>4
  <2> QED
    BY <1>3, <1>5, <2>1
<1>11. LeftIsEnd(i)'
  <2>1. CASE n = c
    BY <1>1, <1>5, <2>1 DEF LeftIsEnd
  <2>2. CASE n # c
    <3>1. com'[i].pc = "send" /\ com'[i].left = rest /\ Len(rest) \in 1..RecordLen
      BY <1>1, <1>4, <1>5, <2>2
    <3>2. ASSUME NEW k \in 1..(c - n)
          PROVE  rest[k] = <<rest[1][1], RecordLen - (c - n) + k>>
      <4>1. n + k \in 1..c /\ RecordLen - c + (n + k) = RecordLen - (c - n) + k
        BY <1>4
      <4>2. rest[k] = left[n + k] /\ left[n + k] = <<a, RecordLen - c + (n + k)>>
        BY <1>3, <1>5, <4>1
      <4>3. rest[1][1] = a
        BY <1>4, <1>10, <2>2
      <4> QED
        BY <4>1, <4>2, <4>3
    <3>3. rest[1][1] = a
      BY <1>4, <1>10, <2>2
    <3>4. a <= made'[i] /\ \A k \in DOMAIN que'[i] : a < que'[i][k]
      BY <1>1, <1>3 DEF Newer
    <3>5. Newer(i, com[i].left[1][1])'
      BY <3>1, <3>3, <3>4 DEF Newer
    <3>6. Len(com'[i].left) = c - n
      BY <1>5, <3>1
    <3> QED
      BY <1>4, <3>1, <3>2, <3>5, <3>6 DEF LeftIsEnd
  <2> QED
    BY <2>1, <2>2
<1>12. ASSUME conn[i] # "closed", StreamFollows(i) PROVE StreamFollows(i)'
  <2>1. stream'[i] = s2
    BY <1>1, <1>12
  <2>2. Sent(i) => Follows(Edge(i), left[1])
    BY <1>1, <1>12 DEF StreamFollows, left
  <2>3. left[1] = <<a, RecordLen - c + 1>>
    BY <1>3, <1>4
  <2>4. ASSUME NEW k \in 1..(m + n - 1) PROVE Follows(s2[k], s2[k + 1])
    <3>1. CASE k < m
      <4>1. k \in 1..m /\ k + 1 \in 1..m /\ k \in 1..(m - 1)
        BY <1>4, <1>6, <3>1
      <4> QED
        BY <1>7, <1>12, <4>1 DEF StreamFollows, m
    <3>2. CASE k = m
      <4>1. m >= 1 /\ s # <<>> /\ Edge(i) = s[m] /\ Sent(i)
        BY <1>6, <3>2 DEF Edge, Sent, Last, m
      <4>2. s2[k] = s[m] /\ s2[k + 1] = left[1]
        BY <1>4, <1>7, <3>2, <4>1
      <4> QED
        BY <2>2, <4>1, <4>2
    <3>3. CASE k > m
      <4>1. k \in (m + 1)..(m + n) /\ k + 1 \in (m + 1)..(m + n)
        BY <1>4, <1>6, <3>3
      <4>2. s2[k] = <<a, RecordLen - c + (k - m)>> /\ s2[k + 1] = <<a, RecordLen - c + (k + 1 - m)>>
        BY <1>4, <1>6, <1>8, <4>1
      <4>3. RecordLen - c + (k + 1 - m) = RecordLen - c + (k - m) + 1
        BY <1>4, <1>6
      <4> QED
        BY <4>2, <4>3 DEF Follows
    <3> QED
      BY <1>6, <3>1, <3>2, <3>3
  <2>5. s2 # <<>> /\ Last(s2) = <<a, RecordLen - c + n>>
    <3>1. m + n \in (m + 1)..(m + n) /\ m + n # 0 /\ m + n - m = n
      BY <1>4, <1>6
    <3>2. s2 # <<>>
      BY <1>7, <3>1
    <3> QED
      BY <1>4, <1>6, <1>7, <1>8, <3>1, <3>2 DEF Last
  <2>6. Edge(i)' = Last(s2)
    BY <2>1, <2>5 DEF Edge
  <2>7. rows'[i] # <<>> => Follows(Last(Last(rows'[i])), s2[1])
    <3> SUFFICES ASSUME rows[i] # <<>> PROVE Follows(Last(Last(rows[i])), s2[1])
      BY <1>1
    <3>1. CASE m = 0
      <4>1. s = <<>> /\ 1 \in 1..n /\ m + 1 = 1
        BY <1>4, <1>6, <3>1 DEF m
      <4>2. s2[1] = left[1]
        BY <1>7, <4>1
      <4>3. Edge(i) = Last(Last(rows[i])) /\ Sent(i)
        BY <4>1 DEF Edge, Sent
      <4> QED
        BY <2>2, <4>2, <4>3
    <3>2. CASE m # 0
      <4>1. 1 \in 1..m /\ s # <<>>
        BY <1>6, <3>2 DEF m
      <4> QED
        BY <1>7, <1>12, <4>1 DEF StreamFollows
    <3> QED
      BY <3>1, <3>2
  <2>8. Newer(i, Edge(i)[1])'
    BY <1>1, <1>3, <2>5, <2>6 DEF Newer
  <2>9. com'[i].pc = "send" => Follows(Edge(i)', com'[i].left[1])
    <3> SUFFICES ASSUME com'[i].pc = "send" PROVE Follows(Last(s2), rest[1])
      BY <1>1, <2>6
    <3>1. n < c
      BY <1>1, <1>4, <1>5
    <3>2. RecordLen - c + (n + 1) = RecordLen - c + n + 1
      BY <1>4
    <3> DEFINE x == RecordLen - c + n
    <3>3. rest[1] = <<a, x + 1>> /\ Last(s2) = <<a, x>>
      BY <1>10, <2>5, <3>1, <3>2
    <3> HIDE DEF x
    <3> QED
      BY <3>3 DEF Follows
  <2>10. \A k \in 1..(Len(stream'[i]) - 1) : Follows(stream'[i][k], stream'[i][k + 1])
    <3>1. Len(stream'[i]) - 1 = m + n - 1
      BY <1>4, <1>6, <1>7, <2>1
    <3> QED
      BY <2>1, <2>4, <3>1
  <2>11. rows'[i] # <<>> => Follows(Last(Last(rows'[i])), stream'[i][1])
    BY <2>1, <2>7
  <2> QED
    BY <2>8, <2>9, <2>10, <2>11 DEF StreamFollows
<1>13. ASSUME conn[i] # "closed", StreamWhole(i) PROVE StreamWhole(i)'
  <2>1. stream'[i] = s2 /\ com'[i].left = rest
    BY <1>1, <1>13
  <2>2. s2 # <<>>
    BY <1>4, <1>6, <1>7
  <2>3. m = 0 => c = RecordLen
    BY <1>1, <1>6, <1>13 DEF StreamWhole, m, c, left
  <2>4. s2[1][2] = 1
    <3>1. CASE m = 0
      <4>1. 1 \in (m + 1)..(m + n) /\ RecordLen - c + (1 - m) = 1
        BY <1>4, <1>6, <2>3, <3>1
      <4> QED
        BY <1>8, <4>1
    <3>2. CASE m # 0
      <4>1. 1 \in 1..m /\ s # <<>>
        BY <1>6, <3>2 DEF m
      <4> QED
        BY <1>7, <1>13, <4>1 DEF StreamWhole, Begins
    <3> QED
      BY <3>1, <3>2
  <2>5. ASSUME NEW k \in 1..(m + n), s2[k][2] = 1
        PROVE  \/ /\ k + RecordLen - 1 <= m + n
                  /\ \A p \in 1..RecordLen : s2[k + p - 1] = <<s2[k][1], p>>
               \/ /\ n < c
                  /\ m + n - k + 1 = RecordLen - (c - n)
                  /\ \A p \in 1..(m + n - k + 1) : s2[k + p - 1] = <<s2[k][1], p>>
                  /\ a = s2[k][1]
    <3>1. CASE /\ k <= m /\ k + RecordLen - 1 <= m
               /\ \A p \in 1..RecordLen : s[k + p - 1] = <<s[k][1], p>>
      <4>1. k \in 1..m /\ \A p \in 1..RecordLen : k + p - 1 \in 1..m
        BY <1>4, <1>6, <3>1
      <4>2. s2[k] = s[k] /\ \A p \in 1..RecordLen : s2[k + p - 1] = s[k + p - 1]
        BY <1>7, <4>1
      <4>3. ASSUME NEW p \in 1..RecordLen PROVE s2[k + p - 1] = <<s2[k][1], p>>
        <5>1. s[k + p - 1] = <<s[k][1], p>>
          BY <3>1
        <5> QED
          BY <4>2, <5>1
      <4>4. k + RecordLen - 1 <= m + n
        <5>1. k + RecordLen - 1 <= m
          BY <3>1
        <5> QED
          BY <1>4, <1>6, <5>1
      <4> QED
        BY <4>3, <4>4
    <3>2. CASE /\ m - k + 1 = RecordLen - c
               /\ k <= m => s[k][1] = a
               /\ \A p \in 1..(m - k + 1) : s[k + p - 1] = <<a, p>>
      <4>1. ASSUME NEW p \in 1..(m + n - k + 1) PROVE s2[k + p - 1] = <<a, p>>
        <5>1. CASE p <= m - k + 1
          <6>1. k + p - 1 \in 1..m /\ p \in 1..(m - k + 1)
            BY <1>4, <1>6, <5>1
          <6> QED
            BY <1>7, <3>2, <6>1
        <5>2. CASE p > m - k + 1
          <6>1. k + p - 1 \in (m + 1)..(m + n)
            <7>1. k \in Nat /\ p \in Nat /\ m \in Nat /\ n \in Nat /\ p <= m + n - k + 1
              BY <1>4, <1>6
            <7> HIDE DEF m, n
            <7> QED
              BY <5>2, <7>1
          <6>2. RecordLen - c + (k + p - 1 - m) = p
            <7>1. m - k + 1 = RecordLen - c
              BY <3>2
            <7> QED
              BY <1>4, <1>6, <7>1
          <6>3. s2[k + p - 1] = <<a, RecordLen - c + (k + p - 1 - m)>>
            BY <1>4, <1>6, <1>8, <6>1
          <6> QED
            BY <6>2, <6>3
        <5> QED
          BY <1>4, <1>6, <5>1, <5>2
      <4>2. s2[k][1] = a
        <5>1. 1 \in 1..(m + n - k + 1) /\ k + 1 - 1 = k
          BY <1>4, <1>6
        <5>2. s2[k] = <<a, 1>>
          BY <4>1, <5>1
        <5> QED
          BY <5>2
      <4>3. m + n - k + 1 = RecordLen - (c - n)
        <5>1. m - k + 1 = RecordLen - c
          BY <3>2
        <5> QED
          BY <1>4, <1>6, <5>1
      <4>4. CASE n = c
        <5>1. m + n - k + 1 = RecordLen /\ k + RecordLen - 1 <= m + n
          BY <1>4, <1>6, <4>3, <4>4
        <5> QED
          BY <4>1, <4>2, <5>1
      <4>5. CASE n # c
        BY <1>4, <4>1, <4>2, <4>3, <4>5
      <4> QED
        BY <4>4, <4>5
    <3>3. CASE k <= m
      <4>1. k \in DOMAIN s /\ Begins(i, k)
        BY <1>6, <1>7, <2>5, <3>3 DEF Begins
      <4>2. \/ k + RecordLen - 1 <= m /\ SentOf(i, k, RecordLen)
            \/ /\ m - k + 1 = RecordLen - c /\ SentOf(i, k, m - k + 1)
               /\ a = s[k][1]
        BY <1>13, <4>1 DEF StreamWhole, m, c, a, left
      <4> QED
        BY <3>1, <3>2, <3>3, <4>2 DEF SentOf
    <3>4. CASE k > m
      <4>1. k \in (m + 1)..(m + n)
        BY <1>4, <1>6, <3>4
      <4>2. RecordLen - c + (k - m) = 1
        BY <1>8, <2>5, <4>1
      <4>3. k = m + 1 /\ c = RecordLen
        BY <1>4, <1>6, <3>4, <4>2
      <4>4. m - k + 1 = 0 /\ m - k + 1 = RecordLen - c /\ ~(k <= m) /\ 1..0 = {}
        BY <1>4, <1>6, <4>3
      <4> QED
        BY <3>2, <4>4
    <3> QED
      BY SMTT(30), <1>6, <3>3, <3>4
  <2>6. com'[i].pc = "send" <=> n < c
    BY <1>1, <1>4, <1>5
  <2>7. n < c => rest[1][1] = a
    BY <1>10
  <2>8. Len(rest) = c - n /\ Len(s2) = m + n /\ DOMAIN s2 = 1..(m + n)
    BY <1>5, <1>7
  <2>9. ASSUME NEW k \in DOMAIN stream'[i], Begins(i, k)'
        PROVE  \/ k + RecordLen - 1 <= Len(stream'[i]) /\ SentOf(i, k, RecordLen)'
               \/ /\ com'[i].pc = "send"
                  /\ Len(stream'[i]) - k + 1 = RecordLen - Len(com'[i].left)
                  /\ SentOf(i, k, Len(stream[i]) - k + 1)'
                  /\ com'[i].left[1][1] = stream'[i][k][1]
    <3>1. k \in 1..(m + n) /\ s2[k][2] = 1
      BY <2>1, <2>8, <2>9 DEF Begins
    <3>2. CASE /\ k + RecordLen - 1 <= m + n
               /\ \A p \in 1..RecordLen : s2[k + p - 1] = <<s2[k][1], p>>
      BY <2>1, <2>8, <3>2 DEF SentOf
    <3>3. CASE /\ n < c
               /\ m + n - k + 1 = RecordLen - (c - n)
               /\ \A p \in 1..(m + n - k + 1) : s2[k + p - 1] = <<s2[k][1], p>>
               /\ a = s2[k][1]
      <4>1. com'[i].pc = "send" /\ com'[i].left[1][1] = stream'[i][k][1]
        BY <2>1, <2>6, <2>7, <3>3
      <4>2. /\ Len(stream'[i]) - k + 1 = m + n - k + 1
            /\ RecordLen - Len(com'[i].left) = RecordLen - (c - n)
        BY <1>4, <1>6, <2>1, <2>8
      <4>3. SentOf(i, k, Len(stream[i]) - k + 1)'
        BY <2>1, <3>3, <4>2 DEF SentOf
      <4> QED
        BY <3>3, <4>1, <4>2, <4>3
    <3> QED
      BY <2>5, <3>1, <3>2, <3>3
  <2> QED
    BY <2>1, <2>2, <2>4, <2>9 DEF StreamWhole, Begins
<1> QED
  BY <1>1, <1>9, <1>11, <1>12, <1>13 DEF SlotRight
\* The thread reads what there is, at most a record, and logs it as a row.
LEMMA RowLogged ==
    ASSUME NEW i \in Slots, SockTypeOK, SlotRight(i), conn[i] = "open", conn'[i] = "open",
           NEW n \in 1..RecordLen, n <= Len(stream[i]),
           com'[i] = com[i], que'[i] = que[i], made'[i] = made[i],
           rows'[i] = Append(rows[i], SubSeq(stream[i], 1, n)),
           stream'[i] = SubSeq(stream[i], n + 1, Len(stream[i])),
           whole'[i] <=> whole[i] /\ n = RecordLen
    PROVE  SlotRight(i)'
<1> DEFINE s == stream[i]
           m == Len(s)
           row == SubSeq(s, 1, n)
           rest == SubSeq(s, n + 1, m)
           R == rows[i]
           z == Len(R)
           R2 == Append(R, row)
<1>1. /\ s \in Seq(Part) /\ m \in Nat /\ DOMAIN s = 1..m /\ n \in Nat /\ n >= 1 /\ n <= m
      /\ RecordLen \in Nat /\ n <= RecordLen /\ n \in 0..Len(s)
  BY SMTT(30), Bounds DEF SockTypeOK
<1>2. /\ row \in Seq(Part) /\ Len(row) = n /\ \A k \in 1..n : row[k] = s[k]
      /\ rest \in Seq(Part) /\ Len(rest) = m - n /\ \A k \in 1..(m - n) : rest[k] = s[n + k]
  BY <1>1, SplitAt
<1> HIDE DEF m, row, rest
<1>3. R \in Seq(Seq(Part)) /\ z \in Nat /\ DOMAIN R = 1..z
  BY DEF SockTypeOK
<1>4. /\ R2 \in Seq(Seq(Part)) /\ Len(R2) = z + 1 /\ DOMAIN R2 = 1..(z + 1)
      /\ R2[z + 1] = row /\ \A r \in 1..z : R2[r] = R[r]
  <2> HIDE DEF R
  <2> QED
    BY <1>2, <1>3
<1>5. rows'[i] = R2 /\ stream'[i] = rest
  BY DEF m, row, rest
<1> HIDE DEF R, z, R2
<1>6. /\ row # <<>> /\ Head(row) = s[1] /\ Last(row) = s[n]
      /\ s # <<>> /\ Last(s) = s[m]
  BY <1>1, <1>2 DEF Last, m
<1>7. R2 # <<>> /\ Last(R2) = row
  BY <1>3, <1>4 DEF Last
<1>8. z # 0 => R # <<>> /\ Last(R) = R[z]
  BY <1>3 DEF Last, z
<1>9. /\ StreamFollows(i) /\ RowsFollow(i) /\ QueueInOrder(i) /\ LeftIsEnd(i)
      /\ (whole[i] => RowsWhole(i) /\ StreamWhole(i))
  BY DEF SlotRight
<1>10. QueueInOrder(i)' /\ LeftIsEnd(i)'
  BY <1>9 DEF QueueInOrder, LeftIsEnd, Newer
<1>11. /\ \A k \in 1..(m - 1) : Follows(s[k], s[k + 1])
       /\ z # 0 => Follows(Last(R[z]), s[1])
  BY <1>6, <1>8, <1>9 DEF StreamFollows, m, R
<1>12. RowsFollow(i)'
  <2>1. ASSUME NEW r \in 1..(z + 1)
        PROVE  /\ R2[r] # <<>>
               /\ \A k \in 1..(Len(R2[r]) - 1) : Follows(R2[r][k], R2[r][k + 1])
    <3>1. CASE r \in 1..z
      BY <1>3, <1>4, <1>9, <3>1 DEF RowsFollow, R
    <3>2. CASE r = z + 1
      <4>1. ASSUME NEW k \in 1..(n - 1) PROVE Follows(row[k], row[k + 1])
        <5>1. k \in 1..n /\ k + 1 \in 1..n /\ k \in 1..(m - 1)
          BY <1>1
        <5> QED
          BY <1>2, <1>11, <5>1
      <4> QED
        BY <1>2, <1>4, <1>6, <3>2, <4>1
    <3> QED
      BY <1>3, <3>1, <3>2
  <2>2. ASSUME NEW r \in 1..z PROVE Follows(Last(R2[r]), Head(R2[r + 1]))
    <3>1. CASE r < z
      <4>1. r \in 1..(z - 1) /\ r + 1 \in 1..z
        BY <1>3, <3>1
      <4>2. Follows(Last(R[r]), Head(R[r + 1]))
        BY <1>9, <4>1 DEF RowsFollow, R, z
      <4> QED
        BY <1>4, <4>1, <4>2
    <3>2. CASE r = z
      <4>1. R2[r] = R[z] /\ R2[r + 1] = row /\ z # 0
        BY <1>3, <1>4, <3>2
      <4> QED
        BY <1>6, <1>11, <4>1
    <3> QED
      BY <1>3, <3>1, <3>2
  <2>3. Len(R2) - 1 = z
    BY <1>3, <1>4
  <2> QED
    BY <1>4, <1>5, <2>1, <2>2, <2>3 DEF RowsFollow
<1>13. Sent(i) /\ Sent(i)' /\ Edge(i)' = Edge(i)
  <2>1. Sent(i) /\ Edge(i) = s[m]
    BY <1>6 DEF Sent, Edge
  <2>2. CASE n = m
    <3>1. rest = <<>>
      BY <1>1, <1>2, <2>2
    <3> QED
      BY <1>5, <1>6, <1>7, <2>1, <2>2, <3>1 DEF Sent, Edge
  <2>3. CASE n # m
    <3>1. rest # <<>> /\ m - n \in 1..(m - n) /\ n + (m - n) = m
      BY SMTT(30), <1>1, <1>2, <2>3
    <3>2. Last(rest) = s[m]
      BY <1>2, <3>1 DEF Last
    <3> QED
      BY <1>5, <2>1, <3>1, <3>2 DEF Sent, Edge
  <2> QED
    BY <2>2, <2>3
<1>14. StreamFollows(i)'
  <2>1. ASSUME NEW k \in 1..(m - n - 1) PROVE Follows(rest[k], rest[k + 1])
    <3>1. /\ k \in 1..(m - n) /\ k + 1 \in 1..(m - n) /\ n + k \in 1..(m - 1)
          /\ n + (k + 1) = (n + k) + 1
      BY SMTT(30), <1>1
    <3>2. rest[k] = s[n + k] /\ rest[k + 1] = s[(n + k) + 1]
      BY <1>2, <3>1
    <3> QED
      BY <1>11, <3>1, <3>2
  <2>2. rest # <<>> => Follows(Last(Last(R2)), rest[1])
    <3> SUFFICES ASSUME rest # <<>> PROVE Follows(Last(Last(R2)), rest[1])
      OBVIOUS
    <3>1. m - n # 0
      BY <1>2
    <3>2. 1 \in 1..(m - n) /\ n \in 1..(m - 1)
      BY <1>1, <3>1
    <3>3. rest[1] = s[n + 1]
      BY <1>2, <3>2
    <3> QED
      BY <1>6, <1>7, <1>11, <3>2, <3>3
  <2>3. Newer(i, Edge(i)[1])'
    <3>1. Newer(i, Edge(i)[1])
      BY <1>9, <1>13 DEF StreamFollows
    <3> QED
      BY <1>13, <3>1 DEF Newer
  <2>4. com'[i].pc = "send" => Follows(Edge(i)', com'[i].left[1])
    BY <1>9, <1>13 DEF StreamFollows
  <2>5. \A k \in 1..(Len(stream'[i]) - 1) : Follows(stream'[i][k], stream'[i][k + 1])
    <3>1. Len(stream'[i]) - 1 = m - n - 1
      BY <1>1, <1>2, <1>5
    <3> QED
      BY <1>5, <2>1, <3>1
  <2> QED
    BY <1>5, <2>2, <2>3, <2>4, <2>5 DEF StreamFollows
<1>15. ASSUME whole'[i] PROVE RowsWhole(i)' /\ StreamWhole(i)'
  <2>1. n = RecordLen /\ RowsWhole(i) /\ StreamWhole(i)
    BY <1>9, <1>15
  <2>2. /\ s[1][2] = 1
        /\ \A k \in 1..m : s[k][2] = 1 =>
              \/ /\ k + n - 1 <= m
                 /\ \A p \in 1..n : s[k + p - 1] = <<s[k][1], p>>
              \/ /\ com[i].pc = "send"
                 /\ m - k + 1 = n - Len(com[i].left)
                 /\ \A p \in 1..(m - k + 1) : s[k + p - 1] = <<s[k][1], p>>
                 /\ com[i].left[1][1] = s[k][1]
    BY ZenonT(60), <1>1, <1>6, <2>1 DEF StreamWhole, Begins, SentOf, m
  <2>3. com[i].pc = "send" => Len(com[i].left) \in Nat /\ Len(com[i].left) >= 1
    BY <1>9, LeftIsPart, Bounds
  <2>4. \A p \in 1..n : s[p] = <<s[1][1], p>>
    <3>1. 1 \in 1..m
      BY <1>1
    <3>2. com[i].pc = "send" => m - 1 + 1 # n - Len(com[i].left)
      BY <1>1, <2>3
    <3>3. \A p \in 1..n : s[1 + p - 1] = <<s[1][1], p>>
      BY <2>2, <3>1, <3>2
    <3>4. \A p \in 1..n : 1 + p - 1 = p
      OBVIOUS
    <3> QED
      BY <3>3, <3>4
  <2>5. row = Record(row[1][1])
    <3>1. row[1][1] = s[1][1]
      BY <1>1, <1>2
    <3>2. \A p \in 1..n : row[p] = <<row[1][1], p>>
      BY <1>2, <2>4, <3>1
    <3>3. row = [p \in 1..n |-> <<row[1][1], p>>]
      <4>1. row = [p \in 1..n |-> row[p]]
        BY <1>2
      <4> QED
        BY <3>2, <4>1
    <3> QED
      BY <2>1, <3>3 DEF Record
  <2>6. RowsWhole(i)'
    <3>1. ASSUME NEW r \in 1..(z + 1) PROVE R2[r] = Record(R2[r][1][1])
      <4>1. CASE r \in 1..z
        BY <1>3, <1>4, <2>1, <4>1 DEF RowsWhole, R
      <4>2. CASE r = z + 1
        BY <1>4, <2>5, <4>2
      <4> QED
        BY <1>3, <4>1, <4>2
    <3> QED
      BY <1>4, <1>5, <3>1 DEF RowsWhole
  <2>7. ASSUME m # n PROVE rest[1][2] = 1
    <3>1. 1 \in 1..(m - n) /\ n \in 1..(m - 1) /\ n + 1 \in 1..m /\ n \in 1..n
      BY <1>1, <2>7
    <3>2. s[n] = <<s[1][1], n>> /\ Follows(s[n], s[n + 1]) /\ s[n + 1] \in Part
      <4>1. s[n] = <<s[1][1], n>>
        BY <2>4, <3>1
      <4>2. Follows(s[n], s[n + 1])
        BY <1>11, <3>1
      <4>3. s[n + 1] \in Part
        BY <1>1, <3>1
      <4> QED
        BY <4>1, <4>2, <4>3
    <3>3. s[n + 1][2] \in 1..n
      BY <2>1, <3>2 DEF Part
    <3>4. s[n + 1][2] = 1
      BY <1>1, <3>2, <3>3 DEF Follows
    <3> QED
      BY <1>2, <3>1, <3>4
  <2>8. ASSUME NEW k \in 1..(m - n), rest[k][2] = 1
        PROVE  \/ /\ k + n - 1 <= m - n
                  /\ \A p \in 1..n : rest[k + p - 1] = <<rest[k][1], p>>
               \/ /\ com[i].pc = "send"
                  /\ (m - n) - k + 1 = n - Len(com[i].left)
                  /\ \A p \in 1..((m - n) - k + 1) : rest[k + p - 1] = <<rest[k][1], p>>
                  /\ com[i].left[1][1] = rest[k][1]
    <3>1. n + k \in 1..m /\ rest[k] = s[n + k]
      BY <1>1, <1>2
    <3>2. CASE /\ (n + k) + n - 1 <= m
               /\ \A p \in 1..n : s[(n + k) + p - 1] = <<s[n + k][1], p>>
      <4>1. k + n - 1 <= m - n
        BY <1>1, <3>2
      <4>2. ASSUME NEW p \in 1..n PROVE rest[k + p - 1] = <<rest[k][1], p>>
        <5>1. k + p - 1 \in 1..(m - n) /\ n + (k + p - 1) = (n + k) + p - 1
          BY SMTT(30), <1>1, <4>1
        <5>2. rest[k + p - 1] = s[(n + k) + p - 1]
          BY <1>2, <5>1
        <5> QED
          BY <3>1, <3>2, <5>2
      <4> QED
        BY <4>1, <4>2
    <3>3. CASE /\ com[i].pc = "send"
               /\ m - (n + k) + 1 = n - Len(com[i].left)
               /\ \A p \in 1..(m - (n + k) + 1) : s[(n + k) + p - 1] = <<s[n + k][1], p>>
               /\ com[i].left[1][1] = s[n + k][1]
      <4>1. m - (n + k) + 1 = (m - n) - k + 1
        BY <1>1
      <4>2. ASSUME NEW p \in 1..((m - n) - k + 1) PROVE rest[k + p - 1] = <<rest[k][1], p>>
        <5>1. k + p - 1 \in 1..(m - n) /\ n + (k + p - 1) = (n + k) + p - 1
          BY SMTT(30), <1>1
        <5>2. rest[k + p - 1] = s[(n + k) + p - 1]
          BY <1>2, <5>1
        <5>3. s[(n + k) + p - 1] = <<s[n + k][1], p>>
          BY <3>3, <4>1
        <5> QED
          BY <3>1, <5>2, <5>3
      <4> QED
        BY <3>1, <3>3, <4>1, <4>2
    <3> QED
      BY <2>2, <2>8, <3>1, <3>2, <3>3
  <2>9. m = n /\ com[i].pc = "send" => Len(com[i].left) = RecordLen
    <3> SUFFICES ASSUME m = n, com[i].pc = "send" PROVE Len(com[i].left) = RecordLen
      OBVIOUS
    <3>1. s[m] = <<s[1][1], n>> /\ n \in 1..n
      BY <1>1, <2>4
    <3>2. Follows(s[m], com[i].left[1])
      BY <1>6, <1>9, <1>13 DEF StreamFollows, Edge
    <3>3. /\ com[i].left[1] \in Part /\ Len(com[i].left) \in 1..RecordLen
          /\ com[i].left[1] = <<com[i].left[1][1], RecordLen - Len(com[i].left) + 1>>
      <4>1. com[i].left[1] \in Part /\ Len(com[i].left) \in 1..RecordLen
        BY <1>9, LeftIsPart
      <4>2. 1 \in 1..Len(com[i].left)
        BY <1>1, <4>1
      <4> QED
        BY <1>9, <4>1, <4>2 DEF LeftIsEnd
    <3>4. com[i].left[1][2] \in 1..n /\ com[i].left[1][2] = n - Len(com[i].left) + 1
      <4> DEFINE l == com[i].left
                 x == RecordLen - Len(l) + 1
                 part == l[1]
      <4>1. part = <<part[1], x>> /\ part \in Nat \X (1..RecordLen)
        BY <3>3 DEF Part
      <4> HIDE DEF part, x
      <4>2. part[2] = x /\ part[2] \in 1..RecordLen
        BY <4>1
      <4> QED
        BY <2>1, <4>2 DEF part, x
    <3>5. com[i].left[1][2] = 1
      <4>1. s[m][2] + 1 = n + 1
        BY <3>1
      <4>2. com[i].left[1][2] # n + 1
        <5>1. \A y \in 1..n : y # n + 1
          BY <1>1
        <5> QED
          BY <3>4, <5>1
      <4>3. com[i].left[1] # <<s[m][1], s[m][2] + 1>>
        BY <4>1, <4>2
      <4> QED
        BY <3>2, <4>3 DEF Follows
    <3> QED
      BY <1>1, <2>1, <3>3, <3>4, <3>5
  <2>10. Len(stream'[i]) = m - n /\ DOMAIN stream'[i] = 1..(m - n)
         /\ (stream'[i] = <<>> <=> m = n)
    <3>1. stream'[i] = rest
      BY <1>5
    <3>2. Len(rest) = m - n /\ DOMAIN rest = 1..(m - n)
      BY <1>1, <1>2
    <3>3. rest = <<>> <=> Len(rest) = 0
      BY <1>2
    <3>4. m - n = 0 <=> m = n
      BY <1>1
    <3> HIDE DEF rest
    <3> QED
      BY <3>1, <3>2, <3>3, <3>4
  <2>11. StreamWhole(i)'
    <3>1. stream'[i] # <<>> => Begins(i, 1)'
      BY <1>5, <2>7, <2>10 DEF Begins
    <3>2. ASSUME NEW k \in DOMAIN stream'[i], Begins(i, k)'
          PROVE  \/ k + RecordLen - 1 <= Len(stream'[i]) /\ SentOf(i, k, RecordLen)'
                 \/ /\ com'[i].pc = "send"
                    /\ Len(stream'[i]) - k + 1 = RecordLen - Len(com'[i].left)
                    /\ SentOf(i, k, Len(stream[i]) - k + 1)'
                    /\ com'[i].left[1][1] = stream'[i][k][1]
      <4>1. k \in 1..(m - n) /\ rest[k][2] = 1
        BY <1>5, <2>10, <3>2 DEF Begins
      <4>2. CASE /\ k + n - 1 <= m - n
                 /\ \A p \in 1..n : rest[k + p - 1] = <<rest[k][1], p>>
        BY <1>5, <2>1, <2>10, <4>2 DEF SentOf
      <4>3. CASE /\ com[i].pc = "send"
                 /\ (m - n) - k + 1 = n - Len(com[i].left)
                 /\ \A p \in 1..((m - n) - k + 1) : rest[k + p - 1] = <<rest[k][1], p>>
                 /\ com[i].left[1][1] = rest[k][1]
        <5>1. Len(stream'[i]) - k + 1 = (m - n) - k + 1
          BY <2>10
        <5>2. SentOf(i, k, Len(stream[i]) - k + 1)'
          BY <1>5, <4>3, <5>1 DEF SentOf
        <5> QED
          BY <1>5, <2>1, <4>3, <5>1, <5>2
      <4> QED
        BY <2>8, <4>1, <4>2, <4>3
    <3>3. stream'[i] = <<>> /\ com'[i].pc = "send" => Len(com'[i].left) = RecordLen
      BY <2>9, <2>10
    <3> QED
      BY <3>1, <3>2, <3>3 DEF StreamWhole, Begins
  <2> QED
    BY <2>6, <2>11
<1> QED
  BY <1>10, <1>12, <1>14, <1>15 DEF SlotRight
\* A slot of which nothing changes.
SameSlot(i) ==
    /\ com'[i] = com[i] /\ que'[i] = que[i] /\ made'[i] = made[i] /\ conn'[i] = conn[i]
    /\ stream'[i] = stream[i] /\ rows'[i] = rows[i] /\ whole'[i] = whole[i]

LEMMA SlotKept ==
    ASSUME NEW i, SlotRight(i), SameSlot(i)
    PROVE  SlotRight(i)'
BY ConnectionMoves DEF SameSlot

\* The process of the server ends: its connections are closed.
LEMMA ServerEndsKeepsRecords ==
    ASSUME SockTypeOK, Records, ServerEnds, rows' = rows
    PROVE  Records'
<1> SUFFICES ASSUME NEW i \in Slots PROVE SlotRight(i)'
  BY DEF Records
<1>1. /\ com' = com /\ que' = que /\ made' = made /\ whole' = whole /\ stream'[i] = <<>>
      /\ conn'[i] = IF conn[i] = "none" THEN "none" ELSE "closed"
  BY DEF ServerEnds, tivaVars
<1>2. SlotRight(i)
  BY DEF Records
<1> QED
  BY <1>1, <1>2, ConnectionCloses

LEMMA RecordsStep == SockTypeOK /\ OneClient /\ Records /\ [SockNext]_sockVars => Records'
<1> SUFFICES ASSUME SockTypeOK, OneClient, Records, [SockNext]_sockVars PROVE Records'
  OBVIOUS
<1> USE DEF SockTypeOK
<1>s. \A i \in Slots : SlotRight(i)
  BY DEF Records
<1>k. (\A i \in Slots : SameSlot(i)) => Records'
  BY <1>s, SlotKept DEF Records
<1>1. CASE HookUp \/ HookDown \/ ClientOpens \/ ClientDelays
  BY <1>1, <1>k DEF HookUp, HookOn, HookDown, ClientOpens, ClientDelays, SameSlot, serverVars
<1>2. CASE ClientConnects \/ ClientGivesUp
  <2> SUFFICES ASSUME NEW i \in Slots PROVE SlotRight(i)'
    BY DEF Records
  <2>1. /\ com' = com /\ que' = que /\ made' = made /\ whole' = whole
        /\ stream' = stream /\ rows' = rows
    BY <1>2 DEF ClientConnects, ClientGivesUp, serverVars
  <2>2. client.pc = "connect" /\ (conn' = conn \/ conn' = [conn EXCEPT ![client.n] = "queued"])
    BY <1>2 DEF ClientConnects, ClientGivesUp, ClientAt
  <2>3. i = client.n => conn[i] = "none"
    BY SMTT(30), <2>2, Bounds DEF OneClient, Passed
  <2>4. conn'[i] = conn[i] \/ (conn[i] # "closed" /\ conn'[i] # "none")
    BY <2>2, <2>3
  <2> QED
    BY <1>s, <2>1, <2>4, ConnectionMoves
<1>3. CASE ClientCreatesTask
  <2> SUFFICES ASSUME NEW i \in Slots PROVE SlotRight(i)'
    BY DEF Records
  <2>1. /\ que' = que /\ made' = made /\ whole' = whole /\ conn' = conn
        /\ stream' = stream /\ rows' = rows
    BY <1>3 DEF ClientCreatesTask, serverVars
  <2>2. /\ client.pc = "create"
        /\ com' = com \/ com' = [com EXCEPT ![client.n] = [pc |-> "start", left |-> <<>>]]
    <3>1. \E ok \in May("tiva") :
             IF ok THEN com' = [com EXCEPT ![client.n] = [pc |-> "start", left |-> <<>>]]
             ELSE com' = com
      BY <1>3 DEF ClientCreatesTask
    <3> QED
      BY <1>3, <3>1 DEF ClientCreatesTask, ClientAt
  <2>3. CASE com'[i] = com[i]
    BY <1>s, <2>1, <2>3, SlotKept DEF SameSlot
  <2>4. CASE com'[i] # com[i]
    <3>1. i = client.n /\ com'[i] = [pc |-> "start", left |-> <<>>]
      BY <2>2, <2>4
    <3>2. com[i].pc = "none"
      BY <2>2, <3>1, Bounds DEF OneClient, TaskMade
    <3>3. com'[i].pc = "start" /\ com'[i].left = <<>>
      BY <3>1
    <3> QED
      BY <1>s, <2>1, <3>2, <3>3, TaskStarts
  <2> QED
    BY <2>3, <2>4
<1>4. ASSUME NEW j \in Slots, SensorReads(j) \/ ComReceives(j) \/ ComSends(j) \/ ComSendEnds(j)
      PROVE  Records'
  <2> SUFFICES ASSUME NEW i \in Slots PROVE SlotRight(i)'
    BY DEF Records
  <2>1. CASE i # j
    <3>1. SameSlot(i)
      <4>1. CASE SensorReads(j)
        BY <2>1, <4>1 DEF SensorReads, SameSlot, serverVars
      <4>2. CASE ComReceives(j)
        BY <2>1, <4>2 DEF ComReceives, SameSlot, serverVars
      <4>3. CASE ComSends(j)
        BY <2>1, <4>3 DEF ComSends, SameSlot, serverVars
      <4>4. CASE ComSendEnds(j)
        BY <2>1, <4>4 DEF ComSendEnds, SendEnds, SameSlot, serverVars
      <4> QED
        BY <1>4, <4>1, <4>2, <4>3, <4>4
    <3> QED
      BY <1>s, <3>1, SlotKept
  <2>2. CASE i = j
    <3>1. ComSends(j) => conn[i] # "none"
      BY <2>2 DEF ComSends, OneClient
    <3> QED
      BY <1>s, <1>4, <2>2, <3>1, ReadingJoins, ReadingTaken, PartsSent, SendDropped
  <2> QED
    BY <2>1, <2>2
<1>5. ASSUME NEW j \in Slots, ComStarts(j) PROVE Records'
  <2> SUFFICES ASSUME NEW i \in Slots PROVE SlotRight(i)'
    BY DEF Records
  <2>1. /\ made' = made /\ whole' = whole /\ conn' = conn /\ stream' = stream /\ rows' = rows
        /\ com[j].pc = "start"
    BY <1>5 DEF ComStarts, serverVars
  <2>2. \/ com' = com /\ que' = que
        \/ com' = [com EXCEPT ![j].pc = "receive"] /\ que' = [que EXCEPT ![j] = <<>>]
    BY <1>5 DEF ComStarts
  <2>3. CASE com'[i] = com[i] /\ que'[i] = que[i]
    BY <1>s, <2>1, <2>3, SlotKept DEF SameSlot
  <2>4. CASE ~(com'[i] = com[i] /\ que'[i] = que[i])
    <3>1. i = j /\ com'[i].pc = "receive" /\ com'[i].left = com[i].left /\ que'[i] = <<>>
      <4>1. com' = [com EXCEPT ![j].pc = "receive"] /\ que' = [que EXCEPT ![j] = <<>>]
        BY <2>2, <2>4
      <4>2. i = j
        BY <2>4, <4>1
      <4> QED
        BY <4>1, <4>2
    <3>2. com[i].left = <<>>
      BY <1>s, <2>1, <3>1 DEF SlotRight, LeftIsEnd
    <3> QED
      BY <1>s, <2>1, <3>1, <3>2, TaskStarts
  <2> QED
    BY <2>3, <2>4
<1>6. ASSUME NEW j \in Slots, ThreadOf(j) PROVE Records'
  <2>1. CASE ServerEnds /\ rows' = rows
    BY <2>1, ServerEndsKeepsRecords
  <2>2. CASE ThreadOpens(j) \/ ThreadLoops(j) \/ ThreadReadFails(j)
    BY <1>k, <2>2 DEF ThreadOpens, ThreadLoops, ThreadReadFails, SameSlot, tivaVars
  <2>3. CASE ThreadReads(j) /\ pfdOk[j]
    <3>1. PICK n \in 1..RecordLen :
              /\ n <= Len(stream[j])
              /\ rows' = [rows EXCEPT ![j] = Append(@, SubSeq(stream[j], 1, n))]
              /\ stream' = [stream EXCEPT ![j] = SubSeq(@, n + 1, Len(@))]
              /\ whole' = [whole EXCEPT ![j] = @ /\ n = RecordLen]
              /\ UNCHANGED <<tivaVars, conn>>
      BY <2>3 DEF ThreadReads
    <3>2. com' = com /\ que' = que /\ made' = made /\ conn' = conn /\ conn[j] = "open"
      BY <2>3, <3>1 DEF ThreadReads, tivaVars
    <3> SUFFICES ASSUME NEW i \in Slots PROVE SlotRight(i)'
      BY DEF Records
    <3>3. CASE i # j
      <4>1. SameSlot(i)
        BY <3>1, <3>2, <3>3 DEF SameSlot
      <4> QED
        BY <1>s, <4>1, SlotKept
    <3>4. CASE i = j
      <4>1. /\ rows'[i] = Append(rows[i], SubSeq(stream[i], 1, n))
            /\ stream'[i] = SubSeq(stream[i], n + 1, Len(stream[i]))
            /\ whole'[i] <=> whole[i] /\ n = RecordLen
        BY <3>1, <3>4
      <4> QED
        BY <1>s, <3>1, <3>2, <3>4, <4>1, RowLogged
    <3> QED
      BY <3>3, <3>4
  <2>4. CASE ThreadCloses(j) /\ pfdOk[j]
    <3>1. /\ com' = com /\ que' = que /\ made' = made /\ whole' = whole /\ rows' = rows
          /\ conn' = [conn EXCEPT ![j] = IF @ = "open" THEN "closed" ELSE @]
          /\ stream' = [stream EXCEPT ![j] = IF conn[j] = "open" THEN <<>> ELSE @]
      BY <2>4 DEF ThreadCloses, tivaVars
    <3> SUFFICES ASSUME NEW i \in Slots PROVE SlotRight(i)'
      BY DEF Records
    <3>2. CASE i = j /\ conn[j] = "open"
      <4>1. conn'[i] = "closed"
        BY <3>1, <3>2
      <4> QED
        BY <1>s, <3>1, <4>1, ConnectionCloses
    <3>3. CASE ~(i = j /\ conn[j] = "open")
      <4>1. SameSlot(i)
        BY <3>1, <3>3 DEF SameSlot
      <4> QED
        BY <1>s, <4>1, SlotKept
    <3> QED
      BY <3>2, <3>3
  <2> QED
    BY <1>6, <2>1, <2>2, <2>3, <2>4 DEF ThreadOf, ThreadReads, ThreadCloses
<1>7. CASE ServerStarts \/ Interrupted \/ ServerKilled
  BY <1>7, <1>k, ServerEndsKeepsRecords DEF ServerStarts, Interrupted, ServerKilled, SameSlot,
     tivaVars
<1>8. CASE Listens \/ CreatesThread \/ More \/ JoinsThreads
  <2>1. CASE ServerEnds /\ rows' = rows
    BY <2>1, ServerEndsKeepsRecords
  <2>2. CASE ~(ServerEnds /\ rows' = rows)
    BY <1>8, <1>k, <2>2 DEF Listens, CreatesThread, More, JoinsThreads, SameSlot, tivaVars
  <2> QED
    BY <2>1, <2>2
<1>9. CASE Accepts
  <2> SUFFICES ASSUME NEW i \in Slots PROVE SlotRight(i)'
    BY DEF Records
  <2>1. /\ com' = com /\ que' = que /\ made' = made /\ whole' = whole
        /\ stream' = stream /\ rows' = rows
        /\ \/ conn[acceptor.n] = "queued" /\ conn' = [conn EXCEPT ![acceptor.n] = "open"]
           \/ conn' = conn
    BY <1>9 DEF Accepts, tivaVars
  <2>2. conn'[i] = conn[i] \/ (conn[i] # "closed" /\ conn'[i] # "none")
    BY <2>1
  <2> QED
    BY <1>s, <2>1, <2>2, ConnectionMoves
<1>10. CASE UNCHANGED sockVars
  BY <1>10, <1>k DEF sockVars, tivaVars, serverVars, SameSlot
<1> QED
  BY <1>1, <1>2, <1>3, <1>4, <1>5, <1>6, <1>7, <1>8, <1>9, <1>10
     DEF SockNext, ClientTask, ComTaskOf, Acceptor

LEMMA RecordsHold == SockSpec => []Records
BY RecordsInit, RecordsStep, SockTypeHolds, OneClientHolds, PTL DEF SockSpec

\* What one thread logs is what one sensor's task sent, in that order, with no
\* part twice, out of order or missing within a record that was sent; as long as
\* no send ended early and no read was short, each row is a record: whatever calls
\* fail and wherever the server is killed, for every length of a record, of a
\* queue and of a connection.  And one client, made once, serves each sensor.
THEOREM LoggedAsSent == SockSpec => []SocketsRight
<1>1. Records => SocketRecordsRight
  BY DEF Records, SlotRight, RowsFollow, RowsWhole, SocketRecordsRight
<1> QED
  BY <1>1, RecordsHold, ClientMadeOnce, PTL DEF SocketsRight
=============================================================================
