---------------------------- MODULE SocketBuild ----------------------------
(***************************************************************************)
(* The telemetry path in the build the repository can be switched to,      *)
(* USE_SOCKET, on both boards.  When the network comes up the event hook   *)
(* creates the client task, which opens one TCP connection per sensor and  *)
(* creates the sensor's task on it; on the BeagleBone comTask accepts the  *)
(* two connections and creates a taskThread for each.                      *)
(*                                                                         *)
(*   sensor --> que --> RGBTask, ZXTask --> connection --> taskThread      *)
(*                                                                         *)
(* A connection is a bounded pipe of bytes.  A record is a sequence of     *)
(* RecordLen parts <<record, part>>: FreeRTOS_send may end with some of    *)
(* them sent, and read() may return with some of them read.                *)
(***************************************************************************)
EXTENDS Naturals, SequencesExt, FiniteSets

CONSTANTS COM_TASK_PORT, \* the port of includes.h
          MAX_QUE_SIZE,  \* length of the queue of a sensor
          RecordLen,     \* parts of a record: PACKET_SIZE in the model
          StreamSize,    \* parts a connection holds on its way
          MaxRuns,       \* bound of the model: times the server is started
          Plans          \* bounds of the model: see SocketAssumption

MAX_TASKS == 2
Slots == 0..(MAX_TASKS - 1)   \* 0: the RGB sensor, 1: the ZX sensor

\* Calls that may fail: creation of a task, a queue, a socket or a buffer on the
\* Tiva; the calls of comTask before accept, and pthread_create; accept; malloc
\* of taskThread; its fopen
Fails == {"tiva", "listen", "accept", "malloc", "fopen"}

\* A plan says what PORT of COM.h is, how often the network comes up, how many
\* readings each sensor gives and which calls may fail.
ASSUME SocketAssumption ==
    /\ {MAX_QUE_SIZE, RecordLen, StreamSize} \subseteq Nat \ {0}
    /\ {MaxRuns, COM_TASK_PORT} \subseteq Nat
    /\ \A p \in Plans :
          /\ {p.port, p.ups} \subseteq Nat
          /\ p.readings \in [Slots -> Nat]
          /\ p.fails \subseteq Fails

VARIABLES
    plan,      \* one of Plans
    network,   \* the network is up, and how often it came up
    created,   \* xTasksAlreadyCreated
    client,    \* the client task: where it is, and its task_num
    com,       \* the two tasks of the sensors: where, and what is left of tx_buf
    que,       \* RGB_Que and ZX_Que
    made,      \* readings of each sensor: they are numbered so
    queues,    \* times each of the two queues was created: model history
    conn,      \* each connection: "none", "queued", "open" or "closed"
    stream,    \* what is on its way in it
    acceptor,  \* the server's comTask: where it is, and its thread_index
    listening, \* slots with a listening socket
    thread,    \* the two taskThreads
    pfdOk,     \* the file of each is open
    keepOn,    \* gclose_app
    rows,      \* what each thread logged: model history
    whole,     \* no record was cut so far, by a send or by a read: model history
    runs       \* times the server was started: model history

tivaVars == <<plan, network, created, client, com, que, made, queues>>
serverVars == <<acceptor, listening, thread, pfdOk, keepOn, rows, runs>>
sockVars == <<tivaVars, conn, stream, serverVars, whole>>

SockInit ==
    /\ plan \in Plans
    /\ network = [up |-> FALSE, ups |-> 0]
    /\ created = FALSE
    /\ client = [pc |-> "none", n |-> 0]
    /\ com = [i \in Slots |-> [pc |-> "none", left |-> <<>>]]
    /\ que = [i \in Slots |-> <<>>]
    /\ made = [i \in Slots |-> 0]
    /\ queues = [i \in Slots |-> 0]
    /\ conn = [i \in Slots |-> "none"]
    /\ stream = [i \in Slots |-> <<>>]
    /\ acceptor = [pc |-> "down", n |-> 0]
    /\ listening = {}
    /\ thread = [i \in Slots |-> "none"]
    /\ pfdOk = [i \in Slots |-> FALSE]
    /\ keepOn = TRUE
    /\ rows = [i \in Slots |-> <<>>]
    /\ whole = [i \in Slots |-> TRUE]
    /\ runs = 0

May(name) == IF name \in plan.fails THEN BOOLEAN ELSE {TRUE}

\* configASSERT masks the interrupts and loops: the whole board stops.
Halted == client.pc = "halted"

Record(n) == [p \in 1..RecordLen |-> <<n, p>>]

-----------------------------------------------------------------------------
(* The network event hook                                                  *)

HookOn(wanted) ==
    /\ ~Halted
    /\ ~network.up
    /\ network.ups < plan.ups
    /\ network' = [up |-> TRUE, ups |-> network.ups + 1]
    /\ IF wanted
       THEN \E ok \in May("tiva") :
               /\ created' = ok
               /\ client' = [pc |-> IF ok THEN "socket" ELSE "halted", n |-> 0]
       ELSE UNCHANGED <<created, client>>
    /\ UNCHANGED <<plan, com, que, made, queues, conn, stream,
                   serverVars, whole>>

\* Mutant: without the static flag.
HookForgets == HookOn(TRUE)

\* eNetworkUp: the client task is created the first time.
HookUp == HookOn(~created)

\* eNetworkDown is only printed; the tasks stay.
HookDown ==
    /\ ~Halted
    /\ network.up
    /\ network' = [network EXCEPT !.up = FALSE]
    /\ UNCHANGED <<plan, created, client, com, que, made, queues, conn,
                   stream, serverVars, whole>>

-----------------------------------------------------------------------------
(* COMSocketClientTask                                                     *)

ClientAt(pc) == client.pc = pc
ClientGoes(pc) == client' = [client EXCEPT !.pc = pc]

\* FreeRTOS_socket, the two FreeRTOS_setsockopt and FreeRTOS_bind, each asserted
ClientOpens ==
    /\ ClientAt("socket")
    /\ \E ok \in May("tiva") : ClientGoes(IF ok THEN "connect" ELSE "halted")
    /\ UNCHANGED <<plan, network, created, com, que, made, queues, conn,
                   stream, serverVars, whole>>

\* port += task_num adds 0 and then 1.  The connection exists as soon as the
\* server listens; its accept comes later.
ServerListens == \E i \in listening : i = client.n /\ plan.port + client.n = COM_TASK_PORT + i

ClientConnects ==
    /\ ClientAt("connect")
    /\ network.up
    /\ ServerListens
    /\ conn' = [conn EXCEPT ![client.n] = "queued"]
    /\ ClientGoes("create")
    /\ UNCHANGED <<plan, network, created, com, que, made, queues, stream,
                   serverVars, whole>>

\* 20 seconds pass, and FreeRTOS_connect fails: the task spins for ever.  The
\* server may have seen the connection made all the same.
ClientGivesUp ==
    /\ ClientAt("connect")
    /\ ClientGoes("spin")
    /\ \/ UNCHANGED conn
       \/ ServerListens /\ network.up /\ conn' = [conn EXCEPT ![client.n] = "queued"]
    /\ UNCHANGED <<plan, network, created, com, que, made, queues, stream,
                   serverVars, whole>>

ClientCreatesTask ==
    /\ ClientAt("create")
    /\ \E ok \in May("tiva") :
          IF ok
          THEN /\ com' = [com EXCEPT ![client.n] = [pc |-> "start", left |-> <<>>]]
               /\ ClientGoes("delay")
          ELSE ClientGoes("halted") /\ UNCHANGED com
    /\ UNCHANGED <<plan, network, created, que, made, queues, conn, stream,
                   serverVars, whole>>

\* 3 seconds later: the next socket, or nothing else to do
ClientDelays ==
    /\ ClientAt("delay")
    /\ client' = IF client.n < MAX_TASKS - 1
                 THEN [pc |-> "socket", n |-> client.n + 1]
                 ELSE [client EXCEPT !.pc = "idle"]
    /\ UNCHANGED <<plan, network, created, com, que, made, queues, conn,
                   stream, serverVars, whole>>

ClientTask ==
    \/ ClientOpens \/ ClientConnects \/ ClientGivesUp \/ ClientCreatesTask
    \/ ClientDelays

-----------------------------------------------------------------------------
(* RGBTask and ZXTask.  A sensor begins when its task has its queue and     *)
(* gives the semaphore, and drops a reading when the queue stays full.      *)

ComStarts(i) ==
    /\ com[i].pc = "start"
    /\ ~Halted
    /\ \E ok \in May("tiva") :
          IF ok
          THEN /\ com' = [com EXCEPT ![i].pc = "receive"]
               /\ que' = [que EXCEPT ![i] = <<>>]
               /\ queues' = [queues EXCEPT ![i] = @ + 1]
               /\ UNCHANGED client
          ELSE ClientGoes("halted") /\ UNCHANGED <<com, que, queues>>
    /\ UNCHANGED <<plan, network, created, made, conn, stream, serverVars, whole>>

SensorReads(i) ==
    /\ com[i].pc \in {"receive", "send"}
    /\ ~Halted
    /\ made[i] < plan.readings[i]
    /\ made' = [made EXCEPT ![i] = @ + 1]
    /\ que' = IF Len(que[i]) < MAX_QUE_SIZE
              THEN [que EXCEPT ![i] = Append(@, made'[i])]
              ELSE que
    /\ UNCHANGED <<plan, network, created, client, com, queues, conn, stream,
                   serverVars, whole>>

ComReceives(i) ==
    /\ com[i].pc = "receive"
    /\ ~Halted
    /\ que[i] # <<>>
    /\ com' = [com EXCEPT ![i] = [pc |-> "send", left |-> Record(Head(que[i]))]]
    /\ que' = [que EXCEPT ![i] = Tail(@)]
    /\ UNCHANGED <<plan, network, created, client, made, queues, conn, stream,
                   serverVars, whole>>

\* FreeRTOS_send: as much as there is room for, again and again.  A connection
\* the server has closed takes bytes until the client hears of it.
Fits(i) ==
    LET room == IF conn[i] = "closed" THEN RecordLen ELSE StreamSize - Len(stream[i])
    IN  IF room < Len(com[i].left) THEN room ELSE Len(com[i].left)

ComSends(i) ==
    /\ com[i].pc = "send"
    /\ ~Halted
    /\ Fits(i) > 0
    /\ LET sent == SubSeq(com[i].left, 1, Fits(i))
           rest == SubSeq(com[i].left, Fits(i) + 1, Len(com[i].left))
       IN  /\ stream' = IF conn[i] = "closed" THEN stream
                        ELSE [stream EXCEPT ![i] = @ \o sent]
           /\ com' = [com EXCEPT ![i] = [pc |-> IF rest = <<>> THEN "receive" ELSE "send",
                                         left |-> rest]]
    /\ UNCHANGED <<plan, network, created, client, que, made, queues, conn,
                   serverVars, whole>>

\* It returns early: no room for 20 seconds, or the connection is known to be
\* gone.  A negative result is printed, a short one is not noticed.
SendEnds(i, next) ==
    /\ com[i].pc = "send"
    /\ ~Halted
    /\ Fits(i) = 0 \/ conn[i] = "closed"
    /\ com' = [com EXCEPT ![i] = next]
    /\ whole' = [whole EXCEPT ![i] = @ /\ Len(com[i].left) = RecordLen]
    /\ UNCHANGED <<plan, network, created, client, que, made, queues, conn,
                   stream, serverVars>>

\* Mutants: the whole record is sent again after a part of it; the task waits
\* without a timeout for room.
SendEndsAgain(i) == SendEnds(i, [pc |-> "send", left |-> Record(com[i].left[1][1])])
SendEndsNever(i) == SendEnds(i, com[i])

ComSendEnds(i) == SendEnds(i, [pc |-> "receive", left |-> <<>>])

ComTaskOf(i) == ComStarts(i) \/ ComReceives(i) \/ ComSends(i) \/ ComSendEnds(i)

-----------------------------------------------------------------------------
(* The server's process and its comTask                                    *)

ServerUp == acceptor.pc # "down"

ServerStarts ==
    /\ ~ServerUp
    /\ runs < MaxRuns
    /\ acceptor' = [pc |-> "listen", n |-> 0]
    /\ keepOn' = TRUE
    /\ runs' = runs + 1
    /\ UNCHANGED <<tivaVars, conn, stream, listening, thread, pfdOk, rows, whole>>

\* The process ends, whoever ends it: the kernel closes every socket.
ServerEnds ==
    /\ acceptor' = [pc |-> "down", n |-> 0]
    /\ listening' = {}
    /\ thread' = [i \in Slots |-> "none"]
    /\ pfdOk' = [i \in Slots |-> FALSE]
    /\ conn' = [i \in Slots |-> IF conn[i] = "none" THEN "none" ELSE "closed"]
    /\ stream' = [i \in Slots |-> <<>>]
    /\ UNCHANGED <<tivaVars, keepOn, runs, whole>>

ServerKilled == ServerUp /\ ServerEnds /\ UNCHANGED rows

Interrupted ==
    /\ ServerUp
    /\ keepOn
    /\ keepOn' = FALSE
    /\ UNCHANGED <<tivaVars, conn, stream, acceptor, listening, thread, pfdOk, rows,
                   runs, whole>>

\* socket, setsockopt, bind and listen: an error ends comTask and with it main()
Listens ==
    /\ acceptor.pc = "listen"
    /\ \E ok \in May("listen") :
          IF ok
          THEN /\ listening' = listening \cup {acceptor.n}
               /\ acceptor' = [acceptor EXCEPT !.pc = "accept"]
               /\ UNCHANGED <<conn, stream, thread, pfdOk, keepOn, rows, runs,
                              tivaVars, whole>>
          ELSE ServerEnds /\ UNCHANGED rows

\* A failed accept is not noticed (the test compares the array with 0): the
\* thread is created on a bad descriptor.
Accepts ==
    /\ acceptor.pc = "accept"
    /\ \/ /\ conn[acceptor.n] = "queued"
          /\ conn' = [conn EXCEPT ![acceptor.n] = "open"]
       \/ "accept" \in plan.fails /\ UNCHANGED conn
    /\ acceptor' = [acceptor EXCEPT !.pc = "create"]
    /\ UNCHANGED <<tivaVars, stream, listening, thread, pfdOk, keepOn, rows, runs, whole>>

CreatesThread ==
    /\ acceptor.pc = "create"
    /\ \E ok \in May("listen") :
          IF ok
          THEN /\ thread' = [thread EXCEPT ![acceptor.n] = "open"]
               /\ acceptor' = [acceptor EXCEPT !.pc = "more"]
               /\ UNCHANGED <<tivaVars, conn, stream, listening, pfdOk, keepOn, rows,
                              runs, whole>>
          ELSE ServerEnds /\ UNCHANGED rows

\* while ((thread_index < MAX_TASKS - 1) & (gclose_app = 1)): & evaluates both,
\* and the second is an assignment.
More ==
    /\ acceptor.pc = "more"
    /\ keepOn' = TRUE
    /\ acceptor' = IF acceptor.n < MAX_TASKS - 1
                   THEN [pc |-> "listen", n |-> acceptor.n + 1]
                   ELSE [acceptor EXCEPT !.pc = "join"]
    /\ UNCHANGED <<tivaVars, conn, stream, listening, thread, pfdOk, rows, runs, whole>>

JoinsThreads ==
    /\ acceptor.pc = "join"
    /\ \A i \in Slots : thread[i] = "done"
    /\ ServerEnds
    /\ UNCHANGED rows

Acceptor == Listens \/ Accepts \/ CreatesThread \/ More \/ JoinsThreads

-----------------------------------------------------------------------------
(* taskThread                                                              *)

ThreadOpens(i) ==
    /\ thread[i] = "open"
    /\ \/ "malloc" \in plan.fails /\ thread' = [thread EXCEPT ![i] = "done"] /\ UNCHANGED pfdOk
       \/ /\ thread' = [thread EXCEPT ![i] = "loop"]
          /\ \E ok \in May("fopen") : pfdOk' = [pfdOk EXCEPT ![i] = ok]
    /\ UNCHANGED <<tivaVars, conn, stream, acceptor, listening, keepOn, rows, runs, whole>>

\* Mutant: while (gclose_app = 1), as in comTask.
ThreadKeepsOn(i) ==
    /\ thread[i] = "loop"
    /\ thread' = [thread EXCEPT ![i] = "read"]
    /\ keepOn' = TRUE
    /\ UNCHANGED <<tivaVars, conn, stream, acceptor, listening, pfdOk, rows, runs, whole>>

ThreadLoops(i) ==
    /\ thread[i] = "loop"
    /\ thread' = [thread EXCEPT ![i] = IF keepOn THEN "read" ELSE "close"]
    /\ UNCHANGED <<tivaVars, conn, stream, acceptor, listening, pfdOk, keepOn, rows,
                   runs, whole>>

\* read() returns what there is, at most a record; a positive count is logged,
\* and fprintf to the null pointer ends the process.
ThreadReads(i) ==
    /\ thread[i] = "read"
    /\ conn[i] = "open"
    /\ stream[i] # <<>>
    /\ IF pfdOk[i]
       THEN \E k \in 1..RecordLen :
               /\ k <= Len(stream[i])
               /\ rows' = [rows EXCEPT ![i] = Append(@, SubSeq(stream[i], 1, k))]
               /\ stream' = [stream EXCEPT ![i] = SubSeq(@, k + 1, Len(@))]
               /\ whole' = [whole EXCEPT ![i] = @ /\ k = RecordLen]
               /\ thread' = [thread EXCEPT ![i] = "loop"]
               /\ UNCHANGED <<tivaVars, conn, acceptor, listening, pfdOk, keepOn, runs>>
       ELSE ServerEnds /\ UNCHANGED rows

\* read() from a bad descriptor
ThreadReadFails(i) ==
    /\ thread[i] = "read"
    /\ conn[i] # "open"
    /\ thread' = [thread EXCEPT ![i] = "loop"]
    /\ UNCHANGED <<tivaVars, conn, stream, acceptor, listening, pfdOk, keepOn, rows,
                   runs, whole>>

\* close(*newsockfd), then fclose, of a null pointer if fopen failed
ThreadCloses(i) ==
    /\ thread[i] = "close"
    /\ IF pfdOk[i]
       THEN /\ thread' = [thread EXCEPT ![i] = "done"]
            /\ conn' = [conn EXCEPT ![i] = IF @ = "open" THEN "closed" ELSE @]
            /\ stream' = [stream EXCEPT ![i] = IF conn[i] = "open" THEN <<>> ELSE @]
            /\ UNCHANGED <<tivaVars, acceptor, listening, pfdOk, keepOn, runs, whole>>
       ELSE ServerEnds
    /\ UNCHANGED rows

ThreadOf(i) ==
    \/ ThreadOpens(i) \/ ThreadLoops(i) \/ ThreadReads(i) \/ ThreadReadFails(i)
    \/ ThreadCloses(i)

-----------------------------------------------------------------------------
SockNext ==
    \/ HookUp \/ HookDown \/ ClientTask
    \/ \E i \in Slots : SensorReads(i) \/ ComTaskOf(i) \/ ThreadOf(i)
    \/ ServerStarts \/ ServerKilled \/ Interrupted \/ Acceptor

\* The tasks of the Tiva have one priority and take turns, also with a client
\* that spins; the threads of the server are scheduled.  Nobody has to bring the
\* network up, to start the server, to interrupt it or to read a sensor.
SockFairness ==
    /\ WF_sockVars(ClientTask)
    /\ WF_sockVars(Acceptor)
    /\ \A i \in Slots : WF_sockVars(ComTaskOf(i)) /\ WF_sockVars(ThreadOf(i))

-----------------------------------------------------------------------------
(* Properties                                                              *)

\* What one thread logs comes from one sensor's task, in the order it was sent:
\* no byte twice, none out of order, and none missing except at the end of a
\* record whose send ended early.  While no send was cut and no read was short,
\* each row is one record.
Follows(b, c) == \/ c = <<b[1], b[2] + 1>>
                 \/ c[1] > b[1] /\ c[2] = 1

SocketRecordsRight ==
    \A i \in Slots :
       /\ \A r \in DOMAIN rows[i] : \A k \in 1..(Len(rows[i][r]) - 1) :
             Follows(rows[i][r][k], rows[i][r][k + 1])
       /\ \A r \in 1..(Len(rows[i]) - 1) : Follows(Last(rows[i][r]), Head(rows[i][r + 1]))
       /\ whole[i] => \A r \in DOMAIN rows[i] : rows[i][r] = Record(rows[i][r][1][1])

\* However often the network comes and goes, there is one client: each of the two
\* tasks is created once, on a connection that was made, and each queue once.
\* A second client would replace the queues under the sensors.
ClientRight ==
    \A i \in Slots :
       /\ queues[i] <= 1
       /\ com[i].pc # "none" => conn[i] # "none"

\* The sensors' records reach the threads that log them, one client serving each.
SocketsRight == SocketRecordsRight /\ ClientRight

\* The tasks come back to an empty queue whatever becomes of the server, of the
\* network and of the client task: a connection that is full or gone costs the
\* record, not the task.
SensorsServed ==
    \A i \in Slots :
       []<>(Halted \/ com[i].pc = "none" \/ (que[i] = <<>> /\ com[i].pc = "receive"))

\* After SIGINT, once both connections are accepted, the process ends when each
\* thread that sits in read() gets one more record.
EndsAfterRecords ==
    (/\ acceptor.pc = "join"
     /\ ~keepOn
     /\ \A i \in Slots : thread[i] = "read" /\ conn[i] = "open" => stream[i] # <<>>)
        ~> ~ServerUp

SocketsLive == SensorsServed /\ EndsAfterRecords
=============================================================================
