----------------------------- MODULE BBGServer -----------------------------
(***************************************************************************)
(* The BeagleBone side of the telemetry path in the build the repository   *)
(* ships, USE_UART: a process whose comTask thread reads frames from the   *)
(* serial port and puts them in the POSIX message queue /com_MQ2, and      *)
(* whose taskThread thread takes them out and appends them to logfile.txt. *)
(*                                                                         *)
(*   UART --> tty --> comTask --> /com_MQ2 --> taskThread --> logfile.txt  *)
(*                                                                         *)
(* The process can be interrupted (SIGINT clears gclose_app), killed, and  *)
(* started again.  The message queue is never unlinked: it outlives the    *)
(* process.  The log file is truncated each time it is opened; its name is *)
(* fixed (the one given to main() is printed and not used).                *)
(***************************************************************************)
EXTENDS Naturals, Sequences, FiniteSets

CONSTANTS MQ_MAXMSG,     \* length of the message queue
          Failures,      \* which of the calls in Fallible may fail
          MaxFrames,     \* bound of the model: frames that arrive
          MaxReadErrors, \* bound of the model: reads that fail
          MaxStarts      \* bound of the model: times the process is started

\* open, malloc and pthread_create, mq_open, fopen, read
Fallible == {"setup", "mq_open", "fopen", "read"}

ASSUME QueueAssumption == MQ_MAXMSG \in Nat \ {0}
ASSUME FailuresAssumption == Failures \subseteq Fallible
ASSUME BoundsAssumption ==
    MaxFrames \in Nat /\ MaxReadErrors \in Nat /\ MaxStarts \in Nat

VARIABLES
    cpc,         \* comTask: where it is; "down" when the process is not running
    tpc,         \* taskThread: where it is; "none" when it does not run
    gclose_app,  \* TRUE until SIGINT
    comMq,       \* comTask's descriptor of the queue is good
    taskMq,      \* taskThread's is
    pfd,         \* taskThread's file is open; FALSE after a failed fopen
    waiting,     \* frames in the tty, read by nobody yet
    arrived,     \* frames that ever reached the tty: model history
    got,         \* frames comTask has read, over all runs; they are numbered so
    rxBuf,       \* comTask's rx_buf: the number of a frame, 0 when uninitialized
    mq,          \* the message queue
    logBuf,      \* taskThread's rx_buf
    file,        \* the log file
    erased,      \* what earlier runs wrote to it: model history
    dropped,     \* frames a failing mq_timedsend left behind: model history
    readErrors,  \* reads that failed: model history
    starts,      \* times the process was started: model history
    crashes      \* times it died on the way: model history

bufVars == <<got, rxBuf, logBuf>>
logVars == <<pfd, file, erased>>
histVars == <<dropped, readErrors, starts, crashes>>
vars == <<cpc, tpc, gclose_app, comMq, taskMq, pfd, waiting, arrived,
          got, rxBuf, mq, logBuf, file, erased, dropped, readErrors, starts,
          crashes>>

Init ==
    /\ cpc = "down"
    /\ tpc = "none"
    /\ gclose_app = TRUE
    /\ comMq = FALSE
    /\ taskMq = FALSE
    /\ pfd = FALSE
    /\ waiting = 0
    /\ arrived = 0
    /\ got = 0
    /\ rxBuf = 0
    /\ mq = <<>>
    /\ logBuf = 0
    /\ file = <<>>
    /\ erased = <<>>
    /\ dropped = {}
    /\ readErrors = 0
    /\ starts = 0
    /\ crashes = 0

Running == cpc # "down"

\* What a call may return: success, or failure where the model allows it.
Outcomes(name) == IF name \in Failures THEN BOOLEAN ELSE {TRUE}

-----------------------------------------------------------------------------
(* The process                                                             *)

\* main() up to pthread_create of comTask
Start ==
    /\ ~Running
    /\ starts < MaxStarts
    /\ cpc' = "open"
    /\ gclose_app' = TRUE
    /\ rxBuf' = 0
    /\ starts' = starts + 1
    /\ UNCHANGED <<tpc, comMq, taskMq, logVars, waiting, arrived, got, mq,
                   logBuf, dropped, readErrors, crashes>>

SIGINT_handler ==
    /\ Running
    /\ gclose_app
    /\ gclose_app' = FALSE
    /\ UNCHANGED <<cpc, tpc, comMq, taskMq, logVars, waiting, arrived,
                   bufVars, mq, histVars>>

\* Mutant: the message queue is unlinked on the way out.
ExitUnlinks ==
    /\ cpc' = "down"
    /\ tpc' = "none"
    /\ waiting' = 0
    /\ mq' = <<>>
    /\ pfd' = FALSE
    /\ comMq' = FALSE
    /\ taskMq' = FALSE
    /\ UNCHANGED <<gclose_app, arrived, bufVars, file, erased,
                   dropped, readErrors, starts>>

\* main() returns, or the process dies: both threads end, the descriptors are
\* closed, the kernel drops what the tty still holds.
Exit ==
    /\ cpc' = "down"
    /\ tpc' = "none"
    /\ waiting' = 0
    /\ pfd' = FALSE
    /\ comMq' = FALSE
    /\ taskMq' = FALSE
    /\ UNCHANGED <<gclose_app, arrived, bufVars, mq, file, erased,
                   dropped, readErrors, starts>>

Die ==
    /\ Exit
    /\ crashes' = crashes + 1

Kill == Running /\ Die

-----------------------------------------------------------------------------
(* comTask                                                                 *)

\* open("/dev/ttyO1"), malloc; comTask returns if one fails
ComOpen ==
    /\ cpc = "open"
    /\ \E ok \in Outcomes("setup") :
          IF ok
          THEN /\ cpc' = "spawn"
               /\ UNCHANGED <<tpc, gclose_app, comMq, taskMq, logVars,
                              waiting, arrived, bufVars, mq, histVars>>
          ELSE Exit /\ UNCHANGED crashes

\* pthread_create of taskThread; comTask returns if it fails
ComSpawn ==
    /\ cpc = "spawn"
    /\ \E ok \in Outcomes("setup") :
          IF ok
          THEN /\ cpc' = "mq_open"
               /\ tpc' = "fopen"
               /\ UNCHANGED <<gclose_app, comMq, taskMq, logVars,
                              waiting, arrived, bufVars, mq, histVars>>
          ELSE Exit /\ UNCHANGED crashes

\* A failure is printed and the descriptor used all the same.
ComMqOpen ==
    /\ cpc = "mq_open"
    /\ comMq' \in Outcomes("mq_open")
    /\ cpc' = "loop"
    /\ UNCHANGED <<tpc, gclose_app, taskMq, logVars, waiting, arrived,
                   bufVars, mq, histVars>>

ComLoop ==
    /\ cpc = "loop"
    /\ cpc' = IF gclose_app THEN "read" ELSE "join"
    /\ UNCHANGED <<tpc, gclose_app, comMq, taskMq, logVars, waiting,
                   arrived, bufVars, mq, histVars>>

ComRead ==
    /\ cpc = "read"
    /\ waiting > 0
    /\ waiting' = waiting - 1
    /\ got' = got + 1
    /\ rxBuf' = got'
    /\ cpc' = "send"
    /\ UNCHANGED <<tpc, gclose_app, comMq, taskMq, logVars, arrived,
                   mq, logBuf, histVars>>

\* count < 0 is printed; the code then does what it does for a good read.
ComReadFails ==
    /\ cpc = "read"
    /\ "read" \in Failures
    /\ readErrors < MaxReadErrors
    /\ readErrors' = readErrors + 1
    /\ cpc' = "send"
    /\ UNCHANGED <<tpc, gclose_app, comMq, taskMq, logVars, waiting,
                   arrived, bufVars, mq, dropped, starts, crashes>>

\* Mutants: newer frames overtake older ones; a send that worked is tried again.
ComSendTo(queue, next) ==
    /\ cpc = "send"
    /\ comMq
    /\ mq' = queue
    /\ cpc' = next
    /\ UNCHANGED <<tpc, gclose_app, comMq, taskMq, logVars, waiting,
                   arrived, bufVars, histVars>>

ComSendUrgent  == Len(mq) < MQ_MAXMSG /\ ComSendTo(<<rxBuf>> \o mq, "loop")
ComSendAgain   == Len(mq) < MQ_MAXMSG /\ ComSendTo(Append(mq, rxBuf), "send")

ComSend ==
    /\ cpc = "send"
    /\ comMq
    /\ Len(mq) < MQ_MAXMSG
    /\ mq' = Append(mq, rxBuf)
    /\ cpc' = "loop"
    /\ UNCHANGED <<tpc, gclose_app, comMq, taskMq, logVars, waiting,
                   arrived, bufVars, histVars>>

\* mq_timedsend fails: a bad descriptor, or the queue is full and the deadline
\* passes.  The result is not looked at.
ComSendFails ==
    /\ cpc = "send"
    /\ ~comMq \/ Len(mq) = MQ_MAXMSG
    /\ dropped' = dropped \cup {rxBuf}
    /\ cpc' = "loop"
    /\ UNCHANGED <<tpc, gclose_app, comMq, taskMq, logVars, waiting,
                   arrived, bufVars, mq, readErrors, starts, crashes>>

\* pthread_join, then main() returns
ComJoin ==
    /\ cpc = "join"
    /\ tpc = "done"
    /\ Exit
    /\ UNCHANGED crashes

-----------------------------------------------------------------------------
(* taskThread                                                              *)

TaskFopen ==
    /\ tpc = "fopen"
    /\ \E ok \in Outcomes("fopen") :
          IF ok
          THEN /\ pfd' = TRUE
               /\ erased' = erased \o file
               /\ file' = <<>>
          ELSE pfd' = FALSE /\ UNCHANGED <<file, erased>>
    /\ tpc' = "mq_open"
    /\ UNCHANGED <<cpc, gclose_app, comMq, taskMq, waiting, arrived,
                   bufVars, mq, histVars>>

\* malloc of rx_buf fails: taskThread returns, comTask goes on without it
TaskGivesUp ==
    /\ tpc = "fopen"
    /\ "setup" \in Failures
    /\ tpc' = "done"
    /\ UNCHANGED <<cpc, gclose_app, comMq, taskMq, logVars, waiting,
                   arrived, bufVars, mq, histVars>>

TaskMqOpen ==
    /\ tpc = "mq_open"
    /\ taskMq' \in Outcomes("mq_open")
    /\ tpc' = "loop"
    /\ UNCHANGED <<cpc, gclose_app, comMq, logVars, waiting, arrived,
                   bufVars, mq, histVars>>

\* Mutant: while (gclose_app = 1), as comTask.c has it for sockets.
TaskLoopAssigns ==
    /\ tpc = "loop"
    /\ tpc' = "receive"
    /\ gclose_app' = TRUE
    /\ UNCHANGED <<cpc, comMq, taskMq, logVars, waiting, arrived,
                   bufVars, mq, histVars>>

TaskLoop ==
    /\ tpc = "loop"
    /\ tpc' = IF gclose_app THEN "receive" ELSE "fclose"
    /\ UNCHANGED <<cpc, gclose_app, comMq, taskMq, logVars, waiting,
                   arrived, bufVars, mq, histVars>>

TaskReceive ==
    /\ tpc = "receive"
    /\ taskMq
    /\ mq # <<>>
    /\ logBuf' = Head(mq)
    /\ mq' = Tail(mq)
    /\ tpc' = "log"
    /\ UNCHANGED <<cpc, gclose_app, comMq, taskMq, logVars, waiting,
                   arrived, got, rxBuf, histVars>>

\* Mutant: an empty queue ends the thread.
TaskStopsWhenEmpty ==
    /\ tpc = "receive"
    /\ ~taskMq \/ mq = <<>>
    /\ tpc' = "fclose"
    /\ UNCHANGED <<cpc, gclose_app, comMq, taskMq, logVars, waiting,
                   arrived, bufVars, mq, histVars>>

\* mq_timedreceive fails: a bad descriptor, or the queue is empty
TaskReceiveFails ==
    /\ tpc = "receive"
    /\ ~taskMq \/ mq = <<>>
    /\ tpc' = "sleep"
    /\ UNCHANGED <<cpc, gclose_app, comMq, taskMq, logVars, waiting,
                   arrived, bufVars, mq, histVars>>

TaskLog ==
    /\ tpc = "log"
    /\ pfd
    /\ file' = Append(file, logBuf)
    /\ tpc' = "receive"
    /\ UNCHANGED <<cpc, gclose_app, comMq, taskMq, pfd, erased,
                   waiting, arrived, bufVars, mq, histVars>>

TaskSleep ==
    /\ tpc = "sleep"
    /\ tpc' = "loop"
    /\ UNCHANGED <<cpc, gclose_app, comMq, taskMq, logVars, waiting,
                   arrived, bufVars, mq, histVars>>

TaskClose ==
    /\ tpc = "fclose"
    /\ pfd
    /\ tpc' = "done"
    /\ UNCHANGED <<cpc, gclose_app, comMq, taskMq, logVars, waiting,
                   arrived, bufVars, mq, histVars>>

\* fprintf or fclose of a null pointer ends the process
TaskFault == tpc \in {"log", "fclose"} /\ ~pfd /\ Die

-----------------------------------------------------------------------------
(* The line.  A frame that arrives while nobody has the port open is not    *)
(* the server's.                                                           *)

Arrive ==
    /\ cpc \notin {"down", "open"}
    /\ arrived < MaxFrames
    /\ waiting' = waiting + 1
    /\ arrived' = arrived + 1
    /\ UNCHANGED <<cpc, tpc, gclose_app, comMq, taskMq, logVars,
                   bufVars, mq, histVars>>

-----------------------------------------------------------------------------
ComTask ==
    \/ ComOpen \/ ComSpawn \/ ComMqOpen \/ ComLoop \/ ComRead \/ ComReadFails
    \/ ComSend \/ ComSendFails \/ ComJoin

TaskThread ==
    \/ TaskFopen \/ TaskGivesUp \/ TaskMqOpen \/ TaskLoop \/ TaskReceive \/ TaskReceiveFails
    \/ TaskLog \/ TaskSleep \/ TaskClose \/ TaskFault

Next == Start \/ SIGINT_handler \/ Kill \/ ComTask \/ TaskThread \/ Arrive

Spec == Init /\ [][Next]_vars

\* The two threads are scheduled; nobody has to send a frame, to interrupt the
\* process or to start it again.
FairSpec == Spec /\ WF_vars(ComTask) /\ WF_vars(TaskThread)

-----------------------------------------------------------------------------
(* Properties                                                              *)

\* Where a frame can be after comTask has read it: between the threads, in the
\* hands of one of them, or in a log.
Queued == {mq[i] : i \in DOMAIN mq}
InHand == (IF cpc = "send" THEN {rxBuf} ELSE {})
             \cup (IF tpc = "log" THEN {logBuf} ELSE {})
Logged == {file[i] : i \in DOMAIN file} \cup {erased[i] : i \in DOMAIN erased}

Vanished == (1..got) \ (Queued \cup InHand \cup Logged \cup dropped)

\* A crash costs at most two frames, one in the hands of each thread, and an
\* orderly end costs none: the queue outlives the process.
CrashLoss == Cardinality(Vanished) <= 2 * crashes

\* Whatever calls fail and however often the process is restarted, the log file
\* never goes back to an older frame, also where frames that an earlier run left
\* in the queue meet new ones.
NeverBackwards ==
    \A i, j \in DOMAIN file :
        i < j /\ file[i] # 0 /\ file[j] # 0 => file[i] <= file[j]

\* As long as no read has failed, the server implements the abstract channel: a
\* frame it read is logged at most once, in order, over all runs of the process.
Channel == INSTANCE TelemetryChannel WITH
    Sources <- {"UART"},
    Ordered <- {"UART"},
    produced <- [s \in {"UART"} |-> got],
    inflight <- [src : {"UART"}, seq : Queued \cup InHand],
    delivered <- [i \in DOMAIN (erased \o file) |->
                     [src |-> "UART", seq |-> (erased \o file)[i]]]

ImplementsChannel ==
    Channel!Init /\ [][readErrors' = 0 => [Channel!Next]_(Channel!chanVars)]_vars

\* After SIGINT the process ends once one more frame comes in: comTask sits in
\* read() until then.
EndsAfterNextFrame == ~gclose_app /\ waiting > 0 ~> ~Running

\* The logger catches up: the queue is empty again and again, as long as the
\* process is neither interrupted nor ended and taskThread got its buffer and its
\* queue.  (After SIGINT taskThread may leave from its sleep with frames still
\* queued: they wait for the next run.)
Logging ==
    /\ Running /\ gclose_app
    /\ tpc = "done" => pfd
    /\ tpc \in {"loop", "receive", "sleep"} => taskMq

QueueDrains == []<>(mq = <<>> \/ ~Logging)
=============================================================================
