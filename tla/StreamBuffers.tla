--------------------------- MODULE StreamBuffers ---------------------------
(***************************************************************************)
(* FreeRTOS/Source/stream_buffer.c: a ring of bytes between one writer and *)
(* one reader, each a task or an interrupt, who tell each other of bytes   *)
(* and of room by task notifications.  A message buffer holds messages,    *)
(* each behind its length; the length takes one place of the model's ring, *)
(* whatever sizeof( size_t ) is.  A place holds a byte's number, or the    *)
(* negative of a length.                                                   *)
(*                                                                         *)
(* Head and tail are written by one side each, and nothing in the ring is  *)
(* seen before they move: copying bytes and moving an index are one step.  *)
(***************************************************************************)
EXTENDS SwTimers

CONSTANT Streams   \* Streams[s] = [size, trigger, message], as created

ASSUME StreamsAssumption ==
    \A s \in DOMAIN Streams :
        /\ Streams[s].size \in Nat \ {0, 1} /\ Streams[s].trigger \in 0 .. Streams[s].size
        /\ Streams[s].message \in BOOLEAN

VARIABLES
    sb,      \* sb[s]: what the structure holds
    local,   \* local[t]: xSpace or xBytesAvailable of t, and xNextMessageLength
    put, got \* put[s], got[s]: bytes written and read so far: model history

streamVars == <<sb, local, put, got>>

-----------------------------------------------------------------------------
(* The ring.                                                               *)

Length(s) == Streams[s].size + 1
LengthBytes(s) == IF Streams[s].message THEN 1 ELSE 0   \* sbBYTES_TO_STORE_MESSAGE_LENGTH
Required(call) == call.bytes + LengthBytes(call.s)      \* xRequiredSpace

prvInitialiseNewStreamBuffer(s, trigger) ==
    [head |-> 0, tail |-> 0, trigger |-> trigger, toReceive |-> NoTask, toSend |-> NoTask,
     buf |-> [i \in 0 .. Length(s) - 1 |-> 0]]

\* A trigger level of 0 is 1.
xStreamBufferGenericCreate(s) ==
    prvInitialiseNewStreamBuffer(s, Max({1, Streams[s].trigger}))

StreamsInit ==
    /\ TimersInit
    /\ sb = [s \in DOMAIN Streams |-> xStreamBufferGenericCreate(s)]
    /\ local = [t \in Users |-> [seen |-> 0, next |-> 0]]
    /\ put = [s \in DOMAIN Streams |-> 0]
    /\ got = [s \in DOMAIN Streams |-> 0]

prvBytesInBuffer(s) == (Length(s) + sb[s].head - sb[s].tail) % Length(s)

\* Mutant: the ring may fill up to its last place, and is then empty.
SpacesToTheLast(s) == 1 + ((Length(s) + sb[s].tail - sb[s].head - 1) % Length(s))

\* One place stays empty.
xStreamBufferSpacesAvailable(s) == (Length(s) + sb[s].tail - sb[s].head - 1) % Length(s)

prvWriteBytesToBuffer(s, places) ==
    LET at(i) == (sb[s].head + i - 1) % Length(s)
        Written(b, i) == [b EXCEPT ![at(i)] = places[i]]
    IN [sb[s] EXCEPT !.head = at(Len(places) + 1),
                     !.buf = FoldLeft(Written, @, [i \in 1 .. Len(places) |-> i])]

prvReadBytesFromBuffer(s, count) == [sb[s] EXCEPT !.tail = (@ + count) % Length(s)]

\* The next n bytes to be written.
Bytes(s, n) == [i \in 1 .. n |-> put[s] + i]

\* prvWriteMessageToBuffer: how many of n bytes are written if there is this
\* space: of a message all or none.
Writable(s, n, space) ==
    IF ~Streams[s].message THEN Min({n, space})
    ELSE IF space >= n + LengthBytes(s) THEN n ELSE 0

\* prvReadMessageFromBuffer: how many bytes are read with room for n.  The
\* length of the next message is at the tail.
NextMessage(s) == -sb[s].buf[sb[s].tail]
Readable(s, n, available) ==
    IF ~Streams[s].message THEN Min({n, available})
    ELSE IF available > LengthBytes(s) /\ NextMessage(s) <= n THEN NextMessage(s) ELSE 0

-----------------------------------------------------------------------------
(* What both sides do.                                                     *)

streamsElse == UNCHANGED <<syncVars, timerVars>>
Streaming(t, pc) == Continues(t, pc) /\ streamsElse
IsSender(t) == op[t].call.fn = "streamSend"

\* xTaskNotifyStateClear, of the task itself, as it is going to wait.
StateCleared(kk, t) == [kk EXCEPT !.nstate[t] = IF @ = "received" THEN "none" ELSE @]

\* What the task waits for may have come by now: then it was notified.
StreamBlocks(t) ==
    /\ Streaming(t, "streamBlock") /\ Goto(t, "streamWoken")
    /\ k' = IF k.nstate[t] = "received" THEN k ELSE BlockOnNotification(k, t, op[t].ticks)
    /\ UNCHANGED streamVars

\* xTaskNotifyWait returns, having cleared every bit.
StreamWakes(t) ==
    /\ Streaming(t, "streamWoken") /\ Goto(t, "streamForget")
    /\ k' = [k EXCEPT !.nstate[t] = "none",
                      !.nvalue[t] = IF k.nstate[t] = "received" THEN 0 ELSE @]
    /\ UNCHANGED streamVars

StreamForgets(t) ==
    /\ Streaming(t, "streamForget")
    /\ LET s == op[t].call.s
       IN IF IsSender(t)
          THEN sb' = [sb EXCEPT ![s].toSend = NoTask] /\ Goto(t, "streamCheck")
          ELSE sb' = [sb EXCEPT ![s].toReceive = NoTask] /\ Goto(t, "streamLook")
    /\ UNCHANGED <<k, local, put, got>>

\* Mutant: the other side is not told.
TellsNobody(t) ==
    /\ Streaming(t, "streamTell") /\ Goto(t, "setResume")
    /\ k' = vTaskSuspendAll(k)
    /\ UNCHANGED streamVars

\* xTaskNotify without a value, to whoever is registered; its yield waits for
\* the scheduler.
Told(kk, u) ==
    IF u = NoTask THEN kk
    ELSE LET told == Notified(kk, u, "eNoAction", 0)
         IN IF kk.nstate[u] = "waiting" THEN YieldIf(Outranks(kk, u), Woken(told, u)) ELSE told

\* sbSEND_COMPLETED, sbRECEIVE_COMPLETED, up to xTaskResumeAll.
StreamTells(t) ==
    /\ Streaming(t, "streamTell") /\ Goto(t, "setResume")
    /\ LET s == op[t].call.s
       IN IF IsSender(t)
          THEN k' = Told(vTaskSuspendAll(k), sb[s].toReceive)
               /\ sb' = [sb EXCEPT ![s].toReceive = NoTask]
          ELSE k' = Told(vTaskSuspendAll(k), sb[s].toSend)
               /\ sb' = [sb EXCEPT ![s].toSend = NoTask]
    /\ UNCHANGED <<local, put, got>>

-----------------------------------------------------------------------------
(* xStreamBufferSend.                                                      *)

xStreamBufferSend(t) ==
    \E call \in plan[t] :
        /\ Enters(t, "streamSend", call)
        /\ op' = [op EXCEPT ![t] = [NoOp EXCEPT
             !.call = call, !.pc = IF call.wait = 0 THEN "streamWrite" ELSE "streamRoom",
             !.ticks = call.wait, !.entry = <<k.overflows, k.tick>>, !.since = Now(k)]]
        /\ local' = [local EXCEPT ![t].seen = 0]
    /\ UNCHANGED <<k, sb, put, got>> /\ streamsElse

\* There is room, or else the task registers, in one critical section.
StreamRoom(t) ==
    /\ Streaming(t, "streamRoom")
    /\ LET s == op[t].call.s
           space == xStreamBufferSpacesAvailable(s)
       IN /\ local' = [local EXCEPT ![t].seen = space]
          /\ IF space < Required(op[t].call)
             THEN /\ k' = StateCleared(k, t)
                  /\ sb' = [sb EXCEPT ![s].toSend = t]
                  /\ Goto(t, "streamBlock")
             ELSE UNCHANGED <<k, sb>> /\ Goto(t, "streamWrite")
    /\ UNCHANGED <<put, got>>

StreamChecks(t) ==
    /\ Streaming(t, "streamCheck")
    /\ LET r == xTaskCheckForTimeOut(k, op[t].entry, op[t].ticks)
       IN op' = [op EXCEPT ![t].ticks = r.ticks, ![t].entry = r.entry,
                           ![t].pc = IF r.expired THEN "streamWrite" ELSE "streamRoom"]
    /\ UNCHANGED <<k, streamVars>>

\* As much as fitted when the space was last read, or if it was 0 fits now.  A
\* message's length goes in before the message.
StreamWrites(t) ==
    /\ Streaming(t, "streamWrite")
    /\ LET s == op[t].call.s
           space == IF local[t].seen = 0 THEN xStreamBufferSpacesAvailable(s) ELSE local[t].seen
           n == Writable(s, op[t].call.bytes, space)
       IN IF n = 0 THEN Returns(t, "fail") /\ UNCHANGED <<sb, put>>
          ELSE IF Streams[s].message
          THEN /\ sb' = [sb EXCEPT ![s] = prvWriteBytesToBuffer(s, <<-n>>)]
               /\ Goto(t, "streamWriteData") /\ UNCHANGED put
          ELSE /\ sb' = [sb EXCEPT ![s] = prvWriteBytesToBuffer(s, Bytes(s, n))]
               /\ put' = [put EXCEPT ![s] = @ + n]
               /\ Goto(t, "streamSent")
    /\ UNCHANGED <<k, local, got>>

StreamWritesData(t) ==
    /\ Streaming(t, "streamWriteData") /\ Goto(t, "streamSent")
    /\ LET s == op[t].call.s
           n == op[t].call.bytes
       IN /\ sb' = [sb EXCEPT ![s] = prvWriteBytesToBuffer(s, Bytes(s, n))]
          /\ put' = [put EXCEPT ![s] = @ + n]
    /\ UNCHANGED <<k, local, got>>

\* Are there as many bytes as a reader waits for?
Triggers(s) == prvBytesInBuffer(s) >= sb[s].trigger

StreamSent(t) ==
    /\ Streaming(t, "streamSent")
    /\ IF Triggers(op[t].call.s) THEN Goto(t, "streamTell") ELSE Returns(t, "pass")
    /\ UNCHANGED <<k, streamVars>>

-----------------------------------------------------------------------------
(* xStreamBufferReceive.                                                   *)

\* Bytes are there, or else the task registers, in one critical section.
xStreamBufferReceive(t) ==
    \E call \in plan[t] :
        /\ Enters(t, "streamReceive", call)
        /\ LET available == prvBytesInBuffer(call.s)
               waits == call.wait # 0 /\ available <= LengthBytes(call.s)
           IN /\ local' = [local EXCEPT ![t].seen = available]
              /\ k' = IF waits THEN StateCleared(k, t) ELSE k
              /\ sb' = IF waits THEN [sb EXCEPT ![call.s].toReceive = t] ELSE sb
              /\ op' = [op EXCEPT ![t] = [NoOp EXCEPT
                   !.call = call, !.pc = IF waits THEN "streamBlock" ELSE "streamRead",
                   !.ticks = call.wait, !.since = Now(k)]]
    /\ UNCHANGED <<put, got>> /\ streamsElse

StreamLooks(t) ==
    /\ Streaming(t, "streamLook") /\ Goto(t, "streamRead")
    /\ local' = [local EXCEPT ![t].seen = prvBytesInBuffer(op[t].call.s)]
    /\ UNCHANGED <<k, sb, put, got>>

\* Bytes are read; of a message its length first, and with it goes the tail.
StreamReads(t) ==
    /\ Streaming(t, "streamRead")
    /\ LET s == op[t].call.s
           n == Min({local[t].seen, op[t].call.bytes})
       IN IF local[t].seen <= LengthBytes(s)
          THEN Returns(t, "fail") /\ UNCHANGED <<sb, local, got>>
          ELSE IF Streams[s].message
          THEN /\ sb' = [sb EXCEPT ![s] = prvReadBytesFromBuffer(s, LengthBytes(s))]
               /\ local' = [local EXCEPT ![t].next = NextMessage(s)]
               /\ Goto(t, "streamReadData") /\ UNCHANGED got
          ELSE /\ sb' = [sb EXCEPT ![s] = prvReadBytesFromBuffer(s, n)]
               /\ got' = [got EXCEPT ![s] = @ + n]
               /\ Goto(t, "streamTell") /\ UNCHANGED local
    /\ UNCHANGED <<k, put>>

\* Mutant: a message that is too long loses its length.
KeepsTail(t) ==
    /\ Streaming(t, "streamReadData")
    /\ LET s == op[t].call.s
           n == local[t].next
       IN IF n > op[t].call.bytes THEN Returns(t, "fail") /\ UNCHANGED <<sb, got>>
          ELSE /\ sb' = [sb EXCEPT ![s] = prvReadBytesFromBuffer(s, n)]
               /\ got' = [got EXCEPT ![s] = @ + n]
               /\ Goto(t, "streamTell")
    /\ UNCHANGED <<k, local, put>>

\* A message that is longer than the caller's buffer stays: the tail goes back.
StreamReadsData(t) ==
    /\ Streaming(t, "streamReadData")
    /\ LET s == op[t].call.s
           n == local[t].next
       IN IF n > op[t].call.bytes
          THEN /\ sb' = [sb EXCEPT ![s] = prvReadBytesFromBuffer(s, -LengthBytes(s))]
               /\ Returns(t, "fail") /\ UNCHANGED got
          ELSE /\ sb' = [sb EXCEPT ![s] = prvReadBytesFromBuffer(s, n)]
               /\ got' = [got EXCEPT ![s] = @ + n]
               /\ Goto(t, "streamTell")
    /\ UNCHANGED <<k, local, put>>

-----------------------------------------------------------------------------
(* Interrupts: nothing comes between the steps of a call.                  *)

ToldFromISR(kk, u) ==
    IF u = NoTask THEN kk
    ELSE LET told == Notified(kk, u, "eNoAction", 0)
         IN IF kk.nstate[u] = "waiting"
            THEN YieldIf(Outranks(kk, u), MakeReadyOrPend(told, u)) ELSE told

Interrupts(fn, call) == call \in plan["isr"] /\ call.fn = fn

xStreamBufferSendFromISR(call) ==
    LET s == call.s
        n == Writable(s, call.bytes, xStreamBufferSpacesAvailable(s))
        places == (IF Streams[s].message THEN <<-n>> ELSE <<>>) \o Bytes(s, n)
        written == prvWriteBytesToBuffer(s, places)
        bytes == (Length(s) + written.head - written.tail) % Length(s)
        tells == n > 0 /\ bytes >= written.trigger
    IN /\ Interrupts("streamSend", call)
       /\ sb' = IF n = 0 THEN sb
                ELSE [sb EXCEPT ![s] = [written EXCEPT !.toReceive = IF tells THEN NoTask ELSE @]]
       /\ put' = [put EXCEPT ![s] = @ + n]
       /\ k' = IF tells THEN ToldFromISR(k, sb[s].toReceive) ELSE k
       /\ UNCHANGED got

xStreamBufferReceiveFromISR(call) ==
    LET s == call.s
        n == Readable(s, call.bytes, prvBytesInBuffer(s))
        read == prvReadBytesFromBuffer(s, n + LengthBytes(s))
    IN /\ Interrupts("streamReceive", call)
       /\ sb' = IF n = 0 THEN sb ELSE [sb EXCEPT ![s] = [read EXCEPT !.toSend = NoTask]]
       /\ got' = [got EXCEPT ![s] = @ + n]
       /\ k' = IF n = 0 THEN k ELSE ToldFromISR(k, sb[s].toSend)
       /\ UNCHANGED put

\* For a driver that moves the bytes itself and then only tells.
xStreamBufferSendCompletedFromISR(call) ==
    /\ Interrupts("streamSendCompleted", call)
    /\ k' = ToldFromISR(k, sb[call.s].toReceive)
    /\ sb' = [sb EXCEPT ![call.s].toReceive = NoTask]
    /\ UNCHANGED <<put, got>>

xStreamBufferReceiveCompletedFromISR(call) ==
    /\ Interrupts("streamReceiveCompleted", call)
    /\ k' = ToldFromISR(k, sb[call.s].toSend)
    /\ sb' = [sb EXCEPT ![call.s].toSend = NoTask]
    /\ UNCHANGED <<put, got>>

StreamInterrupt ==
    /\ left["isr"] > 0
    /\ left' = [left EXCEPT !["isr"] = @ - 1]
    /\ \E call \in plan["isr"] :
        \/ xStreamBufferSendFromISR(call) \/ xStreamBufferReceiveFromISR(call)
        \/ xStreamBufferSendCompletedFromISR(call)
        \/ xStreamBufferReceiveCompletedFromISR(call)
    /\ UNCHANGED <<op, queue, items, out, local>> /\ cpuUnchanged /\ streamsElse

-----------------------------------------------------------------------------
(* The other calls.                                                        *)

\* Nothing protects the structure while it is cleared: the caller sees to it
\* that the other side is in no call.  Who is registered keeps it from that.
xStreamBufferReset(t) ==
    \E call \in plan[t] :
        /\ Enters(t, "streamReset", call)
        /\ \A u \in Users \ {t} : op[u].pc # "out" => op[u].pc = "streamWoken"
        /\ IF sb[call.s].toReceive = NoTask /\ sb[call.s].toSend = NoTask
           THEN /\ sb' = [sb EXCEPT ![call.s] = prvInitialiseNewStreamBuffer(call.s, @.trigger)]
                /\ got' = [got EXCEPT ![call.s] = put[call.s]]
           ELSE UNCHANGED <<sb, got>>
        /\ Passes(t, call)
    /\ UNCHANGED <<k, local, put>> /\ streamsElse

\* Who waits already is not looked at.
xStreamBufferSetTriggerLevel(t) ==
    \E call \in plan[t] :
        /\ Enters(t, "streamTrigger", call)
        /\ LET level == Max({1, call.level})
           IN sb' = [sb EXCEPT ![call.s].trigger = IF level <= Length(call.s) THEN level ELSE @]
        /\ Passes(t, call)
    /\ UNCHANGED <<k, local, put, got>> /\ streamsElse

StreamTask(t) ==
    \/ StreamBlocks(t) \/ StreamWakes(t) \/ StreamForgets(t) \/ StreamTells(t)
    \/ xStreamBufferSend(t) \/ StreamRoom(t) \/ StreamChecks(t)
    \/ StreamWrites(t) \/ StreamWritesData(t) \/ StreamSent(t)
    \/ xStreamBufferReceive(t) \/ StreamLooks(t) \/ StreamReads(t) \/ StreamReadsData(t)
    \/ xStreamBufferReset(t) \/ xStreamBufferSetTriggerLevel(t)

StreamsNext ==
    \/ \E t \in Users : Runs(t) /\ StreamTask(t)
    \/ StreamInterrupt
    \/ TimersNext /\ UNCHANGED streamVars

StreamsSpec == StreamsInit /\ [][StreamsNext]_<<allVars, streamVars>>

-----------------------------------------------------------------------------
(* Properties.                                                             *)

\* The places of the ring from the tail to the head.
Ring(s) ==
    [i \in 1 .. prvBytesInBuffer(s) |-> sb[s].buf[(sb[s].tail + i - 1) % Length(s)]]

\* A task of this stream is between moving an index and telling the other.
Amid(s, pcs) == \E t \in Users : op[t].call.fn # "none" /\ op[t].pc \in pcs /\ op[t].call.s = s

\* The bytes between tail and head are those that were written and not read, in
\* order.
BytesInOrder(s) ==
    SelectSeq(Ring(s), LAMBDA place : place > 0) =
        [i \in 1 .. put[s] - got[s] |-> got[s] + i]

\* In a message buffer each length is followed by its message, and by the next
\* length, unless a reader has taken the length or a writer writes one now.
MessagesWhole(s) ==
    LET ring == Ring(s)
        sizes == {i \in 1 .. Len(ring) : ring[i] < 0}
    IN /\ ring # <<>> /\ ~Amid(s, {"streamReadData"}) => 1 \in sizes
       /\ \A i \in sizes :
            LET end == i - ring[i]
            IN \/ end = Len(ring) \/ end + 1 \in sizes
               \/ i = Len(ring) /\ Amid(s, {"streamWriteData"})

\* Nobody sleeps who was told, or waits for bytes or room that are there and
\* that nobody is about to tell of.
StreamSleepersRight(s) ==
    \A t \in Users :
        (op[t].pc = "streamWoken" /\ op[t].call.s = s /\ ~IsReady(k, t) /\ ~InPending(k, t)) =>
            /\ k.nstate[t] = "waiting"
            /\ IF IsSender(t)
               THEN xStreamBufferSpacesAvailable(s) >= Required(op[t].call) =>
                        Amid(s, {"streamReadData", "streamTell"})
               ELSE Triggers(s) /\ prvBytesInBuffer(s) > LengthBytes(s) =>
                        Amid(s, {"streamSent", "streamTell"})

\* A stream buffer loses, repeats and reorders nothing, whichever side preempts
\* the other; a message buffer delivers whole messages; and neither side sleeps
\* beside what it waits for.
StreamsRight ==
    \A s \in DOMAIN Streams :
        /\ BytesInOrder(s) /\ StreamSleepersRight(s)
        /\ Streams[s].message => MessagesWhole(s)

=============================================================================
