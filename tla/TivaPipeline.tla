---------------------------- MODULE TivaPipeline ----------------------------
(***************************************************************************)
(* The Tiva (TM4C1294) side of the telemetry path in the build the         *)
(* repository ships, USE_UART: two sensor tasks, the two COM tasks that    *)
(* relay for them, and the UART task that creates the COM tasks and        *)
(* writes every message to UART6.                                          *)
(*                                                                         *)
(*   ZXSensorTask  -- ZX_Que  --> ZXTask  \                                *)
(*                                          COM_que --> COMUARTClientTask  *)
(*   RGBSensorTask -- RGB_Que --> RGBTask /                  --> UART6     *)
(*                                                                         *)
(* The model starts where main() calls vTaskStartScheduler: the binary     *)
(* semaphores exist and are empty, the sensor tasks and the UART task      *)
(* exist.  All tasks have priority 1 and FreeRTOS time-slices them, so any *)
(* interleaving of their steps is possible; a step is the code from one    *)
(* kernel call to the next.  A kernel queue is a sequence: messages are    *)
(* copied in and out whole.                                                *)
(***************************************************************************)
EXTENDS Naturals, Sequences, FiniteSets

CONSTANTS MAX_QUE_SIZE,   \* length of each of the three kernel queues
          PositionStatus, \* what the ZX sensor's status may say: a subset of BOOLEAN
          MaxColours,     \* bound of the model: readings of the RGB sensor
          MaxIrqs         \* bound of the model: interrupts on port L

ASSUME QueSizeAssumption == MAX_QUE_SIZE \in Nat \ {0}
ASSUME PositionStatusAssumption == PositionStatus \subseteq BOOLEAN
ASSUME BoundsAssumption == MaxColours \in Nat /\ MaxIrqs \in Nat

Sources == {"ZX", "RGB"}
Queues  == Sources \cup {"COM"}      \* ZX_Que, RGB_Que, COM_que

\* message[] of msg_struct, the only payload text
Labels == {"INIT", "ZPOS", "GREEN", "BLUE", "RED"}

\* msg_val, by where the byte was read: a constant, or a sensor register
Values == {"one", "DRCFG", "ZPOS", "GREEN", "BLUE", "RED"}

\* msg_struct.  seq numbers the messages each sensor task builds; the code has
\* no such field, it is how the model tells one message from the next.
Msg == [src : Sources, label : Labels, val : Values, seq : Nat]

NoMsg == [src |-> "ZX", label |-> "INIT", val |-> "one", seq |-> 0]

VARIABLES
    upc,       \* COMUARTClientTask: where it is
    rpc,       \* rpc[s]: where ZXTask / RGBTask is ("none": not created yet)
    spc,       \* spc[s]: where ZXSensorTask / RGBSensorTask is
    created,   \* the queues whose handle is no longer NULL
    sem,       \* ZX_sem, RGB_sem
    que,       \* contents of the kernel queues
    ubuf,      \* tx_buf of COMUARTClientTask
    rbuf,      \* tx_buf of ZXTask and of RGBTask
    sbuf,      \* tx_buf of ZXSensorTask and of RGBSensorTask
    readVal,   \* read_val of ZXSensorTask
    seq,       \* number of messages each sensor task has built
    armed,     \* the RGB sensor's interrupt line is high and can fall
    statusReads, \* how often the line was (re)armed: model history
    irqs,      \* how often PortLIntHandler ran: model history
    notified,  \* ulNotifiedValue of ZXSensorTask
    wire,      \* the messages sent on UART6 so far
    lost       \* the messages given up when a timed send found a full queue

taskVars == <<upc, rpc, spc>>
bufVars  == <<ubuf, rbuf, sbuf, readVal, seq>>
irqVars  == <<armed, statusReads, irqs, notified>>
vars == <<upc, rpc, spc, created, sem, que, ubuf, rbuf, sbuf, readVal, seq,
          armed, statusReads, irqs, notified, wire, lost>>

-----------------------------------------------------------------------------
(* The state main() leaves behind when the scheduler starts.  The RGB      *)
(* sensor may still be configured, with its line high, from before a reset *)
(* of the microcontroller.                                                 *)
Init ==
    /\ upc = "create"
    /\ rpc = [s \in Sources |-> "none"]
    /\ spc = [s \in Sources |-> "take"]
    /\ created = {}
    /\ sem = [s \in Sources |-> 0]
    /\ que = [k \in Queues |-> <<>>]
    /\ ubuf = NoMsg
    /\ rbuf = [s \in Sources |-> NoMsg]
    /\ sbuf = [s \in Sources |-> NoMsg]
    /\ readVal = "DRCFG"
    /\ seq = [s \in Sources |-> 0]
    /\ armed \in BOOLEAN
    /\ statusReads = 0
    /\ irqs = 0
    /\ notified = 0
    /\ wire = <<>>
    /\ lost = {}

\* Mutant: the queue takes one message too many.
HasRoomPlusOne(k) == Len(que[k]) <= MAX_QUE_SIZE

HasRoom(k) == Len(que[k]) < MAX_QUE_SIZE

-----------------------------------------------------------------------------
(* COMUARTClientTask                                                       *)

UartCreate ==
    /\ upc = "create"
    /\ created' = created \cup {"COM"}
    /\ upc' = "spawnZX"
    /\ UNCHANGED <<rpc, spc, sem, que, bufVars, irqVars, wire, lost>>

UartSpawn(s, from, to) ==
    /\ upc = from
    /\ upc' = to
    /\ rpc' = [rpc EXCEPT ![s] = "create"]
    /\ UNCHANGED <<spc, created, sem, que, bufVars, irqVars, wire, lost>>

UartSpawnZX  == UartSpawn("ZX", "spawnZX", "spawnRGB")
UartSpawnRGB == UartSpawn("RGB", "spawnRGB", "settle")

\* vTaskDelay(1000 ms), "wait for them to block"
UartSettle ==
    /\ upc = "settle"
    /\ upc' = "recv"
    /\ UNCHANGED <<rpc, spc, created, sem, que, bufVars, irqVars, wire, lost>>

\* Mutant: xQueuePeek, the message stays in COM_que.
UartPeek ==
    /\ upc = "recv"
    /\ "COM" \in created
    /\ que["COM"] # <<>>
    /\ ubuf' = Head(que["COM"])
    /\ upc' = "tx"
    /\ UNCHANGED <<rpc, spc, created, sem, que, rbuf, sbuf, readVal, seq,
                   irqVars, wire, lost>>

UartReceive ==
    /\ upc = "recv"
    /\ "COM" \in created
    /\ que["COM"] # <<>>
    /\ ubuf' = Head(que["COM"])
    /\ que' = [que EXCEPT !["COM"] = Tail(@)]
    /\ upc' = "tx"
    /\ UNCHANGED <<rpc, spc, created, sem, rbuf, sbuf, readVal, seq, irqVars,
                   wire, lost>>

UartTransmit ==
    /\ upc = "tx"
    /\ wire' = Append(wire, ubuf)
    /\ upc' = "recv"
    /\ UNCHANGED <<rpc, spc, created, sem, que, bufVars, irqVars, lost>>

-----------------------------------------------------------------------------
(* ZXTask and RGBTask                                                      *)

RelayCreate(s) ==
    /\ rpc[s] = "create"
    /\ created' = created \cup {s}
    /\ rpc' = [rpc EXCEPT ![s] = "give"]
    /\ UNCHANGED <<upc, spc, sem, que, bufVars, irqVars, wire, lost>>

\* Mutant: the COM task goes on to its loop without giving the semaphore.
RelayForgetsGive(s) ==
    /\ rpc[s] = "give"
    /\ rpc' = [rpc EXCEPT ![s] = "recv"]
    /\ UNCHANGED <<upc, spc, created, sem, que, bufVars, irqVars, wire, lost>>

\* signal sensor task to proceed and start collecting data
RelayGive(s) ==
    /\ rpc[s] = "give"
    /\ sem[s] = 0
    /\ sem' = [sem EXCEPT ![s] = 1]
    /\ rpc' = [rpc EXCEPT ![s] = "recv"]
    /\ UNCHANGED <<upc, spc, created, que, bufVars, irqVars, wire, lost>>

\* Mutant: the last message of a burst is left in the queue.
RelayLeavesOne(s) ==
    /\ rpc[s] = "recv"
    /\ s \in created
    /\ Len(que[s]) > 1
    /\ rbuf' = [rbuf EXCEPT ![s] = Head(que[s])]
    /\ que' = [que EXCEPT ![s] = Tail(@)]
    /\ rpc' = [rpc EXCEPT ![s] = "send"]
    /\ UNCHANGED <<upc, spc, created, sem, ubuf, sbuf, readVal, seq, irqVars,
                   wire, lost>>

RelayReceive(s) ==
    /\ rpc[s] = "recv"
    /\ s \in created
    /\ que[s] # <<>>
    /\ rbuf' = [rbuf EXCEPT ![s] = Head(que[s])]
    /\ que' = [que EXCEPT ![s] = Tail(@)]
    /\ rpc' = [rpc EXCEPT ![s] = "send"]
    /\ UNCHANGED <<upc, spc, created, sem, ubuf, sbuf, readVal, seq, irqVars,
                   wire, lost>>

\* Mutants: every message to the back, or every message to the front.
ForwardedToBack(s, q, m) == Append(q, m)
ForwardedToFront(s, q, m) == <<m>> \o q

\* ZXTask sends to the back of COM_que, RGBTask to the front.
Forwarded(s, q, m) == IF s = "RGB" THEN <<m>> \o q ELSE Append(q, m)

\* Mutant: a send that worked is tried again.
RelayForwardAgain(s) ==
    /\ rpc[s] = "send"
    /\ "COM" \in created
    /\ HasRoom("COM")
    /\ que' = [que EXCEPT !["COM"] = Forwarded(s, @, rbuf[s])]
    /\ UNCHANGED <<taskVars, created, sem, bufVars, irqVars, wire, lost>>

RelayForward(s) ==
    /\ rpc[s] = "send"
    /\ "COM" \in created
    /\ HasRoom("COM")
    /\ que' = [que EXCEPT !["COM"] = Forwarded(s, @, rbuf[s])]
    /\ rpc' = [rpc EXCEPT ![s] = "recv"]
    /\ UNCHANGED <<upc, spc, created, sem, bufVars, irqVars, wire, lost>>

\* Mutant: portMAX_DELAY, a send to a full queue waits for ever.
RelayNeverGivesUp(s) ==
    /\ rpc[s] = "send"
    /\ ~HasRoom("COM")
    /\ UNCHANGED vars

\* The 3000 ms of the send ran out with COM_que full: "Que Full".
RelayGiveUp(s) ==
    /\ rpc[s] = "send"
    /\ "COM" \in created
    /\ ~HasRoom("COM")
    /\ lost' = lost \cup {rbuf[s]}
    /\ rpc' = [rpc EXCEPT ![s] = "recv"]
    /\ UNCHANGED <<upc, spc, created, sem, que, bufVars, irqVars, wire>>

-----------------------------------------------------------------------------
(* ZXSensorTask and RGBSensorTask                                          *)

Build(s, label, val) ==
    /\ sbuf' = [sbuf EXCEPT ![s] = [src |-> s, label |-> label, val |-> val,
                                    seq |-> seq[s] + 1]]
    /\ seq' = [seq EXCEPT ![s] = @ + 1]

\* Mutant: the sensor task does not wait for its semaphore.
SensorTakeUnasked(s) ==
    /\ spc[s] = "take"
    /\ sem' = [sem EXCEPT ![s] = 0]
    /\ Build(s, "INIT", "one")
    /\ spc' = [spc EXCEPT ![s] = "send"]
    /\ IF s = "RGB" THEN armed' = TRUE /\ statusReads' = statusReads + 1
                    ELSE UNCHANGED <<armed, statusReads>>
    /\ UNCHANGED <<upc, rpc, created, que, ubuf, rbuf, readVal, irqs, notified,
                   wire, lost>>

\* The semaphore, the sensor's configuration and the INIT message.
\* Configuring the RGB sensor resets it, which raises its interrupt line.
SensorTake(s) ==
    /\ spc[s] = "take"
    /\ sem[s] = 1
    /\ sem' = [sem EXCEPT ![s] = 0]
    /\ Build(s, "INIT", "one")
    /\ spc' = [spc EXCEPT ![s] = "send"]
    /\ IF s = "RGB" THEN armed' = TRUE /\ statusReads' = statusReads + 1
                    ELSE UNCHANGED <<armed, statusReads>>
    /\ UNCHANGED <<upc, rpc, created, que, ubuf, rbuf, readVal, irqs, notified,
                   wire, lost>>

\* RGBSensorTask sends its INIT message to the front, all others go to the back.
Sent(m, q) == IF m.src = "RGB" /\ m.label = "INIT" THEN <<m>> \o q
                                                   ELSE Append(q, m)

\* ZXSensorTask waits after each sample, RGBSensorTask after each third.
AfterSend(m) == IF m.label \in {"ZPOS", "RED"} THEN "wait" ELSE "sample"

SensorSend(s) ==
    /\ spc[s] = "send"
    /\ s \in created
    /\ HasRoom(s)
    /\ que' = [que EXCEPT ![s] = Sent(sbuf[s], @)]
    /\ spc' = [spc EXCEPT ![s] = AfterSend(sbuf[s])]
    /\ UNCHANGED <<upc, rpc, created, sem, bufVars, irqVars, wire, lost>>

SensorGiveUp(s) ==
    /\ spc[s] = "send"
    /\ s \in created
    /\ ~HasRoom(s)
    /\ lost' = lost \cup {sbuf[s]}
    /\ spc' = [spc EXCEPT ![s] = AfterSend(sbuf[s])]
    /\ UNCHANGED <<upc, rpc, created, sem, que, bufVars, irqVars, wire>>

\* read_val is refreshed only when the status register says a position is
\* available; the message is sent in either case.
ZXSample(positionAvailable) ==
    /\ spc["ZX"] = "sample"
    /\ readVal' = IF positionAvailable THEN "ZPOS" ELSE readVal
    /\ Build("ZX", "ZPOS", readVal')
    /\ spc' = [spc EXCEPT !["ZX"] = "send"]
    /\ UNCHANGED <<upc, rpc, created, sem, que, ubuf, rbuf, irqVars, wire, lost>>

\* Mutant: ulTaskNotifyTake(pdTRUE, ...), the count is cleared.
ZXNotifyClear ==
    /\ spc["ZX"] = "wait"
    /\ notified > 0
    /\ notified' = 0
    /\ spc' = [spc EXCEPT !["ZX"] = "sample"]
    /\ UNCHANGED <<upc, rpc, created, sem, que, bufVars, armed, statusReads,
                   irqs, wire, lost>>

\* ulTaskNotifyTake(pdFALSE, portMAX_DELAY)
ZXNotifyTake ==
    /\ spc["ZX"] = "wait"
    /\ notified > 0
    /\ notified' = notified - 1
    /\ spc' = [spc EXCEPT !["ZX"] = "sample"]
    /\ UNCHANGED <<upc, rpc, created, sem, que, bufVars, armed, statusReads,
                   irqs, wire, lost>>

NextColour(label) ==
    CASE label \in {"INIT", "RED"} -> "GREEN"
      [] label = "GREEN" -> "BLUE"
      [] OTHER -> "RED"

\* A round starts by reading STATUS, which clears the sensor's interrupt.
RGBSample ==
    /\ spc["RGB"] = "sample"
    /\ seq["RGB"] <= MaxColours
    /\ LET colour == NextColour(sbuf["RGB"].label)
       IN  /\ Build("RGB", colour, colour)
           /\ IF colour = "GREEN"
              THEN armed' = TRUE /\ statusReads' = statusReads + 1
              ELSE UNCHANGED <<armed, statusReads>>
    /\ spc' = [spc EXCEPT !["RGB"] = "send"]
    /\ UNCHANGED <<upc, rpc, created, sem, que, ubuf, rbuf, readVal, irqs,
                   notified, wire, lost>>

\* vTaskDelay(2000 ms)
RGBDelay ==
    /\ spc["RGB"] = "wait"
    /\ spc' = [spc EXCEPT !["RGB"] = "sample"]
    /\ UNCHANGED <<upc, rpc, created, sem, que, bufVars, irqVars, wire, lost>>

\* Mutant: the handler runs again while the line is still low.
PortLIntHandlerLevel ==
    /\ armed
    /\ irqs < MaxIrqs
    /\ irqs' = irqs + 1
    /\ notified' = notified + 1
    /\ UNCHANGED <<taskVars, created, sem, que, bufVars, armed, statusReads,
                   wire, lost>>

\* The RGB sensor sees red above its threshold, its line falls, and the
\* interrupt runs before any task does.
PortLIntHandler ==
    /\ armed
    /\ irqs < MaxIrqs
    /\ armed' = FALSE
    /\ irqs' = irqs + 1
    /\ notified' = notified + 1
    /\ UNCHANGED <<taskVars, created, sem, que, bufVars, statusReads, wire,
                   lost>>

-----------------------------------------------------------------------------
UartTask ==
    UartCreate \/ UartSpawnZX \/ UartSpawnRGB \/ UartSettle \/ UartReceive
        \/ UartTransmit

RelayTask(s) ==
    RelayCreate(s) \/ RelayGive(s) \/ RelayReceive(s) \/ RelayForward(s)
        \/ RelayGiveUp(s)

ZXSensorTask ==
    \/ SensorTake("ZX") \/ SensorSend("ZX") \/ SensorGiveUp("ZX")
    \/ ZXNotifyTake
    \/ \E available \in PositionStatus : ZXSample(available)

RGBSensorTask ==
    \/ SensorTake("RGB") \/ SensorSend("RGB") \/ SensorGiveUp("RGB")
    \/ RGBSample \/ RGBDelay

Next ==
    \/ UartTask
    \/ \E s \in Sources : RelayTask(s)
    \/ ZXSensorTask
    \/ RGBSensorTask
    \/ PortLIntHandler

Spec == Init /\ [][Next]_vars

\* All tasks have the same priority, and the kernel is configured to preempt
\* and to time-slice: a task that can run does run eventually.  Two things are
\* not promised.  The interrupt belongs to the sensor, which owes nothing; and
\* UartTransmit may never end, because ROM_UARTCharPut busy-waits for room in the
\* transmitter.
FairSpec ==
    /\ Spec
    /\ WF_vars(ZXSensorTask)
    /\ WF_vars(RGBSensorTask)
    /\ \A s \in Sources : WF_vars(RelayTask(s))
    /\ WF_vars(UartTask /\ upc # "tx")

-----------------------------------------------------------------------------
(* Properties                                                              *)

\* Every variable holds what the code can store in it, and no queue is longer
\* than its length.
TypeOK ==
    /\ upc \in {"create", "spawnZX", "spawnRGB", "settle", "recv", "tx"}
    /\ rpc \in [Sources -> {"none", "create", "give", "recv", "send"}]
    /\ spc \in [Sources -> {"take", "sample", "send", "wait"}]
    /\ created \subseteq Queues
    /\ sem \in [Sources -> {0, 1}]
    /\ que \in [Queues -> Seq(Msg)]
    /\ \A k \in Queues : Len(que[k]) <= MAX_QUE_SIZE
    /\ ubuf \in Msg
    /\ rbuf \in [Sources -> Msg]
    /\ sbuf \in [Sources -> Msg]
    /\ readVal \in {"DRCFG", "ZPOS"}
    /\ seq \in [Sources -> Nat]
    /\ armed \in BOOLEAN
    /\ statusReads \in Nat
    /\ irqs \in Nat
    /\ notified \in Nat
    /\ wire \in Seq(Msg)
    /\ lost \subseteq Msg

\* No assertion of the start-up handshake can fire: a task that is about to
\* use a queue finds its handle set (configASSERT(pxQueue) in the kernel), and
\* a COM task that gives its semaphore finds it empty (configASSERT(ret ==
\* pdTRUE) in ZXTask and RGBTask).
HandlesReady ==
    /\ \A s \in Sources :
          /\ spc[s] = "send" => s \in created
          /\ rpc[s] = "recv" => s \in created
          /\ rpc[s] = "send" => "COM" \in created
          /\ rpc[s] = "give" => sem[s] = 0
    /\ upc = "recv" => "COM" \in created

\* RGBTask sends to the front of COM_que and ZXTask to the back, so COM_que is
\* always a block of RGB messages, newest first, before a block of ZX messages,
\* oldest first: whenever the UART task takes a ZX message, no RGB message is
\* waiting.
ComQueShape ==
    \A i, j \in DOMAIN que["COM"] :
        LET a == que["COM"][i]  b == que["COM"][j]
        IN  i < j => /\ b.src = "RGB" => a.src = "RGB"
                     /\ a.src = "RGB" /\ b.src = "RGB" => a.seq > b.seq
                     /\ a.src = "ZX" /\ b.src = "ZX" => a.seq < b.seq

\* The distance readings leave UART6 in the order ZXSensorTask took them,
\* through two queues and past every message that jumps ahead of them.
ZXInOrder ==
    \A i, j \in DOMAIN wire :
        i < j /\ wire[i].src = "ZX" /\ wire[j].src = "ZX"
            => wire[i].seq < wire[j].seq

\* Messages that jump the queue never change the order of the distance readings.
OrderKept == ComQueShape /\ ZXInOrder

\* The messages inside the pipeline: in a queue, or in a tx_buf that is yet to
\* be passed on.
Held(holds, m) == IF holds THEN <<m>> ELSE <<>>

Inside ==
    Held(spc["ZX"] = "send", sbuf["ZX"]) \o que["ZX"]
      \o Held(rpc["ZX"] = "send", rbuf["ZX"])
      \o Held(spc["RGB"] = "send", sbuf["RGB"]) \o que["RGB"]
      \o Held(rpc["RGB"] = "send", rbuf["RGB"])
      \o que["COM"] \o Held(upc = "tx", ubuf)

Ident(m) == [src |-> m.src, seq |-> m.seq]

\* Every message a sensor task ever built is in exactly one place: inside the
\* pipeline, on the wire, or given up at a full queue.  Nothing is sent twice
\* out of a stale tx_buf and nothing disappears without a "Que Full".
Accounted ==
    LET all == Inside \o wire
    IN  /\ Len(all) + Cardinality(lost) = seq["ZX"] + seq["RGB"]
        /\ {Ident(all[i]) : i \in DOMAIN all} \cup {Ident(m) : m \in lost}
              = UNION {{[src |-> s, seq |-> n] : n \in 1..seq[s]} : s \in Sources}

\* Each interrupt on the red threshold leads to exactly one reading of the
\* distance sensor, however many arrive while ZXSensorTask is blocked on a full
\* queue: the readings built are the INIT message, the first reading, and one
\* for each notification taken.
SamplePerInterrupt ==
    LET taken == irqs - notified
    IN  /\ notified <= irqs
        /\ spc["ZX"] = "take" => seq["ZX"] = 0 /\ taken = 0
        /\ spc["ZX"] = "sample" => seq["ZX"] = 1 + taken
        /\ spc["ZX"] = "wait" => seq["ZX"] = 2 + taken
        /\ spc["ZX"] = "send" =>
              seq["ZX"] = IF sbuf["ZX"].label = "INIT" THEN 1 ELSE 2 + taken

\* The RGB sensor holds its line low until STATUS is read, so the distance
\* sensor's traffic is paced by the RGB task's loop: beyond INIT and the first
\* reading there is at most one reading for each time the line was raised.
ZXPacedByStatusReads == seq["ZX"] <= 3 + statusReads

\* The pipeline implements the abstract channel: messages come out at most
\* once, none is invented, and those of the ZX sensor are not reordered.
Channel == INSTANCE TelemetryChannel WITH
    Sources <- Sources,
    Ordered <- {"ZX"},
    produced <- seq,
    inflight <- {Ident(Inside[i]) : i \in DOMAIN Inside},
    delivered <- [i \in DOMAIN wire |-> Ident(wire[i])]

ImplementsChannel == Channel!Spec

\* The handshake comes to an end: both sensor tasks get past their semaphore
\* and the UART task reaches its loop.
StartupCompletes ==
    <>[](upc \in {"recv", "tx"} /\ \A s \in Sources : spc[s] # "take")

\* A finite burst of readings drains: in the end every message is on the wire
\* or has been given up, unless a transmission never ends.
BurstDrains == []<>(upc # "tx") => <>[](Inside = <<>>)

\* Back-pressure never wedges a task: every send ends even when a transmission
\* never does and all three queues stay full.
SendsEnd ==
    \A s \in Sources : /\ rpc[s] = "send" ~> rpc[s] # "send"
                       /\ spc[s] = "send" ~> spc[s] # "send"

\* A message labelled "Z Pos" carries a byte read from the ZPOS register.
ZPosIsAPosition ==
    \A i \in DOMAIN wire : wire[i].label = "ZPOS" => wire[i].val = "ZPOS"

=============================================================================
