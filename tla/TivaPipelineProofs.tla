------------------------- MODULE TivaPipelineProofs -------------------------
(***************************************************************************)
(* Theorems about TivaPipeline, for every queue length and every bound.    *)
(***************************************************************************)
EXTENDS TivaPipeline, SequenceFacts, FiniteSetTheorems, TLAPS

USE DEF Sources, Queues

-----------------------------------------------------------------------------
(* Sequences.                                                              *)

\* What the kernel's queue copies do to a sequence: sending to the back or to
\* the front adds one message and receiving removes the first.
LEMMA SendToBackType ==
    ASSUME NEW T, NEW q \in Seq(T), NEW m \in T
    PROVE  Append(q, m) \in Seq(T) /\ Len(Append(q, m)) = Len(q) + 1
OBVIOUS

LEMMA SendToFrontType ==
    ASSUME NEW T, NEW q \in Seq(T), NEW m \in T
    PROVE  <<m>> \o q \in Seq(T) /\ Len(<<m>> \o q) = Len(q) + 1
OBVIOUS

LEMMA ReceiveType ==
    ASSUME NEW T, NEW q \in Seq(T), q # <<>>
    PROVE  Head(q) \in T /\ Tail(q) \in Seq(T) /\ Len(Tail(q)) = Len(q) - 1
OBVIOUS

-----------------------------------------------------------------------------
(* Type correctness.                                                       *)

LEMMA BuildType ==
    ASSUME TypeOK, NEW s \in Sources, NEW label \in Labels, NEW val \in Values,
           Build(s, label, val)
    PROVE  sbuf' \in [Sources -> Msg] /\ seq' \in [Sources -> Nat]
<1>1. seq[s] + 1 \in Nat
  BY DEF TypeOK
<1>2. [src |-> s, label |-> label, val |-> val, seq |-> seq[s] + 1] \in Msg
  BY <1>1 DEF Msg
<1> QED
  BY <1>1, <1>2 DEF Build, TypeOK

\* A queue that had room and gained one message, or lost one, is within length.
LEMMA QueType ==
    ASSUME TypeOK, NEW k \in Queues, NEW q \in Seq(Msg),
           Len(q) <= MAX_QUE_SIZE, que' = [que EXCEPT ![k] = q]
    PROVE  /\ que' \in [Queues -> Seq(Msg)]
           /\ \A j \in Queues : Len(que'[j]) <= MAX_QUE_SIZE
BY DEF TypeOK

LEMMA TypeInit == Init => TypeOK
BY QueSizeAssumption DEF Init, TypeOK, NoMsg, Msg, Labels, Values

LEMMA TypeStep == TypeOK /\ [Next]_vars => TypeOK'
<1> USE QueSizeAssumption
<1> SUFFICES ASSUME TypeOK, [Next]_vars PROVE TypeOK'
  OBVIOUS
<1>1. CASE UartCreate
  BY <1>1 DEF UartCreate, TypeOK, bufVars, irqVars
<1>2. CASE UartSpawnZX \/ UartSpawnRGB
  BY <1>2 DEF UartSpawnZX, UartSpawnRGB, UartSpawn, TypeOK, bufVars, irqVars
<1>3. CASE UartSettle
  BY <1>3 DEF UartSettle, TypeOK, bufVars, irqVars
<1>4. CASE UartReceive
  <2>1. que["COM"] \in Seq(Msg) /\ que["COM"] # <<>>
    BY <1>4 DEF UartReceive, TypeOK
  <2>2. /\ Head(que["COM"]) \in Msg
        /\ Tail(que["COM"]) \in Seq(Msg)
        /\ Len(Tail(que["COM"])) <= MAX_QUE_SIZE
    BY <2>1, ReceiveType DEF TypeOK
  <2>3. /\ que' \in [Queues -> Seq(Msg)]
        /\ \A j \in Queues : Len(que'[j]) <= MAX_QUE_SIZE
    BY <1>4, <2>2, QueType DEF UartReceive
  <2> QED
    BY <1>4, <2>2, <2>3 DEF UartReceive, TypeOK, irqVars
<1>5. CASE UartTransmit
  BY <1>5 DEF UartTransmit, TypeOK, bufVars, irqVars
<1>6. ASSUME NEW s \in Sources, RelayCreate(s) PROVE TypeOK'
  BY <1>6 DEF RelayCreate, TypeOK, bufVars, irqVars
<1>7. ASSUME NEW s \in Sources, RelayGive(s) PROVE TypeOK'
  BY <1>7 DEF RelayGive, TypeOK, bufVars, irqVars
<1>8. ASSUME NEW s \in Sources, RelayReceive(s) PROVE TypeOK'
  <2>1. que[s] \in Seq(Msg) /\ que[s] # <<>>
    BY <1>8 DEF RelayReceive, TypeOK
  <2>2. /\ Head(que[s]) \in Msg
        /\ Tail(que[s]) \in Seq(Msg)
        /\ Len(Tail(que[s])) <= MAX_QUE_SIZE
    BY <2>1, ReceiveType DEF TypeOK
  <2>3. /\ que' \in [Queues -> Seq(Msg)]
        /\ \A j \in Queues : Len(que'[j]) <= MAX_QUE_SIZE
    BY <1>8, <2>2, QueType DEF RelayReceive
  <2> QED
    BY <1>8, <2>2, <2>3 DEF RelayReceive, TypeOK, irqVars
<1>9. ASSUME NEW s \in Sources, RelayForward(s) PROVE TypeOK'
  <2>1. /\ Forwarded(s, que["COM"], rbuf[s]) \in Seq(Msg)
        /\ Len(Forwarded(s, que["COM"], rbuf[s])) <= MAX_QUE_SIZE
    BY <1>9, SendToBackType, SendToFrontType
       DEF RelayForward, Forwarded, HasRoom, TypeOK
  <2>2. /\ que' \in [Queues -> Seq(Msg)]
        /\ \A j \in Queues : Len(que'[j]) <= MAX_QUE_SIZE
    BY <1>9, <2>1, QueType DEF RelayForward
  <2> QED
    BY <1>9, <2>2 DEF RelayForward, TypeOK, bufVars, irqVars
<1>10. ASSUME NEW s \in Sources, RelayGiveUp(s) PROVE TypeOK'
  BY <1>10 DEF RelayGiveUp, TypeOK, bufVars, irqVars
<1>11. ASSUME NEW s \in Sources, SensorTake(s) PROVE TypeOK'
  <2>1. sbuf' \in [Sources -> Msg] /\ seq' \in [Sources -> Nat]
    BY <1>11, BuildType DEF SensorTake, Labels, Values
  <2>2. armed' \in BOOLEAN
    BY <1>11, Zenon DEF SensorTake, TypeOK
  <2>3. statusReads' \in Nat
    BY <1>11 DEF SensorTake, TypeOK
  <2> QED
    BY <1>11, <2>1, <2>2, <2>3 DEF SensorTake, TypeOK
<1>12. ASSUME NEW s \in Sources, SensorSend(s) PROVE TypeOK'
  <2>1. /\ Sent(sbuf[s], que[s]) \in Seq(Msg)
        /\ Len(Sent(sbuf[s], que[s])) <= MAX_QUE_SIZE
    BY <1>12, SendToBackType, SendToFrontType
       DEF SensorSend, Sent, HasRoom, TypeOK
  <2>2. /\ que' \in [Queues -> Seq(Msg)]
        /\ \A j \in Queues : Len(que'[j]) <= MAX_QUE_SIZE
    BY <1>12, <2>1, QueType DEF SensorSend
  <2> QED
    BY <1>12, <2>2 DEF SensorSend, AfterSend, TypeOK, bufVars, irqVars
<1>13. ASSUME NEW s \in Sources, SensorGiveUp(s) PROVE TypeOK'
  BY <1>13 DEF SensorGiveUp, AfterSend, TypeOK, bufVars, irqVars
<1>14. ASSUME NEW available \in PositionStatus, ZXSample(available)
       PROVE  TypeOK'
  <2>1. readVal' \in {"DRCFG", "ZPOS"}
    BY <1>14 DEF ZXSample, TypeOK
  <2>2. sbuf' \in [Sources -> Msg] /\ seq' \in [Sources -> Nat]
    BY <1>14, <2>1, BuildType DEF ZXSample, Labels, Values
  <2> QED
    BY <1>14, <2>1, <2>2 DEF ZXSample, TypeOK, irqVars
<1>15. CASE ZXNotifyTake
  BY <1>15 DEF ZXNotifyTake, TypeOK, bufVars
<1>16. CASE RGBSample
  <2> DEFINE colour == NextColour(sbuf["RGB"].label)
  <2>1. colour \in Labels /\ colour \in Values
    BY DEF NextColour, Labels, Values
  <2>2. sbuf' \in [Sources -> Msg] /\ seq' \in [Sources -> Nat]
    BY <1>16, <2>1, BuildType DEF RGBSample
  <2>3. armed' \in BOOLEAN
    BY <1>16, Zenon DEF RGBSample, TypeOK
  <2>4. statusReads' \in Nat
    BY <1>16 DEF RGBSample, TypeOK
  <2> QED
    BY <1>16, <2>2, <2>3, <2>4 DEF RGBSample, TypeOK
<1>17. CASE RGBDelay
  BY <1>17 DEF RGBDelay, TypeOK, bufVars, irqVars
<1>18. CASE PortLIntHandler
  <2>1. armed' \in BOOLEAN
    BY <1>18, Zenon DEF PortLIntHandler
  <2>2. irqs' \in Nat /\ notified' \in Nat
    BY <1>18 DEF PortLIntHandler, TypeOK
  <2> QED
    BY <1>18, <2>1, <2>2 DEF PortLIntHandler, TypeOK, taskVars, bufVars
<1>19. CASE UNCHANGED vars
  BY <1>19 DEF vars, TypeOK
<1> QED
  BY <1>1, <1>2, <1>3, <1>4, <1>5, <1>6, <1>7, <1>8, <1>9, <1>10, <1>11,
     <1>12, <1>13, <1>14, <1>15, <1>16, <1>17, <1>18, <1>19
     DEF Next, UartTask, RelayTask, ZXSensorTask, RGBSensorTask

\* The state of the tasks, queues and buffers always has its type; in
\* particular no queue of COM/COMTask.c, COM/ZXCOMTask.c and COM/RGBCOMTask.c
\* ever exceeds MAX_QUE_SIZE.
THEOREM TypeCorrect == Spec => []TypeOK
BY TypeInit, TypeStep, PTL DEF Spec

-----------------------------------------------------------------------------
(* The start-up handshake.                                                 *)

\* Why no assertion of the handshake fires: whoever is past a point of the
\* start-up leaves behind what the next one needs.
CreatedFirst ==
    /\ upc # "create" => "COM" \in created
    /\ \A s \in Sources :
          /\ rpc[s] # "none" => "COM" \in created
          /\ rpc[s] \in {"give", "recv", "send"} => s \in created

GivenOnce ==
    \A s \in Sources :
        /\ rpc[s] = "give" => sem[s] = 0
        /\ sem[s] = 1 \/ spc[s] # "take" => rpc[s] \in {"recv", "send"}

SpawnedOnce ==
    /\ upc \in {"create", "spawnZX"} => rpc["ZX"] = "none"
    /\ upc \in {"create", "spawnZX", "spawnRGB"} => rpc["RGB"] = "none"

Handshake == TypeOK /\ CreatedFirst /\ GivenOnce /\ SpawnedOnce

LEMMA HandshakeInductive == Handshake /\ [Next]_vars => Handshake'
<1> SUFFICES ASSUME Handshake, [Next]_vars PROVE Handshake'
  OBVIOUS
<1>0. TypeOK'
  BY TypeStep DEF Handshake
<1> USE DEF CreatedFirst, GivenOnce, SpawnedOnce
<1>1. CASE UartCreate
  BY <1>0, <1>1 DEF UartCreate, Handshake, TypeOK
<1>2. CASE UartSpawnZX
  BY <1>0, <1>2 DEF UartSpawnZX, UartSpawn, Handshake, TypeOK
<1>3. CASE UartSpawnRGB
  BY <1>0, <1>3 DEF UartSpawnRGB, UartSpawn, Handshake, TypeOK
<1>4. CASE UartSettle \/ UartReceive \/ UartTransmit
  BY <1>0, <1>4 DEF UartSettle, UartReceive, UartTransmit, Handshake, TypeOK
<1>5. ASSUME NEW s \in Sources, RelayCreate(s) PROVE Handshake'
  BY <1>0, <1>5 DEF RelayCreate, Handshake, TypeOK
<1>6. ASSUME NEW s \in Sources, RelayGive(s) PROVE Handshake'
  BY <1>0, <1>6 DEF RelayGive, Handshake, TypeOK
<1>7. ASSUME NEW s \in Sources,
             RelayReceive(s) \/ RelayForward(s) \/ RelayGiveUp(s)
      PROVE  Handshake'
  <2>1. /\ rpc[s] \in {"recv", "send"}
        /\ rpc' = [rpc EXCEPT ![s] = rpc'[s]] /\ rpc'[s] \in {"recv", "send"}
        /\ UNCHANGED <<upc, spc, created, sem>>
    BY <1>7 DEF RelayReceive, RelayForward, RelayGiveUp, Handshake, TypeOK
  <2>2. rpc \in [Sources -> {"none", "create", "give", "recv", "send"}]
    BY DEF Handshake, TypeOK
  <2>3. CreatedFirst'
    BY <2>1, <2>2 DEF Handshake
  <2>4. GivenOnce'
    BY <2>1, <2>2 DEF Handshake
  <2>5. SpawnedOnce'
    BY <2>1, <2>2 DEF Handshake
  <2> QED
    BY <1>0, <2>3, <2>4, <2>5 DEF Handshake
<1>8. ASSUME NEW s \in Sources, SensorTake(s) PROVE Handshake'
  BY <1>0, <1>8 DEF SensorTake, Handshake, TypeOK
<1>9. ASSUME NEW s \in Sources, SensorSend(s) \/ SensorGiveUp(s)
      PROVE  Handshake'
  <2>1. /\ spc[s] # "take"
        /\ spc' = [spc EXCEPT ![s] = spc'[s]]
        /\ UNCHANGED <<upc, rpc, created, sem>>
    BY <1>9 DEF SensorSend, SensorGiveUp, AfterSend, Handshake, TypeOK
  <2>2. CreatedFirst' /\ SpawnedOnce'
    BY <2>1 DEF Handshake
  <2>3. GivenOnce'
    BY <2>1 DEF Handshake, TypeOK
  <2> QED
    BY <1>0, <2>2, <2>3 DEF Handshake
<1>10. ASSUME NEW available \in PositionStatus, ZXSample(available)
       PROVE  Handshake'
  BY <1>0, <1>10 DEF ZXSample, Handshake, TypeOK
<1>11. CASE ZXNotifyTake \/ RGBSample \/ RGBDelay
  <2>1. PICK s \in Sources :
           /\ spc[s] # "take"
           /\ spc' = [spc EXCEPT ![s] = spc'[s]]
           /\ UNCHANGED <<upc, rpc, created, sem>>
    BY <1>11 DEF ZXNotifyTake, RGBSample, RGBDelay, Handshake, TypeOK, Sources
  <2>2. CreatedFirst' /\ SpawnedOnce'
    BY <2>1 DEF Handshake
  <2>3. GivenOnce'
    BY <2>1 DEF Handshake, TypeOK
  <2> QED
    BY <1>0, <2>2, <2>3 DEF Handshake
<1>12. CASE PortLIntHandler
  BY <1>0, <1>12 DEF PortLIntHandler, Handshake, TypeOK, taskVars
<1>13. CASE UNCHANGED vars
  BY <1>0, <1>13 DEF vars, Handshake
<1> QED
  BY <1>1, <1>2, <1>3, <1>4, <1>5, <1>6, <1>7, <1>8, <1>9, <1>10, <1>11,
     <1>12, <1>13
     DEF Next, UartTask, RelayTask, ZXSensorTask, RGBSensorTask

LEMMA HandshakeHolds == Spec => []Handshake
<1>1. Init => Handshake
  BY TypeInit DEF Init, Handshake, CreatedFirst, GivenOnce, SpawnedOnce
<1> QED
  BY <1>1, HandshakeInductive, PTL DEF Spec

\* No configASSERT of the start-up can fire, in any interleaving of the five
\* tasks and the interrupt: no queue is used before its handle is set, and no
\* semaphore is given twice.
THEOREM HandshakeSafe == Spec => []HandlesReady
<1>1. Handshake => HandlesReady
  BY DEF Handshake, CreatedFirst, GivenOnce, HandlesReady, TypeOK
<1> QED
  BY <1>1, HandshakeHolds, PTL

-----------------------------------------------------------------------------
(* One distance reading per interrupt.                                     *)

\* The line falls only after it was raised, and each fall is one interrupt.
\* A reset of the microcontroller may find it raised.
OneFallPerRise ==
    /\ armed => irqs <= statusReads
    /\ irqs <= 1 + statusReads

\* Until the INIT message is in ZX_Que no notification has been taken.
NothingTakenYet ==
    spc["ZX"] = "take" \/ (spc["ZX"] = "send" /\ sbuf["ZX"].label = "INIT")
        => notified = irqs

LabelOfZX == sbuf["ZX"].label \in {"INIT", "ZPOS"}

Readings ==
    TypeOK /\ SamplePerInterrupt /\ NothingTakenYet /\ LabelOfZX
           /\ OneFallPerRise

LEMMA ReadingsInductive == Readings /\ [Next]_vars => Readings'
<1> SUFFICES ASSUME Readings, [Next]_vars PROVE Readings'
  OBVIOUS
<1>0. TypeOK'
  BY TypeStep DEF Readings
\* What the counters of the ZX sensor say.
<1> DEFINE Counted == SamplePerInterrupt /\ NothingTakenYet /\ LabelOfZX
<1> USE DEF SamplePerInterrupt, NothingTakenYet, LabelOfZX
<1>1. CASE UartTask \/ (\E s \in Sources : RelayTask(s)) \/ UNCHANGED vars
  <2>1. UNCHANGED <<spc, sbuf, seq, armed, statusReads, irqs, notified>>
    BY <1>1 DEF UartTask, RelayTask, UartCreate, UartSpawnZX, UartSpawnRGB,
       UartSpawn, UartSettle, UartReceive, UartTransmit, RelayCreate,
       RelayGive, RelayReceive, RelayForward, RelayGiveUp, bufVars, irqVars,
       vars
  <2> QED
    BY <1>0, <2>1 DEF Readings, OneFallPerRise
<1>2. CASE SensorTake("ZX")
  <2>1. Counted'
    BY <1>2 DEF Readings, TypeOK, SensorTake, Build
  <2>2. OneFallPerRise'
    BY <1>2 DEF Readings, OneFallPerRise, SensorTake
  <2> QED
    BY <1>0, <2>1, <2>2 DEF Readings
<1>3. ASSUME SensorTake("RGB") \/ RGBSample PROVE Readings'
  <2>1. Counted'
    <3>1. UNCHANGED <<irqs, notified>> /\ spc'["ZX"] = spc["ZX"]
      BY <1>3 DEF Readings, TypeOK, SensorTake, RGBSample
    <3>2. sbuf'["ZX"] = sbuf["ZX"] /\ seq'["ZX"] = seq["ZX"]
      BY <1>3 DEF Readings, TypeOK, SensorTake, RGBSample, Build
    <3> QED
      BY <3>1, <3>2 DEF Readings
  <2>2. irqs' <= 1 + statusReads'
    BY <1>3 DEF Readings, TypeOK, OneFallPerRise, SensorTake, RGBSample
  <2>3. CASE irqs' <= statusReads'
    BY <1>0, <2>1, <2>2, <2>3 DEF Readings, OneFallPerRise
  <2>4. CASE ~(irqs' <= statusReads')
    <3>1. UNCHANGED <<armed, statusReads, irqs>>
      BY <1>3, <2>4 DEF Readings, TypeOK, OneFallPerRise, SensorTake, RGBSample
    <3> QED
      BY <1>0, <2>1, <3>1 DEF Readings, OneFallPerRise
  <2> QED
    BY <2>3, <2>4
<1>4. CASE \E s \in Sources : SensorSend(s) \/ SensorGiveUp(s)
  <2>1. Counted'
    <3>1. UNCHANGED <<irqs, notified, sbuf, seq>>
      BY <1>4 DEF SensorSend, SensorGiveUp, bufVars, irqVars
    <3>2. \/ spc'["ZX"] = spc["ZX"]
          \/ spc["ZX"] = "send" /\ spc'["ZX"] = AfterSend(sbuf["ZX"])
      BY <1>4 DEF Readings, TypeOK, SensorSend, SensorGiveUp
    <3>3. CASE spc'["ZX"] = spc["ZX"]
      BY <3>1, <3>3 DEF Readings
    <3>4. CASE spc["ZX"] = "send" /\ spc'["ZX"] = AfterSend(sbuf["ZX"])
      <4>1. sbuf["ZX"].label # "RED" /\ irqs \in Nat /\ notified \in Nat
        BY <3>4 DEF Readings, TypeOK, LabelOfZX
      <4> QED
        BY <3>1, <3>4, <4>1 DEF Readings, AfterSend, LabelOfZX
    <3> QED
      BY <3>2, <3>3, <3>4
  <2>2. OneFallPerRise'
    BY <1>4 DEF Readings, OneFallPerRise, SensorSend, SensorGiveUp, irqVars
  <2> QED
    BY <1>0, <2>1, <2>2 DEF Readings
<1>5. ASSUME NEW available \in PositionStatus, ZXSample(available)
      PROVE  Readings'
  <2>1. Counted'
    BY <1>5 DEF Readings, TypeOK, ZXSample, Build, irqVars
  <2>2. OneFallPerRise'
    BY <1>5 DEF Readings, OneFallPerRise, ZXSample, irqVars
  <2> QED
    BY <1>0, <2>1, <2>2 DEF Readings
<1>6. CASE ZXNotifyTake \/ RGBDelay
  <2>1. ASSUME ZXNotifyTake PROVE Counted'
    BY <2>1 DEF Readings, TypeOK, ZXNotifyTake, bufVars
  <2>2. ASSUME RGBDelay PROVE Counted'
    BY <2>2 DEF Readings, TypeOK, RGBDelay, bufVars, irqVars
  <2>3. Counted'
    BY <1>6, <2>1, <2>2
  <2>4. OneFallPerRise'
    BY <1>6 DEF Readings, OneFallPerRise, ZXNotifyTake, RGBDelay, irqVars
  <2> QED
    BY <1>0, <2>3, <2>4 DEF Readings
<1>7. CASE PortLIntHandler
  <2>1. Counted'
    BY <1>7 DEF Readings, TypeOK, PortLIntHandler, taskVars, bufVars
  <2>2. OneFallPerRise'
    <3>1. irqs <= statusReads
      BY <1>7, Zenon DEF Readings, OneFallPerRise, PortLIntHandler
    <3>2. ~armed'
      BY <1>7, Zenon DEF PortLIntHandler
    <3> QED
      BY <1>7, <3>1, <3>2 DEF Readings, TypeOK, OneFallPerRise,
         PortLIntHandler
  <2> QED
    BY <1>0, <2>1, <2>2 DEF Readings
<1> QED
  BY <1>1, <1>2, <1>3, <1>4, <1>5, <1>6, <1>7
     DEF Next, ZXSensorTask, RGBSensorTask

LEMMA ReadingsInit == Init => Readings
BY TypeInit DEF Init, Readings, SamplePerInterrupt, NothingTakenYet,
   LabelOfZX, NoMsg, OneFallPerRise

\* Each interrupt leads to exactly one reading of the distance sensor.
THEOREM OneReadingPerInterrupt == Spec => []SamplePerInterrupt
<1>1. Readings => SamplePerInterrupt
  BY DEF Readings
<1> QED
  BY <1>1, ReadingsInit, ReadingsInductive, PTL DEF Spec

\* The readings are paced by the RGB task, which alone raises the line again.
THEOREM PacedByStatusReads == Spec => []ZXPacedByStatusReads
<1>1. Readings => ZXPacedByStatusReads
  BY DEF Readings, TypeOK, SamplePerInterrupt, NothingTakenYet, OneFallPerRise,
     ZXPacedByStatusReads
<1> QED
  BY <1>1, ReadingsInit, ReadingsInductive, PTL DEF Spec

-----------------------------------------------------------------------------
(* The stages a message passes, in this order, unless it is lost.          *)

Line == {"sbuf", "que", "rbuf", "COM", "ubuf", "wire"}

Rank == [p \in Line |-> CASE p = "sbuf" -> 0 [] p = "que"  -> 1
                          [] p = "rbuf" -> 2 [] p = "COM"  -> 3
                          [] p = "ubuf" -> 4 [] p = "wire" -> 5]

\* The messages at each stage, those of both sources together.
Sending(s)  == IF spc[s] = "send" THEN {sbuf[s]} ELSE {}
Relaying(s) == IF rpc[s] = "send" THEN {rbuf[s]} ELSE {}

Stage == [p \in Line \cup {"lost"} |->
    CASE p = "sbuf" -> Sending("ZX") \cup Sending("RGB")
      [] p = "que"  -> Elems(que["ZX"]) \cup Elems(que["RGB"])
      [] p = "rbuf" -> Relaying("ZX") \cup Relaying("RGB")
      [] p = "COM"  -> Elems(que["COM"])
      [] p = "ubuf" -> IF upc = "tx" THEN {ubuf} ELSE {}
      [] p = "wire" -> Elems(wire)
      [] p = "lost" -> lost]

\* A step moves one message from one stage to another.
Moved(m, p, q) ==
    /\ m \in Stage[p]
    /\ \A r \in Line \cup {"lost"} :
          Stage'[r] = IF r = p THEN Stage[p] \ {m}
                      ELSE IF r = q THEN Stage[q] \cup {m} ELSE Stage[r]

-----------------------------------------------------------------------------
(* The invariant.                                                          *)

\* The INIT message is the first: sent to the front, it enters an empty queue.
InitFirst ==
    \A s \in Sources :
        /\ spc[s] = "take" => seq[s] = 0
        /\ spc[s] = "send" /\ sbuf[s].label = "INIT" => seq[s] = 1

\* Up to COM_que each source has buffers and a queue of its own.
Owned ==
    \A s \in Sources :
        /\ \A m \in Sending(s) \cup Elems(que[s]) \cup Relaying(s) : m.src = s
        /\ spc[s] = "send" => sbuf[s].seq = seq[s]

Numbered ==
    \A p \in Line \cup {"lost"} : \A m \in Stage[p] : m.seq \in 1..seq[m.src]

\* Of two messages of one source, the one further down the line is the older;
\* from COM_que on this holds for the ZX sensor only.
SameLine(a, b, p) == a.src = b.src /\ (a.src = "ZX" \/ Rank[p] < 3)

InLine ==
    \A p, q \in Line : Rank[p] < Rank[q] =>
        \A a \in Stage[p], b \in Stage[q] :
            SameLine(a, b, p) => b.seq < a.seq

\* No message is at two stages, or twice at one.
Apart ==
    \A p, q \in Line \cup {"lost"} : \A a \in Stage[p], b \in Stage[q] :
        a.src = b.src /\ a.seq = b.seq => p = q /\ a = b

\* Every message built is at some stage.
Everywhere ==
    \A s \in Sources : \A n \in 1..seq[s] :
        \E p \in Line \cup {"lost"} : \E m \in Stage[p] :
            m.src = s /\ m.seq = n

Increasing(q) == \A i, j \in DOMAIN q : i < j => q[i].seq < q[j].seq

QuesIncreasing == \A s \in Sources : Increasing(que[s])

Flow == /\ TypeOK /\ InitFirst /\ Owned /\ Numbered /\ InLine /\ Apart
        /\ Everywhere /\ QuesIncreasing /\ ComQueShape /\ ZXInOrder

-----------------------------------------------------------------------------
(* What a move does to the invariant, wherever it happens.                 *)

LEMMA MovedStays ==
    ASSUME NEW m, NEW p \in Line \cup {"lost"}, NEW q \in Line \cup {"lost"},
           p # q, Moved(m, p, q), seq' = seq, Numbered, Apart, Everywhere
    PROVE  Numbered' /\ Apart' /\ Everywhere'
<1>0. /\ m \in Stage[p]
      /\ \A r \in Line \cup {"lost"} :
            Stage'[r] = IF r = p THEN Stage[p] \ {m}
                        ELSE IF r = q THEN Stage[q] \cup {m} ELSE Stage[r]
  BY DEF Moved
<1>1. Numbered'
  <2> SUFFICES ASSUME NEW r \in Line \cup {"lost"}, NEW o \in Stage'[r]
               PROVE  o.seq \in 1..seq[o.src]
    BY DEF Numbered
  <2>1. o \in Stage[r] \/ o \in Stage[p]
    BY <1>0
  <2> QED
    BY <2>1 DEF Numbered
<1>2. Apart'
  <2> SUFFICES ASSUME NEW u \in Line \cup {"lost"}, NEW v \in Line \cup {"lost"},
                      NEW a \in Stage'[u], NEW b \in Stage'[v],
                      a.src = b.src, a.seq = b.seq
               PROVE  u = v /\ a = b
    BY DEF Apart
  <2>1. PICK u0 \in Line \cup {"lost"} :
            a \in Stage[u0] /\ (a = m => u0 = p /\ u = q) /\ (a # m => u0 = u)
    BY <1>0 DEF Apart
  <2>2. PICK v0 \in Line \cup {"lost"} :
            b \in Stage[v0] /\ (b = m => v0 = p /\ v = q) /\ (b # m => v0 = v)
    BY <1>0 DEF Apart
  <2> QED
    BY <2>1, <2>2 DEF Apart
<1>3. Everywhere'
  <2> SUFFICES ASSUME NEW s \in Sources, NEW n \in 1..seq[s]
               PROVE  \E r \in Line \cup {"lost"} : \E o \in Stage'[r] :
                          o.src = s /\ o.seq = n
    BY DEF Everywhere
  <2>1. PICK r \in Line \cup {"lost"} : \E o \in Stage[r] : o.src = s /\ o.seq = n
    BY DEF Everywhere
  <2>2. PICK o \in Stage[r] : o.src = s /\ o.seq = n
    BY <2>1
  <2>3. CASE o = m
    BY <2>2, <2>3, <1>0
  <2>4. CASE o # m
    BY <2>2, <2>4, <1>0
  <2> QED
    BY <2>3, <2>4
<1> QED
  BY <1>1, <1>2, <1>3

\* The oldest message of a stage keeps the line in order when it moves on.
LEMMA MovedInLine ==
    ASSUME NEW m, NEW p \in Line, NEW q \in Line, Rank[q] = Rank[p] + 1,
           Moved(m, p, q), InLine, Apart,
           \A o \in Stage[p] : o # m /\ SameLine(o, m, p) => m.seq < o.seq
    PROVE  InLine'
<1> SUFFICES ASSUME NEW u \in Line, NEW v \in Line, Rank[u] < Rank[v],
                    NEW a \in Stage'[u], NEW b \in Stage'[v], SameLine(a, b, u)
             PROVE  b.seq < a.seq
  BY DEF InLine, SameLine
<1>0. Rank \in [Line -> Nat] /\ p # q
  BY DEF Rank, Line
<1>4. /\ m \in Stage[p]
      /\ \A r \in Line \cup {"lost"} :
            Stage'[r] = IF r = p THEN Stage[p] \ {m}
                        ELSE IF r = q THEN Stage[q] \cup {m} ELSE Stage[r]
  BY <1>0 DEF Moved
<1>1. CASE a = m
  <2>1. u = q
    BY <1>0, <1>1, <1>4 DEF Apart
  <2>2. v # p /\ v # q /\ Rank[p] < Rank[v]
    BY <1>0, <2>1
  <2>3. b \in Stage[v] /\ a \in Stage[p]
    BY <1>0, <1>1, <2>2, <1>4
  <2>4. SameLine(a, b, p)
    BY <1>0, <2>1 DEF SameLine
  <2> QED
    BY <2>2, <2>3, <2>4 DEF InLine
<1>2. CASE a # m /\ b = m
  <2>1. v = q
    BY <1>0, <1>2, <1>4 DEF Apart
  <2>2. a \in Stage[u] /\ b \in Stage[p]
    BY <1>0, <1>2, <2>1, <1>4
  <2>3. u = p \/ Rank[u] < Rank[p]
    <3>1. Rank[u] <= Rank[p]
      BY <1>0, <2>1
    <3>2. \A r \in Line : Rank[r] = Rank[p] => r = p
      BY DEF Rank, Line
    <3> QED
      BY <1>0, <3>1, <3>2
  <2> QED
    BY <1>2, <2>2, <2>3 DEF InLine
<1>3. CASE a # m /\ b # m
  BY <1>0, <1>3, <1>4 DEF InLine
<1> QED
  BY <1>1, <1>2, <1>3

\* Giving up a message leaves the line in order.
LEMMA LostInLine ==
    ASSUME NEW m, NEW p \in Line, Moved(m, p, "lost"), InLine
    PROVE  InLine'
<1>1. "lost" \notin Line
  BY DEF Line
<1>2. \A r \in Line : Stage'[r] \subseteq Stage[r]
  <2>1. \A r \in Line : Stage'[r] = IF r = p THEN Stage[p] \ {m} ELSE Stage[r]
    <3>1. p \in Line \cup {"lost"} /\ "lost" \in Line \cup {"lost"} /\ p # "lost"
      BY <1>1
    <3>2. \A r \in Line \cup {"lost"} :
             Stage'[r] = IF r = p THEN Stage[p] \ {m}
                         ELSE IF r = "lost" THEN Stage["lost"] \cup {m}
                         ELSE Stage[r]
      BY <3>1 DEF Moved
    <3> QED
      BY <1>1, <3>2
  <2> QED
    BY <2>1
<1> QED
  BY <1>2 DEF InLine, SameLine

\* A new message enters the line.
Built(s, m) ==
    /\ m.src = s
    /\ m.seq = seq[s] + 1
    /\ seq' = [seq EXCEPT ![s] = @ + 1]
    /\ \A r \in Line \cup {"lost"} :
          Stage'[r] = IF r = "sbuf" THEN Stage[r] \cup {m} ELSE Stage[r]

LEMMA BuiltStays ==
    ASSUME NEW s \in Sources, NEW m, Built(s, m), seq \in [Sources -> Nat],
           \A p \in Line \cup {"lost"} : \A o \in Stage[p] : o.src \in Sources,
           Numbered, Apart, Everywhere, InLine
    PROVE  Numbered' /\ Apart' /\ Everywhere' /\ InLine'
<1>0. "sbuf" \in Line /\ Rank["sbuf"] = 0 /\ Rank \in [Line -> Nat]
  BY DEF Line, Rank
<1>1. \A r \in Line \cup {"lost"} :
         Stage'[r] = IF r = "sbuf" THEN Stage[r] \cup {m} ELSE Stage[r]
  BY <1>0 DEF Built
<1>2. \A r \in Line \cup {"lost"} : \A o \in Stage[r] :
         /\ o.seq \in Nat
         /\ o.src = s => o.seq < m.seq
  BY DEF Built, Numbered
<1>3. Numbered'
  <2> SUFFICES ASSUME NEW r \in Line \cup {"lost"}, NEW o \in Stage'[r]
               PROVE  o.seq \in 1..seq'[o.src]
    BY DEF Numbered
  <2>1. CASE o \in Stage[r]
    BY <2>1 DEF Built, Numbered
  <2>2. CASE o = m
    BY <2>2 DEF Built
  <2> QED
    BY <1>1, <2>1, <2>2
<1>4. Apart'
  <2> SUFFICES ASSUME NEW u \in Line \cup {"lost"}, NEW v \in Line \cup {"lost"},
                      NEW a \in Stage'[u], NEW b \in Stage'[v],
                      a.src = b.src, a.seq = b.seq
               PROVE  u = v /\ a = b
    BY DEF Apart
  <2>1. a \in Stage[u] \/ (a = m /\ u = "sbuf")
    BY <1>1
  <2>2. b \in Stage[v] \/ (b = m /\ v = "sbuf")
    BY <1>1
  <2>3. m.src = s
    BY DEF Built
  <2> QED
    BY <1>2, <2>1, <2>2, <2>3 DEF Apart
<1>5. Everywhere'
  <2> SUFFICES ASSUME NEW t \in Sources, NEW n \in 1..seq'[t]
               PROVE  \E r \in Line \cup {"lost"} : \E o \in Stage'[r] :
                          o.src = t /\ o.seq = n
    BY DEF Everywhere
  <2>1. CASE n \in 1..seq[t]
    <3>1. PICK r \in Line \cup {"lost"} : \E o \in Stage[r] : o.src = t /\ o.seq = n
      BY <2>1 DEF Everywhere
    <3> QED
      BY <1>1, <3>1
  <2>2. CASE n \notin 1..seq[t]
    <3>1. t = s /\ n = m.seq
      BY <2>2 DEF Built
    <3>2. m \in Stage'["sbuf"]
      BY <1>0, <1>1
    <3> QED
      BY <1>0, <3>1, <3>2 DEF Built
  <2> QED
    BY <2>1, <2>2
<1>6. InLine'
  <2> SUFFICES ASSUME NEW u \in Line, NEW v \in Line, Rank[u] < Rank[v],
                      NEW a \in Stage'[u], NEW b \in Stage'[v], SameLine(a, b, u)
               PROVE  b.seq < a.seq
    BY DEF InLine, SameLine
  <2>1. v # "sbuf" /\ b \in Stage[v]
    <3>1. v # "sbuf"
      BY <1>0
    <3> QED
      BY <1>1, <3>1
  <2>2. CASE a \in Stage[u]
    BY <2>1, <2>2 DEF InLine
  <2>3. CASE a = m
    BY <1>2, <2>1, <2>3 DEF SameLine, Built
  <2> QED
    BY <1>1, <2>2, <2>3
<1> QED
  BY <1>3, <1>4, <1>5, <1>6

-----------------------------------------------------------------------------
(* The queues keep their order.                                            *)

LEMMA IncreasingTail ==
    ASSUME NEW q \in Seq(Msg), q # <<>>, Increasing(q)
    PROVE  /\ Increasing(Tail(q))
           /\ \A o \in Elems(Tail(q)) : Head(q).seq < o.seq
<1>1. /\ DOMAIN q = 1..Len(q) /\ Len(q) \in Nat /\ Len(q) >= 1
      /\ Head(q) = q[1] /\ DOMAIN Tail(q) = 1..(Len(q) - 1)
  OBVIOUS
<1>2. \A i \in 1..(Len(q) - 1) : i + 1 \in 1..Len(q) /\ Tail(q)[i] = q[i + 1]
  OBVIOUS
<1> QED
  BY <1>1, <1>2 DEF Increasing, Elems

LEMMA IncreasingAppend ==
    ASSUME NEW q \in Seq(Msg), NEW m \in Msg, Increasing(q),
           \A o \in Elems(q) : o.seq < m.seq
    PROVE  Increasing(Append(q, m))
<1>1. /\ DOMAIN q = 1..Len(q) /\ Len(q) \in Nat
      /\ DOMAIN Append(q, m) = 1..(Len(q) + 1)
      /\ Append(q, m)[Len(q) + 1] = m
  OBVIOUS
<1>2. \A i \in 1..Len(q) : Append(q, m)[i] = q[i]
  OBVIOUS
<1>3. \A i \in 1..Len(q) : q[i].seq < m.seq
  BY <1>1 DEF Elems
<1> QED
  BY <1>1, <1>2, <1>3 DEF Increasing

\* What ComQueShape says of two messages, the first before the second.
Shaped(a, b) ==
    /\ b.src = "RGB" => a.src = "RGB"
    /\ a.src = "RGB" /\ b.src = "RGB" => a.seq > b.seq
    /\ a.src = "ZX" /\ b.src = "ZX" => a.seq < b.seq

Shape(q) == \A i, j \in DOMAIN q : i < j => Shaped(q[i], q[j])

LEMMA ShapeIs == ComQueShape <=> Shape(que["COM"])
BY DEF ComQueShape, Shape, Shaped

LEMMA ShapeTail ==
    ASSUME NEW q \in Seq(Msg), q # <<>>, Shape(q)
    PROVE  Shape(Tail(q)) /\ \A o \in Elems(Tail(q)) : Shaped(Head(q), o)
<1>1. /\ DOMAIN q = 1..Len(q) /\ Len(q) \in Nat /\ Len(q) >= 1
      /\ Head(q) = q[1] /\ DOMAIN Tail(q) = 1..(Len(q) - 1)
  OBVIOUS
<1>2. \A i \in 1..(Len(q) - 1) : i + 1 \in 1..Len(q) /\ Tail(q)[i] = q[i + 1]
  OBVIOUS
<1> QED
  BY <1>1, <1>2 DEF Shape, Elems

LEMMA ShapeBack ==
    ASSUME NEW q \in Seq(Msg), NEW m \in Msg, Shape(q),
           \A o \in Elems(q) : Shaped(o, m)
    PROVE  Shape(Append(q, m))
<1>1. /\ DOMAIN q = 1..Len(q) /\ Len(q) \in Nat
      /\ DOMAIN Append(q, m) = 1..(Len(q) + 1)
      /\ Append(q, m)[Len(q) + 1] = m
  OBVIOUS
<1>2. \A i \in 1..Len(q) : Append(q, m)[i] = q[i]
  OBVIOUS
<1>3. \A i \in 1..Len(q) : Shaped(q[i], m)
  BY <1>1 DEF Elems
<1> QED
  BY <1>1, <1>2, <1>3 DEF Shape

LEMMA ShapeFront ==
    ASSUME NEW q \in Seq(Msg), NEW m \in Msg, Shape(q),
           \A o \in Elems(q) : Shaped(m, o)
    PROVE  Shape(<<m>> \o q)
<1>1. /\ DOMAIN q = 1..Len(q) /\ Len(q) \in Nat
      /\ DOMAIN (<<m>> \o q) = 1..(Len(q) + 1)
      /\ (<<m>> \o q)[1] = m
  OBVIOUS
<1>2. \A j \in 1..(Len(q) + 1) :
         j # 1 => j - 1 \in 1..Len(q) /\ (<<m>> \o q)[j] = q[j - 1]
  OBVIOUS
<1>3. \A i \in 1..Len(q) : Shaped(m, q[i])
  BY <1>1 DEF Elems
<1> QED
  BY <1>1, <1>2, <1>3 DEF Shape

-----------------------------------------------------------------------------
(* Which step moves which message.                                         *)

LEMMA Stages ==
    /\ Stage["sbuf"] = Sending("ZX") \cup Sending("RGB")
    /\ Stage["que"]  = Elems(que["ZX"]) \cup Elems(que["RGB"])
    /\ Stage["rbuf"] = Relaying("ZX") \cup Relaying("RGB")
    /\ Stage["COM"]  = Elems(que["COM"])
    /\ Stage["ubuf"] = IF upc = "tx" THEN {ubuf} ELSE {}
    /\ Stage["wire"] = Elems(wire)
    /\ Stage["lost"] = lost
BY DEF Stage, Line

LEMMA StagesNext ==
    /\ Stage'["sbuf"] = Sending("ZX")' \cup Sending("RGB")'
    /\ Stage'["que"]  = Elems(que'["ZX"]) \cup Elems(que'["RGB"])
    /\ Stage'["rbuf"] = Relaying("ZX")' \cup Relaying("RGB")'
    /\ Stage'["COM"]  = Elems(que'["COM"])
    /\ Stage'["ubuf"] = IF upc' = "tx" THEN {ubuf'} ELSE {}
    /\ Stage'["wire"] = Elems(wire')
    /\ Stage'["lost"] = lost'
BY DEF Stage, Line

LEMMA MovedIf ==
    ASSUME NEW m, NEW p \in Line \cup {"lost"}, NEW q \in Line \cup {"lost"},
           p # q, m \in Stage[p], Stage'[p] = Stage[p] \ {m},
           Stage'[q] = Stage[q] \cup {m},
           \A r \in (Line \cup {"lost"}) \ {p, q} : Stage'[r] = Stage[r]
    PROVE  Moved(m, p, q)
BY DEF Moved

\* A sensor task's send: from its buffer to its queue.
LEMMA SendMoves ==
    ASSUME Flow, NEW s \in Sources, SensorSend(s)
    PROVE  /\ Moved(sbuf[s], "sbuf", "que")
           /\ que' = [que EXCEPT ![s] = Append(@, sbuf[s])]
<1> USE DEF Flow
<1>1. que[s] \in Seq(Msg) /\ sbuf[s] \in Msg /\ spc[s] = "send"
  BY DEF TypeOK, SensorSend
<1>2. Sent(sbuf[s], que[s]) = Append(que[s], sbuf[s])
  <2>1. CASE sbuf[s].label = "INIT"
    <3>1. que[s] = <<>>
      <4> SUFFICES ASSUME que[s] # <<>> PROVE FALSE
        OBVIOUS
      <4>1. 1 \in DOMAIN que[s]
        BY <1>1
      <4>2. que[s][1] \in Stage["que"] /\ sbuf[s] \in Stage["sbuf"]
        BY <1>1, <4>1, Stages DEF Elems, Sending
      <4>3. que[s][1].src = s /\ sbuf[s].src = s
        BY <1>1, <4>1 DEF Owned, Elems, Sending
      <4>4. que[s][1].seq \in 1..seq[s] /\ sbuf[s].seq = 1 /\ seq[s] = 1
        BY <1>1, <2>1, <4>2, <4>3 DEF Numbered, Line, InitFirst, Owned
      <4>5. "sbuf" \in Line /\ "que" \in Line /\ que[s][1].seq = sbuf[s].seq
        BY <4>4 DEF Line
      <4> QED
        BY <4>2, <4>3, <4>5 DEF Apart
    <3>2. <<sbuf[s]>> \o <<>> = Append(<<>>, sbuf[s])
      BY <1>1
    <3> QED
      BY <3>1, <3>2 DEF Sent
  <2>2. CASE sbuf[s].label # "INIT"
    BY <2>2 DEF Sent
  <2> QED
    BY <2>1, <2>2
<1>3. que' = [que EXCEPT ![s] = Append(@, sbuf[s])]
  BY <1>1, <1>2 DEF SensorSend, TypeOK
<1>4. /\ Elems(que'[s]) = Elems(que[s]) \cup {sbuf[s]}
      /\ \A k \in Queues \ {s} : que'[k] = que[k]
  BY <1>1, <1>3, ElemsAppend DEF TypeOK
<1>5. /\ Sending(s)' = {}
      /\ \A u \in Sources \ {s} : Sending(u)' = Sending(u)
  BY DEF SensorSend, AfterSend, TypeOK, bufVars, Sending
<1>6. \A u \in Sources : Relaying(u)' = Relaying(u)
  BY DEF SensorSend, bufVars, Relaying
<1>7. Sending(s) = {sbuf[s]} /\ \A u \in Sources \ {s} : sbuf[s] \notin Sending(u)
  BY <1>1 DEF Owned, Sending
<1>8. UNCHANGED <<upc, ubuf, wire, lost>>
  BY DEF SensorSend, bufVars
<1>9. Moved(sbuf[s], "sbuf", "que")
  <2>1. sbuf[s] \in Stage["sbuf"] /\ Stage'["sbuf"] = Stage["sbuf"] \ {sbuf[s]}
    BY <1>5, <1>7, Stages, StagesNext
  <2>2. Stage'["que"] = Stage["que"] \cup {sbuf[s]}
    BY <1>4, Stages, StagesNext
  <2>3. \A r \in (Line \cup {"lost"}) \ {"sbuf", "que"} : Stage'[r] = Stage[r]
    BY <1>4, <1>6, <1>8, Stages, StagesNext DEF Line
  <2> QED
    BY <2>1, <2>2, <2>3, MovedIf DEF Line
<1> QED
  BY <1>3, <1>9

\* A sensor task's send that times out loses what is in its buffer.
LEMMA SensorGiveUpMoves ==
    ASSUME Flow, NEW s \in Sources, SensorGiveUp(s)
    PROVE  Moved(sbuf[s], "sbuf", "lost")
<1> USE DEF Flow
<1>1. spc[s] = "send"
  BY DEF SensorGiveUp
<1>2. /\ Sending(s)' = {}
      /\ \A u \in Sources \ {s} : Sending(u)' = Sending(u)
  BY DEF SensorGiveUp, AfterSend, TypeOK, bufVars, Sending
<1>3. \A u \in Sources : Relaying(u)' = Relaying(u)
  BY DEF SensorGiveUp, bufVars, Relaying
<1>4. Sending(s) = {sbuf[s]} /\ \A u \in Sources \ {s} : sbuf[s] \notin Sending(u)
  BY <1>1 DEF Owned, Sending
<1>5. UNCHANGED <<upc, que, ubuf, wire>> /\ lost' = lost \cup {sbuf[s]}
  BY DEF SensorGiveUp, bufVars
<1>6. sbuf[s] \in Stage["sbuf"] /\ Stage'["sbuf"] = Stage["sbuf"] \ {sbuf[s]}
  BY <1>2, <1>4, Stages, StagesNext
<1>7. Stage'["lost"] = Stage["lost"] \cup {sbuf[s]}
  BY <1>5, Stages, StagesNext
<1>8. \A r \in (Line \cup {"lost"}) \ {"sbuf", "lost"} : Stage'[r] = Stage[r]
  BY <1>3, <1>5, Stages, StagesNext DEF Line
<1> QED
  BY <1>6, <1>7, <1>8, MovedIf DEF Line

\* A COM task's receive: from its queue to its buffer.
LEMMA ReceiveMoves ==
    ASSUME Flow, NEW s \in Sources, RelayReceive(s)
    PROVE  /\ Moved(Head(que[s]), "que", "rbuf")
           /\ Head(que[s]) \in Elems(que[s])
           /\ \A o \in Stage["que"] :
                 o # Head(que[s]) /\ o.src = Head(que[s]).src
                     => Head(que[s]).seq < o.seq
<1> USE DEF Flow
<1> DEFINE m == Head(que[s])
<1>1. que[s] \in Seq(Msg) /\ que[s] # <<>> /\ rpc[s] = "recv"
  BY DEF TypeOK, RelayReceive
<1>2. Elems(que[s]) = Elems(Tail(que[s])) \cup {m} /\ m \in Msg
  BY <1>1, ElemsHead
<1>3. \A o \in Elems(Tail(que[s])) : m.seq < o.seq
  BY <1>1, IncreasingTail DEF QuesIncreasing
<1>4. m \notin Elems(Tail(que[s]))
  BY <1>2, <1>3 DEF Msg
<1>5. /\ que'[s] = Tail(que[s])
      /\ \A k \in Queues \ {s} : que'[k] = que[k]
  BY DEF RelayReceive, TypeOK
<1>6. \A u \in Sources : Sending(u)' = Sending(u)
  BY DEF RelayReceive, Sending
<1>7. /\ Relaying(s) = {} /\ Relaying(s)' = {m}
      /\ \A u \in Sources \ {s} : Relaying(u)' = Relaying(u)
  BY <1>1 DEF RelayReceive, TypeOK, Relaying
<1>8. m.src = s /\ \A u \in Sources \ {s} : \A o \in Elems(que[u]) : o.src # s
  BY <1>2 DEF Owned
<1>9. UNCHANGED <<upc, ubuf, wire, lost>>
  BY DEF RelayReceive
<1>10. Moved(m, "que", "rbuf")
  <2>1. m \in Stage["que"] /\ Stage'["que"] = Stage["que"] \ {m}
    <3>1. Elems(que'[s]) = Elems(que[s]) \ {m}
      BY <1>2, <1>4, <1>5
    <3>2. \A u \in Sources \ {s} : Elems(que'[u]) = Elems(que[u]) /\ m \notin Elems(que[u])
      BY <1>5, <1>8
    <3> QED
      BY <1>2, <3>1, <3>2, Stages, StagesNext
  <2>2. Stage'["rbuf"] = Stage["rbuf"] \cup {m}
    BY <1>7, Stages, StagesNext
  <2>3. \A r \in (Line \cup {"lost"}) \ {"que", "rbuf"} : Stage'[r] = Stage[r]
    BY <1>5, <1>6, <1>9, Stages, StagesNext DEF Line
  <2> HIDE DEF m
  <2> QED
    BY <2>1, <2>2, <2>3, MovedIf DEF Line
<1>11. ASSUME NEW o \in Stage["que"], o # m, o.src = m.src PROVE m.seq < o.seq
  BY <1>2, <1>3, <1>8, <1>11, Stages
<1> QED
  BY <1>2, <1>10, <1>11

\* A COM task's send: from its buffer to COM_que, at the back or at the front.
LEMMA ForwardMoves ==
    ASSUME Flow, NEW s \in Sources, RelayForward(s)
    PROVE  Moved(rbuf[s], "rbuf", "COM")
<1> USE DEF Flow
<1>1. que["COM"] \in Seq(Msg) /\ rbuf[s] \in Msg /\ rpc[s] = "send"
  BY DEF TypeOK, RelayForward
<1>2. /\ que'["COM"] = Forwarded(s, que["COM"], rbuf[s])
      /\ \A u \in Sources : que'[u] = que[u]
  BY DEF RelayForward, TypeOK
<1>3. Elems(que'["COM"]) = Elems(que["COM"]) \cup {rbuf[s]}
  BY <1>1, <1>2, ElemsAppend, ElemsPush DEF Forwarded
<1>4. /\ Relaying(s) = {rbuf[s]} /\ Relaying(s)' = {}
      /\ \A u \in Sources \ {s} : /\ Relaying(u)' = Relaying(u)
                                  /\ rbuf[s] \notin Relaying(u)
  BY <1>1 DEF RelayForward, TypeOK, bufVars, Relaying, Owned
<1>5. \A u \in Sources : Sending(u)' = Sending(u)
  BY DEF RelayForward, bufVars, Sending
<1>6. UNCHANGED <<upc, ubuf, wire, lost>>
  BY DEF RelayForward, bufVars
<1>7. rbuf[s] \in Stage["rbuf"] /\ Stage'["rbuf"] = Stage["rbuf"] \ {rbuf[s]}
  BY <1>4, Stages, StagesNext
<1>8. Stage'["COM"] = Stage["COM"] \cup {rbuf[s]}
  BY <1>3, Stages, StagesNext
<1>9. \A r \in (Line \cup {"lost"}) \ {"rbuf", "COM"} : Stage'[r] = Stage[r]
  BY <1>2, <1>5, <1>6, Stages, StagesNext DEF Line
<1> QED
  BY <1>7, <1>8, <1>9, MovedIf DEF Line

\* A COM task's send that times out loses what is in its buffer.
LEMMA RelayGiveUpMoves ==
    ASSUME Flow, NEW s \in Sources, RelayGiveUp(s)
    PROVE  Moved(rbuf[s], "rbuf", "lost")
<1> USE DEF Flow
<1>1. /\ Relaying(s) = {rbuf[s]} /\ Relaying(s)' = {}
      /\ \A u \in Sources \ {s} : /\ Relaying(u)' = Relaying(u)
                                  /\ rbuf[s] \notin Relaying(u)
  BY DEF RelayGiveUp, TypeOK, bufVars, Relaying, Owned
<1>2. \A u \in Sources : Sending(u)' = Sending(u)
  BY DEF RelayGiveUp, bufVars, Sending
<1>3. UNCHANGED <<upc, que, ubuf, wire>> /\ lost' = lost \cup {rbuf[s]}
  BY DEF RelayGiveUp, bufVars
<1>4. rbuf[s] \in Stage["rbuf"] /\ Stage'["rbuf"] = Stage["rbuf"] \ {rbuf[s]}
  BY <1>1, Stages, StagesNext
<1>5. Stage'["lost"] = Stage["lost"] \cup {rbuf[s]}
  BY <1>3, Stages, StagesNext
<1>6. \A r \in (Line \cup {"lost"}) \ {"rbuf", "lost"} : Stage'[r] = Stage[r]
  BY <1>2, <1>3, Stages, StagesNext DEF Line
<1> QED
  BY <1>4, <1>5, <1>6, MovedIf DEF Line

\* The UART task's receive: from COM_que to its buffer.
LEMMA UartReceiveMoves ==
    ASSUME Flow, UartReceive
    PROVE  /\ Moved(Head(que["COM"]), "COM", "ubuf")
           /\ \A o \in Stage["COM"] : o # Head(que["COM"]) => Shaped(Head(que["COM"]), o)
           /\ Shape(que'["COM"])
<1> USE DEF Flow
<1> DEFINE m == Head(que["COM"])
<1>1. que["COM"] \in Seq(Msg) /\ que["COM"] # <<>> /\ upc = "recv"
  BY DEF TypeOK, UartReceive
<1>2. Elems(que["COM"]) = Elems(Tail(que["COM"])) \cup {m} /\ m \in Msg
  BY <1>1, ElemsHead
<1>3. \A o \in Elems(Tail(que["COM"])) : Shaped(m, o)
  BY <1>1, ShapeIs, ShapeTail
<1>4. Shape(Tail(que["COM"]))
  BY <1>1, ShapeIs, ShapeTail
<1>5. m \notin Elems(Tail(que["COM"]))
  BY <1>2, <1>3 DEF Msg, Shaped
<1>6. /\ que'["COM"] = Tail(que["COM"])
      /\ \A u \in Sources : que'[u] = que[u]
  BY DEF UartReceive, TypeOK
<1>7. /\ \A u \in Sources : Sending(u)' = Sending(u) /\ Relaying(u)' = Relaying(u)
      /\ upc' = "tx" /\ ubuf' = m /\ UNCHANGED <<wire, lost>>
  BY DEF UartReceive, Sending, Relaying
<1>8. Moved(m, "COM", "ubuf")
  <2>1. m \in Stage["COM"] /\ Stage'["COM"] = Stage["COM"] \ {m}
    BY <1>2, <1>5, <1>6, Stages, StagesNext
  <2>2. Stage'["ubuf"] = Stage["ubuf"] \cup {m}
    BY <1>1, <1>7, Stages, StagesNext
  <2>3. \A r \in (Line \cup {"lost"}) \ {"COM", "ubuf"} : Stage'[r] = Stage[r]
    BY <1>6, <1>7, Stages, StagesNext DEF Line
  <2> HIDE DEF m
  <2> QED
    BY <2>1, <2>2, <2>3, MovedIf DEF Line
<1>9. \A o \in Stage["COM"] : o # m => Shaped(m, o)
  BY <1>2, <1>3, Stages
<1> QED
  BY <1>4, <1>6, <1>8, <1>9

\* The UART task's transmission: from its buffer to the wire.
LEMMA TransmitMoves ==
    ASSUME Flow, UartTransmit
    PROVE  Moved(ubuf, "ubuf", "wire")
<1> USE DEF Flow
<1>1. upc = "tx" /\ upc' # "tx" /\ wire' = Append(wire, ubuf)
  BY DEF UartTransmit
<1>2. Elems(wire') = Elems(wire) \cup {ubuf}
  BY <1>1, ElemsAppend DEF TypeOK
<1>3. /\ \A u \in Sources : Sending(u)' = Sending(u) /\ Relaying(u)' = Relaying(u)
      /\ UNCHANGED <<que, lost>>
  BY DEF UartTransmit, bufVars, Sending, Relaying
<1>4. ubuf \in Stage["ubuf"] /\ Stage'["ubuf"] = Stage["ubuf"] \ {ubuf}
  BY <1>1, Stages, StagesNext
<1>5. Stage'["wire"] = Stage["wire"] \cup {ubuf}
  BY <1>2, Stages, StagesNext
<1>6. \A r \in (Line \cup {"lost"}) \ {"ubuf", "wire"} : Stage'[r] = Stage[r]
  BY <1>3, Stages, StagesNext DEF Line
<1> QED
  BY <1>4, <1>5, <1>6, MovedIf DEF Line

\* A sensor task that is not sending builds its next message.
LEMMA BuildEnters ==
    ASSUME Flow, NEW s \in Sources, NEW label, NEW val, Build(s, label, val),
           spc[s] # "send", spc' = [spc EXCEPT ![s] = "send"],
           UNCHANGED <<upc, rpc, que, ubuf, rbuf, wire, lost>>
    PROVE  /\ Built(s, sbuf'[s])
           /\ sbuf'[s].label = label
           /\ \A u \in Sources \ {s} : sbuf'[u] = sbuf[u]
<1> USE DEF Flow
<1>1. /\ sbuf'[s] = [src |-> s, label |-> label, val |-> val, seq |-> seq[s] + 1]
      /\ \A u \in Sources \ {s} : sbuf'[u] = sbuf[u]
      /\ seq' = [seq EXCEPT ![s] = @ + 1]
  BY DEF Build, TypeOK
<1>2. /\ Sending(s) = {} /\ Sending(s)' = {sbuf'[s]}
      /\ \A u \in Sources \ {s} : Sending(u)' = Sending(u)
  BY <1>1 DEF Sending, TypeOK
<1>3. \A u \in Sources : Relaying(u)' = Relaying(u)
  BY DEF Relaying
<1>4. Stage'["sbuf"] = Stage["sbuf"] \cup {sbuf'[s]}
  BY <1>2, Stages, StagesNext
<1>5. \A r \in (Line \cup {"lost"}) \ {"sbuf"} : Stage'[r] = Stage[r]
  BY <1>3, Stages, StagesNext DEF Line
<1> QED
  BY <1>1, <1>4, <1>5 DEF Built

-----------------------------------------------------------------------------
(* The invariant is inductive.                                             *)

\* The stages of the line by number, as the step lemmas use them.
LEMMA Ranks ==
    /\ Rank["sbuf"] = 0 /\ Rank["que"] = 1 /\ Rank["rbuf"] = 2
    /\ Rank["COM"] = 3 /\ Rank["ubuf"] = 4 /\ Rank["wire"] = 5
    /\ "sbuf" \in Line /\ "que" \in Line /\ "rbuf" \in Line
    /\ "COM" \in Line /\ "ubuf" \in Line /\ "wire" \in Line
    /\ "lost" \notin Line
BY DEF Rank, Line

\* A step in which no message moves.
LEMMA FlowStill ==
    ASSUME Flow, TypeOK', UNCHANGED <<seq, sbuf, que, rbuf, ubuf, wire, lost>>,
           \A s \in Sources :
               /\ rpc'[s] = "send" <=> rpc[s] = "send"
               /\ spc'[s] = "send" <=> spc[s] = "send"
               /\ spc'[s] = "take" => spc[s] = "take",
           upc' = "tx" <=> upc = "tx"
    PROVE  Flow'
<1> USE DEF Flow
<1>1. \A s \in Sources : Sending(s)' = Sending(s) /\ Relaying(s)' = Relaying(s)
  BY DEF Sending, Relaying
<1>2. \A r \in Line \cup {"lost"} : Stage'[r] = Stage[r]
  BY <1>1, Stages, StagesNext DEF Line
<1>3. Numbered' /\ Apart' /\ Everywhere'
  BY <1>2 DEF Numbered, Apart, Everywhere
<1>4. InLine'
  BY <1>2 DEF InLine, SameLine
<1>5. InitFirst' /\ Owned'
  BY <1>1 DEF InitFirst, Owned
<1>6. QuesIncreasing' /\ ComQueShape' /\ ZXInOrder'
  BY DEF QuesIncreasing, ComQueShape, ZXInOrder
<1> QED
  BY <1>3, <1>4, <1>5, <1>6

LEMMA FlowSend ==
    ASSUME Flow, TypeOK', NEW s \in Sources, SensorSend(s)
    PROVE  Flow'
<1> USE DEF Flow
<1>1. Moved(sbuf[s], "sbuf", "que") /\ que' = [que EXCEPT ![s] = Append(@, sbuf[s])]
  BY SendMoves
<1>2. sbuf[s] \in Msg /\ que[s] \in Seq(Msg) /\ sbuf[s] \in Stage["sbuf"] /\ spc[s] = "send"
  BY <1>1 DEF TypeOK, Moved, SensorSend
<1>3. UNCHANGED <<upc, rpc, seq, sbuf, rbuf, ubuf, wire, lost>>
  BY DEF SensorSend, bufVars
<1>4. Numbered' /\ Apart' /\ Everywhere'
  BY <1>1, <1>3, MovedStays, Ranks
<1>5. InLine'
  <2>1. \A o \in Stage["sbuf"] : o # sbuf[s] => o.src # sbuf[s].src
    BY <1>2, Stages DEF Sending, Owned
  <2> QED
    BY <1>1, <2>1, Ranks, MovedInLine DEF SameLine
<1>6. InitFirst'
  BY <1>3 DEF InitFirst, SensorSend, AfterSend, TypeOK
<1>7. Owned'
  <2>1. \A u \in Sources : Elems(que'[u]) \subseteq
           Elems(que[u]) \cup (IF u = s THEN {sbuf[s]} ELSE {})
    BY SMTT(30), <1>1, <1>2, ElemsAppend DEF TypeOK
  <2>2. sbuf[s].src = s
    BY <1>2 DEF Owned, Sending
  <2>3. \A u \in Sources : Sending(u)' \subseteq Sending(u) /\ Relaying(u)' = Relaying(u)
    BY <1>3 DEF Sending, Relaying, SensorSend, AfterSend, TypeOK
  <2>4. \A u \in Sources : spc'[u] = "send" => spc[u] = "send"
    BY DEF SensorSend, TypeOK
  <2> QED
    BY <1>3, <2>1, <2>2, <2>3, <2>4 DEF Owned
<1>8. QuesIncreasing'
  <2>1. \A o \in Elems(que[s]) : o.seq < sbuf[s].seq
    <3> SUFFICES ASSUME NEW o \in Elems(que[s]) PROVE o.seq < sbuf[s].seq
      OBVIOUS
    <3>1. o \in Stage["que"] /\ o.src = s /\ sbuf[s].src = s
      BY <1>2, Stages DEF Owned, Sending
    <3> QED
      BY <1>2, <3>1, Ranks DEF InLine, SameLine
  <2>2. Increasing(que'[s])
    BY <1>1, <1>2, <2>1, IncreasingAppend DEF QuesIncreasing, TypeOK
  <2> QED
    BY <1>1, <2>2 DEF QuesIncreasing, TypeOK
<1>9. ComQueShape' /\ ZXInOrder'
  BY SMTT(30), <1>1, <1>3 DEF ComQueShape, ZXInOrder, TypeOK
<1> QED
  BY <1>4, <1>5, <1>6, <1>7, <1>8, <1>9

LEMMA FlowGiveUp ==
    ASSUME Flow, TypeOK', NEW s \in Sources, SensorGiveUp(s) \/ RelayGiveUp(s)
    PROVE  Flow'
<1> USE DEF Flow
<1>1. UNCHANGED <<upc, seq, sbuf, que, rbuf, ubuf, wire>>
  BY DEF SensorGiveUp, RelayGiveUp, bufVars
<1>2. PICK p \in Line : \E m : Moved(m, p, "lost")
  <2>1. CASE SensorGiveUp(s)
    <3>1. Moved(sbuf[s], "sbuf", "lost")
      BY <2>1, SensorGiveUpMoves
    <3> QED
      BY <3>1, Ranks
  <2>2. CASE RelayGiveUp(s)
    <3>1. Moved(rbuf[s], "rbuf", "lost")
      BY <2>2, RelayGiveUpMoves
    <3> QED
      BY <3>1, Ranks
  <2> QED
    BY <2>1, <2>2
<1>3. Numbered' /\ Apart' /\ Everywhere'
  BY <1>1, <1>2, MovedStays, Ranks
<1>4. InLine'
  BY <1>2, LostInLine
<1>5. \A u \in Sources :
         /\ spc'[u] = "take" => spc[u] = "take"
         /\ spc'[u] = "send" => spc[u] = "send"
         /\ rpc'[u] = "send" => rpc[u] = "send"
  BY DEF SensorGiveUp, RelayGiveUp, AfterSend, TypeOK
<1>6. InitFirst' /\ Owned'
  BY <1>1, <1>5 DEF InitFirst, Owned, Sending, Relaying
<1>7. QuesIncreasing' /\ ComQueShape' /\ ZXInOrder'
  BY <1>1 DEF QuesIncreasing, ComQueShape, ZXInOrder
<1> QED
  BY <1>3, <1>4, <1>6, <1>7

LEMMA FlowReceive ==
    ASSUME Flow, TypeOK', NEW s \in Sources, RelayReceive(s)
    PROVE  Flow'
<1> USE DEF Flow
<1>1. /\ Moved(Head(que[s]), "que", "rbuf")
      /\ Head(que[s]) \in Elems(que[s])
      /\ \A o \in Stage["que"] :
            o # Head(que[s]) /\ o.src = Head(que[s]).src => Head(que[s]).seq < o.seq
  BY ReceiveMoves
<1>2. UNCHANGED <<upc, spc, seq, sbuf, ubuf, wire, lost>>
  BY DEF RelayReceive
<1>3. /\ que[s] \in Seq(Msg) /\ que[s] # <<>> /\ que'[s] = Tail(que[s])
      /\ \A k \in Queues \ {s} : que'[k] = que[k]
  BY DEF RelayReceive, TypeOK
<1>4. Numbered' /\ Apart' /\ Everywhere'
  BY <1>1, <1>2, MovedStays, Ranks
<1>5. InLine'
  BY <1>1, Ranks, MovedInLine DEF SameLine
<1>6. InitFirst'
  BY <1>2 DEF InitFirst
<1>7. Owned'
  <2>1. \A u \in Sources : Elems(que'[u]) \subseteq Elems(que[u])
    BY <1>3, ElemsHead
  <2>2. \A u \in Sources : Sending(u)' = Sending(u)
    BY <1>2 DEF Sending
  <2>3. Relaying(s)' \subseteq {Head(que[s])}
        /\ \A u \in Sources \ {s} : Relaying(u)' = Relaying(u)
    BY DEF RelayReceive, Relaying, TypeOK
  <2> QED
    BY <1>1, <1>2, <2>1, <2>2, <2>3 DEF Owned
<1>8. QuesIncreasing'
  BY <1>3, IncreasingTail DEF QuesIncreasing
<1>9. ComQueShape' /\ ZXInOrder'
  BY <1>2, <1>3 DEF ComQueShape, ZXInOrder
<1> QED
  BY <1>4, <1>5, <1>6, <1>7, <1>8, <1>9

LEMMA FlowForward ==
    ASSUME Flow, TypeOK', NEW s \in Sources, RelayForward(s)
    PROVE  Flow'
<1> USE DEF Flow
<1> DEFINE m == rbuf[s]
<1>1. Moved(m, "rbuf", "COM")
  BY ForwardMoves
<1>2. UNCHANGED <<upc, spc, seq, sbuf, rbuf, ubuf, wire, lost>>
  BY DEF RelayForward, bufVars
<1>3. /\ que["COM"] \in Seq(Msg) /\ m \in Msg /\ m \in Stage["rbuf"]
      /\ que'["COM"] = Forwarded(s, que["COM"], m)
      /\ \A u \in Sources : que'[u] = que[u]
  BY <1>1 DEF RelayForward, TypeOK, Moved
<1>4. m.src = s
  BY DEF RelayForward, Relaying, Owned
<1>5. Numbered' /\ Apart' /\ Everywhere'
  BY <1>1, <1>2, MovedStays, Ranks
<1>6. InLine'
  <2>1. \A o \in Stage["rbuf"] : o # m => o.src # m.src
    BY <1>4, Stages DEF Relaying, Owned
  <2> QED
    BY <1>1, <2>1, Ranks, MovedInLine DEF SameLine
<1>7. InitFirst'
  BY <1>2 DEF InitFirst
<1>8. Owned'
  <2>1. \A u \in Sources : /\ Sending(u)' = Sending(u)
                           /\ Relaying(u)' \subseteq Relaying(u)
    BY <1>2 DEF Sending, Relaying, RelayForward, TypeOK
  <2> QED
    BY <1>2, <1>3, <2>1 DEF Owned
<1>9. QuesIncreasing'
  BY <1>3 DEF QuesIncreasing
<1>10. ComQueShape'
  <2>1. \A o \in Elems(que["COM"]) : o.src = s => o.seq < m.seq
    BY <1>3, <1>4, Stages, Ranks DEF InLine, SameLine
  <2>2. Elems(que["COM"]) \subseteq Msg
    BY <1>3, ElemsType
  <2>3. Shape(que["COM"])
    BY ShapeIs
  <2>4. CASE s = "RGB"
    <3>1. \A o \in Elems(que["COM"]) : Shaped(m, o)
      BY <1>3, <1>4, <2>1, <2>2, <2>4 DEF Shaped, Msg
    <3>2. Shape(que'["COM"])
      BY <1>3, <2>3, <2>4, <3>1, ShapeFront DEF Forwarded
    <3> QED
      BY <3>2 DEF ComQueShape, Shape, Shaped
  <2>5. CASE s = "ZX"
    <3>1. \A o \in Elems(que["COM"]) : Shaped(o, m)
      BY <1>3, <1>4, <2>1, <2>2, <2>5 DEF Shaped, Msg
    <3>2. Shape(que'["COM"])
      BY <1>3, <2>3, <2>5, <3>1, ShapeBack DEF Forwarded
    <3> QED
      BY <3>2 DEF ComQueShape, Shape, Shaped
  <2> QED
    BY <2>4, <2>5
<1>11. ZXInOrder'
  BY <1>2 DEF ZXInOrder
<1> QED
  BY <1>5, <1>6, <1>7, <1>8, <1>9, <1>10, <1>11

LEMMA FlowUart ==
    ASSUME Flow, TypeOK', UartReceive \/ UartTransmit
    PROVE  Flow'
<1> USE DEF Flow
<1>1. /\ UNCHANGED <<rpc, spc, seq, sbuf, rbuf, lost>>
      /\ \A u \in Sources : que'[u] = que[u]
  BY DEF UartReceive, UartTransmit, bufVars, TypeOK
<1>2. InitFirst' /\ Owned' /\ QuesIncreasing'
  BY <1>1 DEF InitFirst, Owned, Sending, Relaying, QuesIncreasing
<1>3. CASE UartReceive
  <2> DEFINE m == Head(que["COM"])
  <2>1. /\ Moved(m, "COM", "ubuf")
        /\ \A o \in Stage["COM"] : o # m => Shaped(m, o)
        /\ Shape(que'["COM"])
    BY <1>3, UartReceiveMoves
  <2>2. Numbered' /\ Apart' /\ Everywhere'
    BY <1>1, <2>1, MovedStays, Ranks
  <2>3. InLine'
    <3> HIDE DEF m
    <3>1. \A o \in Stage["COM"] : o # m /\ SameLine(o, m, "COM") => m.seq < o.seq
      BY <2>1, Ranks DEF SameLine, Shaped
    <3> QED
      BY <2>1, <3>1, Ranks, MovedInLine
  <2>4. ComQueShape'
    BY <2>1 DEF ComQueShape, Shape, Shaped
  <2>5. ZXInOrder'
    BY <1>3 DEF UartReceive, ZXInOrder
  <2> QED
    BY <1>2, <2>2, <2>3, <2>4, <2>5
<1>4. CASE UartTransmit
  <2>1. Moved(ubuf, "ubuf", "wire") /\ ubuf \in Stage["ubuf"]
    BY <1>4, TransmitMoves DEF Moved
  <2>2. Numbered' /\ Apart' /\ Everywhere'
    BY <1>1, <2>1, MovedStays, Ranks
  <2>3. InLine'
    <3>1. \A o \in Stage["ubuf"] :
             o # ubuf /\ SameLine(o, ubuf, "ubuf") => ubuf.seq < o.seq
      BY Stages
    <3>2. Rank["wire"] = Rank["ubuf"] + 1 /\ InLine /\ Apart
      BY Ranks
    <3> QED
      BY <2>1, <3>1, <3>2, Ranks, MovedInLine
  <2>4. ComQueShape'
    BY <1>4 DEF UartTransmit, ComQueShape
  <2>5. ZXInOrder'
    <3>1. wire \in Seq(Msg) /\ ubuf \in Msg /\ wire' = Append(wire, ubuf)
      BY <1>4 DEF TypeOK, UartTransmit
    <3>2. /\ DOMAIN wire = 1..Len(wire) /\ Len(wire) \in Nat
          /\ DOMAIN wire' = 1..(Len(wire) + 1) /\ wire'[Len(wire) + 1] = ubuf
      BY <3>1
    <3>3. \A i \in 1..Len(wire) : wire'[i] = wire[i]
      BY <3>1
    <3>4. \A o \in Elems(wire) : o.src = "ZX" /\ ubuf.src = "ZX" => o.seq < ubuf.seq
      BY <2>1, Stages, Ranks DEF InLine, SameLine
    <3>5. \A i \in 1..Len(wire) :
             wire[i].src = "ZX" /\ ubuf.src = "ZX" => wire[i].seq < ubuf.seq
      BY <3>2, <3>4 DEF Elems
    <3> QED
      BY <3>2, <3>3, <3>5 DEF ZXInOrder
  <2> QED
    BY <1>2, <2>2, <2>3, <2>4, <2>5
<1> QED
  BY <1>3, <1>4

\* A sensor task builds a message.
LEMMA FlowBuild ==
    ASSUME Flow, TypeOK', NEW s \in Sources, NEW label, NEW val,
           Build(s, label, val), spc[s] # "send",
           label = "INIT" => spc[s] = "take",
           spc' = [spc EXCEPT ![s] = "send"],
           UNCHANGED <<upc, rpc, que, ubuf, rbuf, wire, lost>>
    PROVE  Flow'
<1> USE DEF Flow
<1>1. /\ Built(s, sbuf'[s]) /\ sbuf'[s].label = label
      /\ \A u \in Sources \ {s} : sbuf'[u] = sbuf[u]
  BY BuildEnters
<1>2. \A p \in Line \cup {"lost"} : \A o \in Stage[p] : o.src \in Sources
  <2>1. \A k \in Queues : Elems(que[k]) \subseteq Msg
    BY ElemsType DEF TypeOK
  <2>2. Elems(wire) \subseteq Msg
    BY ElemsType DEF TypeOK
  <2>3. \A p \in Line \cup {"lost"} : Stage[p] \subseteq Msg
    BY <2>1, <2>2, Stages DEF Line, TypeOK, Sending, Relaying
  <2> QED
    BY <2>3 DEF Msg
<1>3. Numbered' /\ Apart' /\ Everywhere' /\ InLine'
  BY <1>1, <1>2, BuiltStays DEF TypeOK
<1>4. seq'[s] = seq[s] + 1 /\ \A u \in Sources \ {s} : seq'[u] = seq[u]
  BY <1>1 DEF Built, TypeOK
<1>5. InitFirst'
  BY <1>1, <1>4 DEF InitFirst, TypeOK
<1>6. Owned'
  <2>1. \A u \in Sources \ {s} : Sending(u)' = Sending(u)
    BY <1>1 DEF Sending, TypeOK
  <2>2. Sending(s)' = {sbuf'[s]} /\ sbuf'[s].src = s /\ sbuf'[s].seq = seq'[s]
    BY <1>1, <1>4 DEF Sending, TypeOK, Built
  <2>3. \A u \in Sources : Relaying(u)' = Relaying(u)
    BY DEF Relaying
  <2>4. \A u \in Sources \ {s} : spc'[u] = spc[u]
    BY DEF TypeOK
  <2> QED
    BY <1>1, <1>4, <2>1, <2>2, <2>3, <2>4 DEF Owned
<1>7. QuesIncreasing' /\ ComQueShape' /\ ZXInOrder'
  BY DEF QuesIncreasing, ComQueShape, ZXInOrder
<1> QED
  BY <1>3, <1>5, <1>6, <1>7

LEMMA FlowInit == Init => Flow
<1> SUFFICES ASSUME Init PROVE Flow
  OBVIOUS
<1>1. TypeOK
  BY TypeInit
<1>2. \A s \in Sources : Sending(s) = {} /\ Relaying(s) = {}
  BY DEF Init, Sending, Relaying
<1>3. \A r \in Line \cup {"lost"} : Stage[r] = {}
  BY <1>2, Stages, ElemsEmpty DEF Init, Line
<1>4. Numbered /\ InLine /\ Apart
  BY <1>3 DEF Numbered, InLine, Apart
<1>5. InitFirst /\ Everywhere
  BY DEF Init, InitFirst, Everywhere
<1>6. Owned
  BY <1>2, ElemsEmpty DEF Init, Owned
<1>7. QuesIncreasing /\ ComQueShape /\ ZXInOrder
  BY DEF Init, QuesIncreasing, Increasing, ComQueShape, ZXInOrder
<1> QED
  BY <1>1, <1>4, <1>5, <1>6, <1>7 DEF Flow

LEMMA FlowInductive == Handshake /\ Flow /\ [Next]_vars => Flow'
<1> SUFFICES ASSUME Handshake, Flow, [Next]_vars PROVE Flow'
  OBVIOUS
<1>0. TypeOK /\ TypeOK'
  BY TypeStep DEF Flow
<1>1. CASE UartCreate \/ UartSpawnZX \/ UartSpawnRGB \/ UartSettle
  <2>1. /\ UNCHANGED <<spc, seq, sbuf, que, rbuf, ubuf, wire, lost>>
        /\ upc # "tx" /\ upc' # "tx"
    BY <1>1 DEF UartCreate, UartSpawnZX, UartSpawnRGB, UartSpawn, UartSettle, bufVars
  <2>2. \A s \in Sources : rpc'[s] = "send" <=> rpc[s] = "send"
    BY <1>0, <1>1 DEF UartCreate, UartSpawnZX, UartSpawnRGB, UartSpawn, UartSettle, TypeOK,
       Handshake, SpawnedOnce
  <2> QED
    BY <1>0, <2>1, <2>2, FlowStill
<1>2. CASE UartReceive \/ UartTransmit
  BY <1>0, <1>2, FlowUart
<1>3. ASSUME NEW s \in Sources, RelayCreate(s) \/ RelayGive(s) PROVE Flow'
  BY <1>0, <1>3, FlowStill DEF RelayCreate, RelayGive, bufVars, TypeOK
<1>4. ASSUME NEW s \in Sources, RelayReceive(s) PROVE Flow'
  BY <1>0, <1>4, FlowReceive
<1>5. ASSUME NEW s \in Sources, RelayForward(s) PROVE Flow'
  BY <1>0, <1>5, FlowForward
<1>6. ASSUME NEW s \in Sources, RelayGiveUp(s) \/ SensorGiveUp(s) PROVE Flow'
  BY <1>0, <1>6, FlowGiveUp
<1>7. ASSUME NEW s \in Sources, SensorTake(s) PROVE Flow'
  BY <1>0, <1>7, FlowBuild DEF SensorTake
<1>8. ASSUME NEW s \in Sources, SensorSend(s) PROVE Flow'
  BY <1>0, <1>8, FlowSend
<1>9. ASSUME NEW available \in PositionStatus, ZXSample(available) PROVE Flow'
  BY <1>0, <1>9, FlowBuild DEF ZXSample
<1>10. CASE RGBSample
  BY <1>0, <1>10, FlowBuild DEF RGBSample, NextColour
<1>11. CASE ZXNotifyTake \/ RGBDelay \/ PortLIntHandler \/ UNCHANGED vars
  BY <1>0, <1>11, FlowStill
     DEF ZXNotifyTake, RGBDelay, PortLIntHandler, vars, taskVars, bufVars, TypeOK
<1> QED
  BY <1>1, <1>2, <1>3, <1>4, <1>5, <1>6, <1>7, <1>8, <1>9, <1>10, <1>11
     DEF Next, UartTask, RelayTask, ZXSensorTask, RGBSensorTask

LEMMA FlowHolds == Spec => []Flow
BY FlowInit, FlowInductive, HandshakeHolds, PTL DEF Spec

\* COM_que is always a block of RGB messages before a block of ZX messages,
\* and the distance readings leave UART6 in the order they were taken, for
\* every length of the queues and every interleaving.
THEOREM ReadingsInOrder == Spec => []OrderKept
<1>1. Flow => OrderKept
  BY DEF Flow, OrderKept
<1> QED
  BY <1>1, FlowHolds, PTL

-----------------------------------------------------------------------------
(* The account of all messages.                                            *)

LEMMA HeldIs ==
    ASSUME NEW holds \in BOOLEAN, NEW m \in Msg
    PROVE  /\ Held(holds, m) \in Seq(Msg)
           /\ Len(Held(holds, m)) = IF holds THEN 1 ELSE 0
           /\ Elems(Held(holds, m)) = IF holds THEN {m} ELSE {}
<1>1. CASE holds
  BY <1>1 DEF Held, Elems
<1>2. CASE ~holds
  BY <1>2, ElemsEmpty DEF Held
<1> QED
  BY <1>1, <1>2

LEMMA ConcatHolds ==
    ASSUME NEW p \in Seq(Msg), NEW q \in Seq(Msg)
    PROVE  /\ p \o q \in Seq(Msg)
           /\ Len(p \o q) = Len(p) + Len(q)
           /\ Elems(p \o q) = Elems(p) \cup Elems(q)
BY ElemsConcat

\* How many messages the tasks hold.
NSend(s)  == IF spc[s] = "send" THEN 1 ELSE 0
NRelay(s) == IF rpc[s] = "send" THEN 1 ELSE 0
NWrite    == IF upc = "tx" THEN 1 ELSE 0

\* What is inside the pipeline, as its stages and as a number.
LEMMA InsideHolds ==
    ASSUME TypeOK
    PROVE  /\ Inside \in Seq(Msg)
           /\ Elems(Inside) = Stage["sbuf"] \cup Stage["que"] \cup Stage["rbuf"]
                                 \cup Stage["COM"] \cup Stage["ubuf"]
           /\ Len(Inside) = NSend("ZX") + Len(que["ZX"])
                               + NRelay("ZX") + NSend("RGB")
                               + Len(que["RGB"]) + NRelay("RGB")
                               + Len(que["COM"]) + NWrite
<1> DEFINE h1 == Held(spc["ZX"] = "send", sbuf["ZX"])
           h3 == Held(rpc["ZX"] = "send", rbuf["ZX"])
           h4 == Held(spc["RGB"] = "send", sbuf["RGB"])
           h6 == Held(rpc["RGB"] = "send", rbuf["RGB"])
           h8 == Held(upc = "tx", ubuf)
<1> DEFINE a2 == h1 \o que["ZX"]
           a3 == a2 \o h3
           a4 == a3 \o h4
           a5 == a4 \o que["RGB"]
           a6 == a5 \o h6
           a7 == a6 \o que["COM"]
           a8 == a7 \o h8
<1>0. /\ \A k \in Queues : que[k] \in Seq(Msg) /\ Len(que[k]) \in Nat
      /\ \A s \in Sources : sbuf[s] \in Msg /\ rbuf[s] \in Msg
      /\ ubuf \in Msg
  BY DEF TypeOK
<1>1. /\ h1 \in Seq(Msg) /\ Elems(h1) = Sending("ZX")
      /\ Len(h1) = NSend("ZX")
      /\ h3 \in Seq(Msg) /\ Elems(h3) = Relaying("ZX")
      /\ Len(h3) = NRelay("ZX")
      /\ h4 \in Seq(Msg) /\ Elems(h4) = Sending("RGB")
      /\ Len(h4) = NSend("RGB")
      /\ h6 \in Seq(Msg) /\ Elems(h6) = Relaying("RGB")
      /\ Len(h6) = NRelay("RGB")
      /\ h8 \in Seq(Msg) /\ Elems(h8) = Stage["ubuf"]
      /\ Len(h8) = NWrite
  BY <1>0, HeldIs, Stages DEF NSend, NRelay, NWrite, Sending, Relaying
<1>9. Inside = a8
  BY DEF Inside
<1> HIDE DEF h1, h3, h4, h6, h8
<1>2. /\ a2 \in Seq(Msg) /\ Elems(a2) = Elems(h1) \cup Elems(que["ZX"])
      /\ Len(a2) = Len(h1) + Len(que["ZX"])
  BY <1>0, <1>1, ConcatHolds
<1>3. /\ a3 \in Seq(Msg) /\ Elems(a3) = Elems(a2) \cup Elems(h3)
      /\ Len(a3) = Len(a2) + Len(h3)
  <2> HIDE DEF a2
  <2> QED
    BY <1>0, <1>1, <1>2, ConcatHolds
<1>4. /\ a4 \in Seq(Msg) /\ Elems(a4) = Elems(a3) \cup Elems(h4)
      /\ Len(a4) = Len(a3) + Len(h4)
  <2> HIDE DEF a3
  <2> QED
    BY <1>0, <1>1, <1>3, ConcatHolds
<1>5. /\ a5 \in Seq(Msg) /\ Elems(a5) = Elems(a4) \cup Elems(que["RGB"])
      /\ Len(a5) = Len(a4) + Len(que["RGB"])
  <2> HIDE DEF a4
  <2> QED
    BY <1>0, <1>1, <1>4, ConcatHolds
<1>6. /\ a6 \in Seq(Msg) /\ Elems(a6) = Elems(a5) \cup Elems(h6)
      /\ Len(a6) = Len(a5) + Len(h6)
  <2> HIDE DEF a5
  <2> QED
    BY <1>0, <1>1, <1>5, ConcatHolds
<1>7. /\ a7 \in Seq(Msg) /\ Elems(a7) = Elems(a6) \cup Elems(que["COM"])
      /\ Len(a7) = Len(a6) + Len(que["COM"])
  <2> HIDE DEF a6
  <2> QED
    BY <1>0, <1>1, <1>6, ConcatHolds
<1>8. /\ a8 \in Seq(Msg) /\ Elems(a8) = Elems(a7) \cup Elems(h8)
      /\ Len(a8) = Len(a7) + Len(h8)
  <2> HIDE DEF a7
  <2> QED
    BY <1>0, <1>1, <1>7, ConcatHolds
<1> HIDE DEF a2, a3, a4, a5, a6, a7, a8
<1>10. Len(Inside) = NSend("ZX") + Len(que["ZX"])
                       + NRelay("ZX") + NSend("RGB")
                       + Len(que["RGB"]) + NRelay("RGB")
                       + Len(que["COM"]) + NWrite
  BY ZenonT(60), <1>0, <1>1, <1>2, <1>3, <1>4, <1>5, <1>6, <1>7, <1>8, <1>9 DEF NSend, NRelay, NWrite
<1>11. Elems(Inside) = Stage["sbuf"] \cup Stage["que"] \cup Stage["rbuf"]
                         \cup Stage["COM"] \cup Stage["ubuf"]
  BY <1>1, <1>2, <1>3, <1>4, <1>5, <1>6, <1>7, <1>8, <1>9, Stages
<1> QED
  BY <1>8, <1>9, <1>10, <1>11

\* How many messages there are on the way from each source to COM_que, and from
\* COM_que on.
Near == [s \in Sources |-> NSend(s) + Len(que[s]) + NRelay(s)]
Far  == Len(que["COM"]) + NWrite + Len(wire) + Cardinality(lost)

Counted ==
    /\ IsFiniteSet(lost)
    /\ Near["ZX"] + Near["RGB"] + Far = seq["ZX"] + seq["RGB"]

LEMMA SumOfFour ==
    ASSUME NEW a \in Nat, NEW b \in Nat, NEW c \in Nat, NEW d \in Nat
    PROVE  /\ a + b + c + d \in Nat
           /\ a + b + c + (d + 1) = a + b + c + d + 1
OBVIOUS

LEMMA Sizes ==
    ASSUME TypeOK, IsFiniteSet(lost)
    PROVE  /\ \A k \in Queues : Len(que[k]) \in Nat
           /\ Len(wire) \in Nat /\ Cardinality(lost) \in Nat
           /\ NWrite \in {0, 1}
           /\ \A s \in Sources : /\ seq[s] \in Nat
                                /\ NSend(s) \in {0, 1} /\ NRelay(s) \in {0, 1}
           /\ Near \in [Sources -> Nat] /\ Far \in Nat
<1>1. /\ \A k \in Queues : Len(que[k]) \in Nat
      /\ Len(wire) \in Nat /\ Cardinality(lost) \in Nat
      /\ \A s \in Sources : seq[s] \in Nat
  BY FS_CardinalityType DEF TypeOK
<1>2. NWrite \in Nat /\ \A s \in Sources : NSend(s) \in Nat /\ NRelay(s) \in Nat
  BY DEF NSend, NRelay, NWrite
<1>3. Near \in [Sources -> Nat]
  <2>1. ASSUME NEW s \in Sources PROVE NSend(s) + Len(que[s]) + NRelay(s) \in Nat
    BY SMTT(30), <1>1, <1>2
  <2> QED
    BY <2>1 DEF Near
<1>4. Far \in Nat
  <2>1. Len(que["COM"]) \in Nat
    BY <1>1
  <2> QED
    BY <1>1, <1>2, <2>1, SumOfFour DEF Far
<1> QED
  BY <1>1, <1>3, <1>4 DEF NSend, NRelay, NWrite

LEMMA SizesNext ==
    ASSUME TypeOK', IsFiniteSet(lost')
    PROVE  Near' \in [Sources -> Nat] /\ Far' \in Nat
<1>1. /\ \A k \in Queues : Len(que'[k]) \in Nat
      /\ Len(wire') \in Nat /\ Cardinality(lost') \in Nat
  BY FS_CardinalityType DEF TypeOK
<1>2. NWrite' \in Nat /\ \A s \in Sources : NSend(s)' \in Nat /\ NRelay(s)' \in Nat
  BY DEF NSend, NRelay, NWrite
<1>3. Near' \in [Sources -> Nat]
  <2>1. ASSUME NEW s \in Sources PROVE NSend(s)' + Len(que'[s]) + NRelay(s)' \in Nat
    BY SMTT(30), <1>1, <1>2
  <2> QED
    BY <2>1 DEF Near
<1>4. Far' \in Nat
  <2>1. Len(que'["COM"]) \in Nat
    BY <1>1
  <2> QED
    BY <1>1, <1>2, <2>1, SumOfFour DEF Far
<1> QED
  BY <1>3, <1>4

\* A message given up has not been given up before.
LEMMA LostOnce ==
    ASSUME IsFiniteSet(lost), NEW m, m \notin lost, lost' = lost \cup {m}
    PROVE  IsFiniteSet(lost') /\ Cardinality(lost') = Cardinality(lost) + 1
BY FS_AddElement

\* The sum over the two sources, when one of them changes.
LEMMA OneChanges ==
    ASSUME NEW f \in [Sources -> Nat], NEW g \in [Sources -> Nat],
           NEW s \in Sources, \A u \in Sources \ {s} : g[u] = f[u]
    PROVE  g["ZX"] + g["RGB"] + f[s] = f["ZX"] + f["RGB"] + g[s]
<1>1. CASE s = "ZX"
  BY <1>1
<1>2. CASE s = "RGB"
  BY <1>2
<1> QED
  BY <1>1, <1>2

\* Nothing that is counted changes.
LEMMA StillCounted ==
    ASSUME Counted, UNCHANGED <<que, wire, lost, seq>>, NWrite' = NWrite,
           \A u \in Sources : NSend(u)' = NSend(u) /\ NRelay(u)' = NRelay(u)
    PROVE  Counted'
<1>1. Near' = Near /\ Far' = Far
  BY DEF Near, Far
<1> QED
  BY <1>1 DEF Counted

\* A message goes from one side of the count to the other, or stays on its side.
LEMMA PassedOn ==
    ASSUME TypeOK, TypeOK', Counted, IsFiniteSet(lost'), UNCHANGED seq,
           NEW s \in Sources,
           \A u \in Sources \ {s} : Near'[u] = Near[u],
           \/ Near'[s] = Near[s] /\ Far' = Far
           \/ Near[s] = Near'[s] + 1 /\ Far' = Far + 1
    PROVE  Counted'
<1>1. /\ Near \in [Sources -> Nat] /\ Far \in Nat
      /\ Near' \in [Sources -> Nat] /\ Far' \in Nat
  BY Sizes, SizesNext DEF Counted, Near, Far
<1>2. Near'["ZX"] + Near'["RGB"] + Near[s] = Near["ZX"] + Near["RGB"] + Near'[s]
  BY <1>1, OneChanges
<1>3. Near'["ZX"] + Near'["RGB"] + Far' = Near["ZX"] + Near["RGB"] + Far
  BY <1>1, <1>2
<1> QED
  BY <1>3 DEF Counted

\* A sensor task builds a message.
LEMMA BuiltIsCounted ==
    ASSUME TypeOK, TypeOK', Counted, UNCHANGED lost, NEW s \in Sources,
           \A u \in Sources \ {s} : Near'[u] = Near[u] /\ seq'[u] = seq[u],
           Near'[s] = Near[s] + 1, seq'[s] = seq[s] + 1, Far' = Far
    PROVE  Counted'
<1>1. /\ Near \in [Sources -> Nat] /\ Far \in Nat
      /\ Near' \in [Sources -> Nat] /\ Far' \in Nat
      /\ seq \in [Sources -> Nat] /\ seq' \in [Sources -> Nat]
  BY Sizes, SizesNext DEF Counted, Near, Far, TypeOK
<1>2. Near'["ZX"] + Near'["RGB"] + Near[s] = Near["ZX"] + Near["RGB"] + Near'[s]
  BY <1>1, OneChanges
<1>3. seq'["ZX"] + seq'["RGB"] + seq[s] = seq["ZX"] + seq["RGB"] + seq'[s]
  BY <1>1, OneChanges
<1>4. Near'["ZX"] + Near'["RGB"] + Far' = seq'["ZX"] + seq'["RGB"]
  BY <1>1, <1>2, <1>3 DEF Counted
<1> QED
  BY <1>4 DEF Counted

LEMMA CountedStep == Handshake /\ Flow /\ Counted /\ [Next]_vars => Counted'
<1> SUFFICES ASSUME Handshake, Flow, Counted, [Next]_vars PROVE Counted'
  OBVIOUS
<1>0. /\ TypeOK /\ TypeOK' /\ IsFiniteSet(lost)
      /\ \A k \in Queues : Len(que[k]) \in Nat
      /\ Len(wire) \in Nat /\ Cardinality(lost) \in Nat
      /\ NWrite \in {0, 1}
      /\ \A s \in Sources : /\ seq[s] \in Nat
                           /\ NSend(s) \in {0, 1} /\ NRelay(s) \in {0, 1}
  BY TypeStep, Sizes DEF Flow, Counted
<1>1. CASE UartCreate \/ UartSpawnZX \/ UartSpawnRGB \/ UartSettle
  <2>1. /\ UNCHANGED <<que, wire, lost, seq>> /\ NWrite' = NWrite
        /\ \A u \in Sources : NSend(u)' = NSend(u) /\ NRelay(u)' = NRelay(u)
    BY <1>0, <1>1 DEF UartCreate, UartSpawnZX, UartSpawnRGB, UartSpawn, UartSettle,
       bufVars, TypeOK, Handshake, SpawnedOnce, NSend, NRelay, NWrite
  <2> QED
    BY <2>1, StillCounted
<1>2. CASE UartReceive
  <2>1. /\ Len(que'["COM"]) = Len(que["COM"]) - 1 /\ Len(que["COM"]) > 0
        /\ \A s \in Sources : que'[s] = que[s]
    BY <1>0, <1>2 DEF UartReceive, TypeOK
  <2>2. /\ NWrite = 0 /\ NWrite' = 1 /\ UNCHANGED <<seq, wire, lost>>
        /\ \A u \in Sources : NSend(u)' = NSend(u) /\ NRelay(u)' = NRelay(u)
    BY <1>2 DEF UartReceive, NSend, NRelay, NWrite
  <2>3. Near' = Near
    BY <2>1, <2>2 DEF Near
  <2>4. Far' = Far
    BY <1>0, <2>1, <2>2 DEF Far
  <2> QED
    BY <2>2, <2>3, <2>4 DEF Counted
<1>3. CASE UartTransmit
  <2>1. Len(wire') = Len(wire) + 1 /\ NWrite = 1 /\ NWrite' = 0
    BY <1>0, <1>3 DEF UartTransmit, TypeOK, NWrite
  <2>2. /\ UNCHANGED <<seq, que, lost>>
        /\ \A u \in Sources : NSend(u)' = NSend(u) /\ NRelay(u)' = NRelay(u)
    BY <1>3 DEF UartTransmit, bufVars, NSend, NRelay
  <2>3. Near' = Near
    BY <2>2 DEF Near
  <2>4. Far' = Far
    <3>1. Len(que["COM"]) \in Nat /\ que'["COM"] = que["COM"]
      BY <1>0, <2>2
    <3> DEFINE a == Len(que["COM"])
               b == Cardinality(lost)
               w == Len(wire)
    <3>2. /\ a \in Nat /\ b \in Nat /\ w \in Nat
          /\ Far = a + 1 + w + b /\ Far' = a + 0 + (w + 1) + b
      BY <1>0, <2>1, <2>2, <3>1 DEF Far
    <3> HIDE DEF a, b, w
    <3> QED
      BY <3>2
  <2> QED
    BY <2>2, <2>3, <2>4 DEF Counted
<1>4. ASSUME NEW s \in Sources, RelayCreate(s) \/ RelayGive(s) PROVE Counted'
  <2>1. /\ UNCHANGED <<que, wire, lost, seq>> /\ NWrite' = NWrite
        /\ \A u \in Sources : NSend(u)' = NSend(u) /\ NRelay(u)' = NRelay(u)
    BY <1>0, <1>4 DEF RelayCreate, RelayGive, bufVars, TypeOK, NSend, NRelay, NWrite
  <2> QED
    BY <2>1, StillCounted
<1>5. ASSUME NEW s \in Sources, RelayReceive(s) PROVE Counted'
  <2>1. /\ Len(que'[s]) = Len(que[s]) - 1 /\ Len(que[s]) > 0
        /\ \A k \in Queues \ {s} : que'[k] = que[k]
    BY <1>0, <1>5 DEF RelayReceive, TypeOK
  <2>2. /\ NRelay(s) = 0 /\ NRelay(s)' = 1
        /\ \A u \in Sources \ {s} : NRelay(u)' = NRelay(u)
    BY <1>0, <1>5 DEF RelayReceive, NRelay, TypeOK
  <2>3. /\ UNCHANGED <<seq, wire, lost>> /\ NWrite' = NWrite
        /\ \A u \in Sources : NSend(u)' = NSend(u)
    BY <1>5 DEF RelayReceive, NSend, NWrite
  <2>4. \A u \in Sources : Near'[u] = Near[u]
    BY <1>0, <2>1, <2>2, <2>3 DEF Near
  <2>5. Far' = Far
    BY <2>1, <2>3 DEF Far
  <2> QED
    BY <1>0, <2>3, <2>4, <2>5, PassedOn
<1>6. ASSUME NEW s \in Sources, RelayForward(s) PROVE Counted'
  <2>1. /\ Len(que'["COM"]) = Len(que["COM"]) + 1
        /\ \A u \in Sources : que'[u] = que[u]
    BY <1>0, <1>6, SendToBackType, SendToFrontType DEF RelayForward, Forwarded, TypeOK
  <2>2. /\ NRelay(s) = 1 /\ NRelay(s)' = 0
        /\ \A u \in Sources \ {s} : NRelay(u)' = NRelay(u)
    BY <1>0, <1>6 DEF RelayForward, NRelay, TypeOK
  <2>3. /\ UNCHANGED <<seq, wire, lost>> /\ NWrite' = NWrite
        /\ \A u \in Sources : NSend(u)' = NSend(u)
    BY <1>6 DEF RelayForward, bufVars, NSend, NWrite
  <2>4. /\ \A u \in Sources \ {s} : Near'[u] = Near[u]
        /\ Near[s] = Near'[s] + 1
    BY <1>0, <2>1, <2>2, <2>3 DEF Near
  <2>5. Far' = Far + 1
    BY <1>0, <2>1, <2>3 DEF Far
  <2> QED
    BY <1>0, <2>3, <2>4, <2>5, PassedOn
<1>7. ASSUME NEW s \in Sources, RelayGiveUp(s) PROVE Counted'
  <2>1. rbuf[s] \notin lost
    BY <1>7, RelayGiveUpMoves, Ranks, Stages DEF Flow, Apart, Moved
  <2>2. IsFiniteSet(lost') /\ Cardinality(lost') = Cardinality(lost) + 1
    BY <1>0, <1>7, <2>1, LostOnce DEF RelayGiveUp
  <2>3. /\ NRelay(s) = 1 /\ NRelay(s)' = 0
        /\ \A u \in Sources \ {s} : NRelay(u)' = NRelay(u)
    BY <1>0, <1>7 DEF RelayGiveUp, NRelay, TypeOK
  <2>4. /\ UNCHANGED <<seq, que, wire>> /\ NWrite' = NWrite
        /\ \A u \in Sources : NSend(u)' = NSend(u)
    BY <1>7 DEF RelayGiveUp, bufVars, NSend, NWrite
  <2>5. /\ \A u \in Sources \ {s} : Near'[u] = Near[u]
        /\ Near[s] = Near'[s] + 1
    BY <1>0, <2>3, <2>4 DEF Near
  <2>6. Far' = Far + 1
    <3>1. Len(que["COM"]) \in Nat /\ que'["COM"] = que["COM"]
      BY <1>0, <2>4
    <3>2. /\ Far' = Len(que["COM"]) + NWrite + Len(wire) + (Cardinality(lost) + 1)
          /\ Far = Len(que["COM"]) + NWrite + Len(wire) + Cardinality(lost)
          /\ NWrite \in Nat
      BY <1>0, <2>2, <2>4, <3>1 DEF Far
    <3> QED
      BY SMTT(30), <1>0, <3>1, <3>2, SumOfFour
  <2> QED
    BY <1>0, <2>2, <2>4, <2>5, <2>6, PassedOn
<1>8. ASSUME NEW s \in Sources, NEW label, NEW val, Build(s, label, val),
             spc[s] # "send", spc' = [spc EXCEPT ![s] = "send"],
             UNCHANGED <<upc, rpc, que, wire, lost>>
      PROVE  Counted'
  <2>1. seq'[s] = seq[s] + 1 /\ \A u \in Sources \ {s} : seq'[u] = seq[u]
    BY <1>0, <1>8 DEF Build, TypeOK
  <2>2. /\ NSend(s) = 0 /\ NSend(s)' = 1
        /\ \A u \in Sources \ {s} : NSend(u)' = NSend(u)
    BY <1>0, <1>8 DEF NSend, TypeOK
  <2>3. NWrite' = NWrite /\ \A u \in Sources : NRelay(u)' = NRelay(u)
    BY <1>8 DEF NRelay, NWrite
  <2>4. /\ \A u \in Sources \ {s} : Near'[u] = Near[u]
        /\ Near'[s] = Near[s] + 1
    BY <1>0, <1>8, <2>2, <2>3 DEF Near
  <2>5. Far' = Far
    BY <1>8, <2>3 DEF Far
  <2> QED
    BY <1>0, <1>8, <2>1, <2>4, <2>5, BuiltIsCounted
<1>9. ASSUME NEW s \in Sources, SensorTake(s) PROVE Counted'
  BY <1>8, <1>9 DEF SensorTake
<1>10. ASSUME NEW s \in Sources, SensorSend(s) PROVE Counted'
  <2>1. /\ Len(que'[s]) = Len(que[s]) + 1
        /\ \A k \in Queues \ {s} : que'[k] = que[k]
    <3>1. que' = [que EXCEPT ![s] = Append(@, sbuf[s])]
      BY <1>10, SendMoves
    <3>2. que[s] \in Seq(Msg) /\ sbuf[s] \in Msg
      BY <1>0 DEF TypeOK
    <3> QED
      BY <1>0, <3>1, <3>2, SendToBackType DEF TypeOK
  <2>2. /\ NSend(s) = 1 /\ NSend(s)' = 0
        /\ \A u \in Sources \ {s} : NSend(u)' = NSend(u)
    BY <1>0, <1>10 DEF SensorSend, AfterSend, NSend, TypeOK
  <2>3. /\ UNCHANGED <<seq, wire, lost>> /\ NWrite' = NWrite
        /\ \A u \in Sources : NRelay(u)' = NRelay(u)
    BY <1>10 DEF SensorSend, bufVars, NRelay, NWrite
  <2>4. \A u \in Sources : Near'[u] = Near[u]
    BY <1>0, <2>1, <2>2, <2>3 DEF Near
  <2>5. Far' = Far
    BY <2>1, <2>3 DEF Far
  <2> QED
    BY <1>0, <2>3, <2>4, <2>5, PassedOn
<1>11. ASSUME NEW s \in Sources, SensorGiveUp(s) PROVE Counted'
  <2>1. sbuf[s] \notin lost
    BY <1>11, SensorGiveUpMoves, Ranks, Stages DEF Flow, Apart, Moved
  <2>2. IsFiniteSet(lost') /\ Cardinality(lost') = Cardinality(lost) + 1
    BY <1>0, <1>11, <2>1, LostOnce DEF SensorGiveUp
  <2>3. /\ NSend(s) = 1 /\ NSend(s)' = 0
        /\ \A u \in Sources \ {s} : NSend(u)' = NSend(u)
    BY <1>0, <1>11 DEF SensorGiveUp, AfterSend, NSend, TypeOK
  <2>4. /\ UNCHANGED <<seq, que, wire>> /\ NWrite' = NWrite
        /\ \A u \in Sources : NRelay(u)' = NRelay(u)
    BY <1>11 DEF SensorGiveUp, bufVars, NRelay, NWrite
  <2>5. /\ \A u \in Sources \ {s} : Near'[u] = Near[u]
        /\ Near[s] = Near'[s] + 1
    BY <1>0, <2>3, <2>4 DEF Near
  <2>6. Far' = Far + 1
    <3>1. Len(que["COM"]) \in Nat /\ que'["COM"] = que["COM"]
      BY <1>0, <2>4
    <3>2. /\ Far' = Len(que["COM"]) + NWrite + Len(wire) + (Cardinality(lost) + 1)
          /\ Far = Len(que["COM"]) + NWrite + Len(wire) + Cardinality(lost)
          /\ NWrite \in Nat
      BY <1>0, <2>2, <2>4, <3>1 DEF Far
    <3> QED
      BY SMTT(30), <1>0, <3>1, <3>2, SumOfFour
  <2> QED
    BY <1>0, <2>2, <2>4, <2>5, <2>6, PassedOn
<1>12. ASSUME NEW available \in PositionStatus, ZXSample(available) PROVE Counted'
  BY <1>8, <1>12 DEF ZXSample
<1>13. CASE RGBSample
  BY <1>8, <1>13 DEF RGBSample
<1>14. CASE ZXNotifyTake \/ RGBDelay \/ PortLIntHandler \/ UNCHANGED vars
  <2>1. /\ UNCHANGED <<que, wire, lost, seq>> /\ NWrite' = NWrite
        /\ \A u \in Sources : NSend(u)' = NSend(u) /\ NRelay(u)' = NRelay(u)
    BY <1>0, <1>14 DEF ZXNotifyTake, RGBDelay, PortLIntHandler, vars, taskVars, bufVars,
       TypeOK, NSend, NRelay, NWrite
  <2> QED
    BY <2>1, StillCounted
<1> QED
  BY <1>1, <1>2, <1>3, <1>4, <1>5, <1>6, <1>7, <1>9, <1>10, <1>11, <1>12, <1>13, <1>14
     DEF Next, UartTask, RelayTask, ZXSensorTask, RGBSensorTask

LEMMA CountedInit == Init => Counted
BY FS_EmptySet DEF Init, Counted, Near, Far, NSend, NRelay, NWrite

LEMMA AccountedIs == Flow /\ Counted => Accounted
<1> SUFFICES ASSUME Flow, Counted PROVE Accounted
  OBVIOUS
<1> DEFINE all == Inside \o wire
<1>1. /\ TypeOK /\ wire \in Seq(Msg) /\ Inside \in Seq(Msg)
      /\ Elems(all) = Elems(Inside) \cup Elems(wire)
      /\ Len(all) = Len(Inside) + Len(wire)
  BY InsideHolds, ConcatHolds DEF Flow, TypeOK
<1>2. Len(all) + Cardinality(lost) = seq["ZX"] + seq["RGB"]
  <2>1. /\ \A k \in Queues : Len(que[k]) \in Nat
        /\ Len(wire) \in Nat /\ Cardinality(lost) \in Nat /\ NWrite \in {0, 1}
        /\ \A s \in Sources : NSend(s) \in {0, 1} /\ NRelay(s) \in {0, 1}
    BY <1>1, Sizes DEF Counted
  <2>2. Len(Inside) = NSend("ZX") + Len(que["ZX"]) + NRelay("ZX") + NSend("RGB")
                        + Len(que["RGB"]) + NRelay("RGB") + Len(que["COM"]) + NWrite
    BY <1>1, InsideHolds
  <2>3. Near["ZX"] = NSend("ZX") + Len(que["ZX"]) + NRelay("ZX")
    BY DEF Near
  <2>4. Near["RGB"] = NSend("RGB") + Len(que["RGB"]) + NRelay("RGB")
    BY DEF Near
  <2>5. Near["ZX"] \in Nat /\ Near["RGB"] \in Nat /\ Far \in Nat
    BY <1>1, Sizes DEF Counted
  <2>6. Len(Inside) = Near["ZX"] + Near["RGB"] + Len(que["COM"]) + NWrite
    <3> DEFINE a == NSend("ZX")     b == Len(que["ZX"])   c == NRelay("ZX")
               d == NSend("RGB")    e == Len(que["RGB"])  f == NRelay("RGB")
               g == Len(que["COM"]) h == NWrite
               x == Near["ZX"]      y == Near["RGB"]
    <3>1. /\ a \in Nat /\ b \in Nat /\ c \in Nat /\ d \in Nat /\ e \in Nat
          /\ f \in Nat /\ g \in Nat /\ h \in Nat
          /\ Len(Inside) = a + b + c + d + e + f + g + h
          /\ x = a + b + c /\ y = d + e + f
      BY <2>1, <2>2, <2>3, <2>4 DEF NWrite
    <3> HIDE DEF a, b, c, d, e, f, g, h, x, y
    <3>2. Len(Inside) = x + y + g + h
      BY <3>1
    <3> QED
      BY <3>2 DEF g, h, x, y
  <2> DEFINE z == Near["ZX"]         r == Near["RGB"]  q == Len(que["COM"])
             u == NWrite             w == Len(wire)    l == Cardinality(lost)
             i == Len(Inside)        n == Len(all)     o == seq["ZX"] + seq["RGB"]
  <2>7. /\ z \in Nat /\ r \in Nat /\ q \in Nat /\ u \in Nat /\ w \in Nat /\ l \in Nat
        /\ i = z + r + q + u /\ n = i + w /\ z + r + (q + u + w + l) = o
    BY <1>1, <2>1, <2>5, <2>6 DEF Counted, Far, NWrite
  <2> HIDE DEF all, z, r, q, u, w, l, i, n, o
  <2>8. n + l = o
    BY <2>7
  <2> QED
    BY <2>8 DEF n, l, o
<1>3. {Ident(all[i]) : i \in DOMAIN all} = {Ident(m) : m \in Elems(all)}
  BY DEF Elems
<1>4. \A m : m \in Elems(all) \cup lost
               <=> \E p \in Line \cup {"lost"} : m \in Stage[p]
  BY <1>1, InsideHolds, Stages DEF Line
<1>5. ASSUME NEW m \in Elems(all) \cup lost
      PROVE  m.src \in Sources /\ m.seq \in 1..seq[m.src]
  <2>1. m \in Msg
    BY <1>1, ElemsType DEF TypeOK
  <2> QED
    BY <1>4, <2>1 DEF Flow, Numbered, Msg
<1>6. ASSUME NEW s \in Sources, NEW n \in 1..seq[s]
      PROVE  \E m \in Elems(all) \cup lost : m.src = s /\ m.seq = n
  BY <1>4 DEF Flow, Everywhere
<1>7. {Ident(m) : m \in Elems(all)} \cup {Ident(m) : m \in lost}
         = UNION {{[src |-> s, seq |-> n] : n \in 1..seq[s]} : s \in Sources}
  <2> HIDE DEF all
  <2>1. \A m \in Elems(all) \cup lost :
           Ident(m) \in UNION {{[src |-> s, seq |-> n] : n \in 1..seq[s]} : s \in Sources}
    BY <1>5 DEF Ident
  <2>2. \A s \in Sources : \A n \in 1..seq[s] :
           \E m \in Elems(all) \cup lost : Ident(m) = [src |-> s, seq |-> n]
    BY <1>6 DEF Ident
  <2> QED
    BY <2>1, <2>2
<1> QED
  BY <1>2, <1>3, <1>7 DEF Accounted

\* Every message a sensor task built is in exactly one place: inside the
\* pipeline, on the wire, or given up at a full queue.  Nothing is sent twice
\* and nothing disappears, for every length of the queues.
THEOREM NothingLostUnseen == Spec => []Accounted
<1>1. Spec => []Counted
  BY CountedInit, CountedStep, HandshakeHolds, FlowHolds, PTL DEF Spec
<1> QED
  BY <1>1, AccountedIs, FlowHolds, PTL

-----------------------------------------------------------------------------
(* The channel the pipeline implements.                                    *)

\* What the abstract channel's variables are: the messages on their way, and
\* those that came out.
Flying  == {Ident(Inside[i]) : i \in DOMAIN Inside}
Emitted == [i \in DOMAIN wire |-> Ident(wire[i])]

Carried == Stage["sbuf"] \cup Stage["que"] \cup Stage["rbuf"]
             \cup Stage["COM"] \cup Stage["ubuf"]

FlyingIsCarried == Flying = {Ident(m) : m \in Carried}

LEMMA FlyingHolds == Spec => []FlyingIsCarried
<1>1. Flow => FlyingIsCarried
  <2> SUFFICES ASSUME Flow PROVE FlyingIsCarried
    OBVIOUS
  <2>1. Flying = {Ident(m) : m \in Elems(Inside)}
    BY DEF Flying, Elems
  <2> QED
    BY <2>1, InsideHolds DEF Carried, FlyingIsCarried, Flow
<1> QED
  BY <1>1, FlowHolds, PTL

\* What a move does to the messages on their way.
LEMMA CarriedMoved ==
    ASSUME NEW m, NEW p \in Line \ {"wire"}, NEW q \in Line \cup {"lost"},
           p # q, Moved(m, p, q), Apart
    PROVE  /\ q \in Line \ {"wire"} => Carried' = Carried
           /\ q \in {"wire", "lost"} => Carried' = Carried \ {m}
           /\ m \in Carried
<1>1. /\ m \in Stage[p]
      /\ \A r \in Line \cup {"lost"} :
            Stage'[r] = IF r = p THEN Stage[p] \ {m}
                        ELSE IF r = q THEN Stage[q] \cup {m} ELSE Stage[r]
  BY DEF Moved
<1>2. \A r \in Line \cup {"lost"} : m \in Stage[r] => r = p
  BY <1>1 DEF Apart
<1>3. /\ \A o : o \in Carried <=> \E r \in Line \ {"wire"} : o \in Stage[r]
      /\ \A o : o \in Carried' <=> \E r \in Line \ {"wire"} : o \in Stage'[r]
  BY DEF Carried, Line
<1>4. ASSUME q \in Line \ {"wire"} PROVE Carried' = Carried
  <2>1. ASSUME NEW o, o \in Carried PROVE o \in Carried'
    BY <1>1, <1>3, <1>4, <2>1
  <2>2. ASSUME NEW o, o \in Carried' PROVE o \in Carried
    BY <1>1, <1>3, <1>4, <2>2
  <2> QED
    BY <2>1, <2>2
<1>5. ASSUME q \in {"wire", "lost"} PROVE Carried' = Carried \ {m}
  <2>0. q \notin Line \ {"wire"}
    BY <1>5 DEF Line
  <2>1. ASSUME NEW o, o \in Carried, o # m PROVE o \in Carried'
    BY <1>1, <1>3, <2>1
  <2>2. ASSUME NEW o, o \in Carried' PROVE o \in Carried /\ o # m
    BY <1>1, <1>2, <1>3, <2>0, <2>2
  <2> QED
    BY <2>1, <2>2
<1> QED
  BY <1>1, <1>3, <1>4, <1>5

\* A step in which a message moves, inside the pipeline or out of it, as a step
\* of the channel.
LEMMA MoveIsChannelStep ==
    ASSUME Flow, FlyingIsCarried, FlyingIsCarried', UNCHANGED <<seq, wire>>,
           NEW m, NEW p \in Line \ {"wire"},
           NEW q \in (Line \ {"wire"}) \cup {"lost"}, p # q, Moved(m, p, q)
    PROVE  Channel!Lose
<1>1. Carried' \subseteq Carried
  BY CarriedMoved DEF Flow
<1>2. Flying' \subseteq Flying
  BY <1>1 DEF FlyingIsCarried
<1>3. Emitted' = Emitted
  BY DEF Emitted
<1> QED
  BY <1>2, <1>3 DEF Channel!Lose, Flying, Emitted

LEMMA TransmitIsDeliver ==
    ASSUME Flow, FlyingIsCarried, FlyingIsCarried', UartTransmit
    PROVE  Ident(ubuf) \in Flying /\ Channel!Deliver(Ident(ubuf))
<1>1. Moved(ubuf, "ubuf", "wire")
  BY TransmitMoves
<1>2. Carried' = Carried \ {ubuf} /\ ubuf \in Carried /\ ubuf \in Stage["ubuf"]
  BY <1>1, CarriedMoved DEF Line, Flow, Moved
<1>3. ASSUME NEW o \in Carried, o # ubuf
      PROVE  /\ Ident(o) # Ident(ubuf)
             /\ o.src = ubuf.src /\ ubuf.src = "ZX" => ubuf.seq < o.seq
  <2>1. PICK r \in Line \ {"wire"} : o \in Stage[r]
    BY DEF Carried, Line
  <2>2. Ident(o) # Ident(ubuf)
    BY <1>2, <1>3, <2>1, Ranks DEF Flow, Apart, Ident
  <2>3. r # "ubuf"
    BY <1>2, <1>3, <2>1, Stages
  <2>4. Rank[r] < Rank["ubuf"]
    BY <2>1, <2>3 DEF Rank, Line
  <2>5. o.src = ubuf.src /\ ubuf.src = "ZX" => ubuf.seq < o.seq
    BY <1>2, <2>1, <2>4, Ranks DEF Flow, InLine, SameLine
  <2> QED
    BY <2>2, <2>5
<1>4. /\ Ident(ubuf) \in Flying
      /\ Flying' = Flying \ {Ident(ubuf)}
  BY <1>2, <1>3 DEF FlyingIsCarried
<1>5. ASSUME NEW i \in Flying, i.src = "ZX", Ident(ubuf).src = "ZX"
      PROVE  Ident(ubuf).seq <= i.seq
  <2>1. PICK o \in Carried : i = Ident(o)
    BY DEF FlyingIsCarried
  <2>2. i.src = o.src /\ i.seq = o.seq /\ Ident(ubuf).src = ubuf.src
        /\ Ident(ubuf).seq = ubuf.seq /\ ubuf.seq \in Nat
    BY <2>1 DEF Ident, Flow, TypeOK, Msg
  <2>3. o.seq \in Nat
    BY DEF Carried, Flow, Numbered, Line
  <2> QED
    BY <1>3, <1>5, <2>2, <2>3
<1>6. Emitted' = Append(Emitted, Ident(ubuf))
  <2>1. wire' = Append(wire, ubuf) /\ wire \in Seq(Msg)
    BY DEF UartTransmit, Flow, TypeOK
  <2>2. /\ Len(wire) \in Nat /\ DOMAIN wire = 1..Len(wire)
        /\ DOMAIN wire' = 1..(Len(wire) + 1)
        /\ \A i \in 1..Len(wire) : wire'[i] = wire[i]
        /\ wire'[Len(wire) + 1] = ubuf
    BY <2>1
  <2>3. \A m \in Msg : Ident(m) \in Channel!Message
    BY DEF Ident, Msg, Channel!Message
  <2>4. Emitted \in [1..Len(wire) -> Channel!Message]
    <3>1. \A i \in 1..Len(wire) : wire[i] \in Msg
      BY <2>1, <2>2
    <3> QED
      BY <2>2, <2>3, <3>1 DEF Emitted
  <2>5. Emitted \in Seq(Channel!Message) /\ Len(Emitted) = Len(wire)
    BY <2>2, <2>4, FunctionIsSeq
  <2>6. Ident(ubuf) \in Channel!Message
    BY <2>3 DEF Flow, TypeOK
  <2>7. /\ DOMAIN Emitted' = 1..(Len(wire) + 1)
        /\ Emitted' = [i \in DOMAIN Emitted' |-> Emitted'[i]]
        /\ Emitted'[Len(wire) + 1] = Ident(ubuf)
        /\ \A i \in 1..Len(wire) : Emitted'[i] = Emitted[i]
    BY <2>2 DEF Emitted
  <2> HIDE DEF Emitted
  <2> QED
    BY <2>2, <2>5, <2>6, <2>7, AppendIs
<1>7. seq' = seq
  BY DEF UartTransmit, bufVars
<1> QED
  BY <1>4, <1>5, <1>6, <1>7 DEF Channel!Deliver, Flying, Emitted

LEMMA BuildIsProduce ==
    ASSUME Flow, FlyingIsCarried, FlyingIsCarried',
           NEW s \in Sources, NEW label, NEW val, Build(s, label, val),
           spc[s] # "send", spc' = [spc EXCEPT ![s] = "send"],
           UNCHANGED <<upc, rpc, que, ubuf, rbuf, wire, lost>>
    PROVE  Channel!Produce(s)
<1>1. Built(s, sbuf'[s])
  BY BuildEnters
<1>2. Carried' = Carried \cup {sbuf'[s]}
  BY <1>1, Ranks DEF Built, Carried
<1>3. Ident(sbuf'[s]) = [src |-> s, seq |-> seq[s] + 1]
  BY <1>1 DEF Built, Ident
<1>4. Flying' = Flying \cup {[src |-> s, seq |-> seq[s] + 1]}
  BY <1>2, <1>3 DEF FlyingIsCarried
<1>5. Emitted' = Emitted /\ seq' = [seq EXCEPT ![s] = @ + 1]
  BY <1>1 DEF Emitted, Built
<1> QED
  BY <1>4, <1>5 DEF Channel!Produce, Flying, Emitted

LEMMA NothingMoves ==
    ASSUME UNCHANGED <<seq, sbuf, que, rbuf, ubuf, wire>>,
           \A s \in Sources : /\ rpc'[s] = "send" <=> rpc[s] = "send"
                              /\ spc'[s] = "send" <=> spc[s] = "send",
           upc' = "tx" <=> upc = "tx"
    PROVE  UNCHANGED Channel!chanVars
<1>1. Inside' = Inside
  BY DEF Inside, Held
<1> QED
  BY <1>1 DEF Channel!chanVars

LEMMA ChannelStep ==
    ASSUME Handshake, Flow, FlyingIsCarried, FlyingIsCarried', [Next]_vars
    PROVE  Channel!Next \/ UNCHANGED Channel!chanVars
<1>0. TypeOK
  BY DEF Flow
<1>1. CASE UartCreate \/ UartSpawnZX \/ UartSpawnRGB \/ UartSettle
  <2>1. /\ UNCHANGED <<spc, seq, sbuf, que, rbuf, ubuf, wire>>
        /\ upc # "tx" /\ upc' # "tx"
    BY <1>1 DEF UartCreate, UartSpawnZX, UartSpawnRGB, UartSpawn, UartSettle, bufVars
  <2>2. \A s \in Sources : rpc'[s] = "send" <=> rpc[s] = "send"
    BY <1>0, <1>1 DEF UartCreate, UartSpawnZX, UartSpawnRGB, UartSpawn, UartSettle, TypeOK,
       Handshake, SpawnedOnce
  <2> QED
    BY <2>1, <2>2, NothingMoves
<1>2. CASE UartReceive
  <2>1. UNCHANGED <<seq, wire>>
    BY <1>2 DEF UartReceive
  <2>2. Moved(Head(que["COM"]), "COM", "ubuf")
    BY <1>2, UartReceiveMoves
  <2>3. Channel!Lose
    BY <2>1, <2>2, MoveIsChannelStep DEF Line
  <2> QED
    BY <2>3 DEF Channel!Next
<1>3. CASE UartTransmit
  BY <1>3, TransmitIsDeliver DEF Channel!Next, Flying
<1>4. ASSUME NEW s \in Sources, RelayCreate(s) \/ RelayGive(s)
      PROVE  UNCHANGED Channel!chanVars
  BY <1>0, <1>4, NothingMoves DEF RelayCreate, RelayGive, bufVars, TypeOK
<1>5. ASSUME NEW s \in Sources,
             RelayReceive(s) \/ RelayForward(s) \/ RelayGiveUp(s)
                \/ SensorSend(s) \/ SensorGiveUp(s)
      PROVE  Channel!Lose
  <2>1. UNCHANGED <<seq, wire>>
    BY <1>5 DEF RelayReceive, RelayForward, RelayGiveUp, SensorSend, SensorGiveUp, bufVars
  <2>2. PICK p \in Line \ {"wire"}, q \in (Line \ {"wire"}) \cup {"lost"} :
            p # q /\ \E m : Moved(m, p, q)
    <3>1. CASE RelayReceive(s)
      BY <3>1, ReceiveMoves DEF Line
    <3>2. CASE RelayForward(s)
      BY <3>2, ForwardMoves DEF Line
    <3>3. CASE RelayGiveUp(s)
      BY <3>3, RelayGiveUpMoves DEF Line
    <3>4. CASE SensorSend(s)
      BY <3>4, SendMoves DEF Line
    <3>5. CASE SensorGiveUp(s)
      BY <3>5, SensorGiveUpMoves DEF Line
    <3> QED
      BY <1>5, <3>1, <3>2, <3>3, <3>4, <3>5
  <2> QED
    BY <2>1, <2>2, MoveIsChannelStep
<1>6. ASSUME NEW s \in Sources, SensorTake(s) PROVE Channel!Produce(s)
  BY <1>6, BuildIsProduce DEF SensorTake
<1>7. ASSUME NEW available \in PositionStatus, ZXSample(available)
      PROVE  Channel!Produce("ZX")
  BY <1>7, BuildIsProduce DEF ZXSample
<1>8. CASE RGBSample
  <2>1. Channel!Produce("RGB")
    BY <1>8, BuildIsProduce DEF RGBSample
  <2> QED
    BY <2>1 DEF Channel!Next
<1>9. CASE ZXNotifyTake \/ RGBDelay \/ PortLIntHandler \/ UNCHANGED vars
  BY <1>0, <1>9, NothingMoves
     DEF ZXNotifyTake, RGBDelay, PortLIntHandler, vars, taskVars, bufVars, TypeOK
<1>10. ASSUME NEW s \in Sources,
              RelayReceive(s) \/ RelayForward(s) \/ RelayGiveUp(s)
                 \/ SensorSend(s) \/ SensorGiveUp(s) \/ SensorTake(s)
       PROVE  Channel!Next
  BY <1>5, <1>6, <1>10 DEF Channel!Next
<1>11. ASSUME NEW available \in PositionStatus, ZXSample(available)
       PROVE  Channel!Next
  BY <1>7, <1>11 DEF Channel!Next
<1> QED
  BY <1>1, <1>2, <1>3, <1>4, <1>8, <1>9, <1>10, <1>11
     DEF Next, UartTask, RelayTask, ZXSensorTask, RGBSensorTask

LEMMA ChannelInit == Init => Channel!Init
<1> SUFFICES ASSUME Init PROVE Channel!Init
  OBVIOUS
<1>1. Inside = <<>>
  BY DEF Init, Inside, Held
<1>2. Flying = {} /\ Emitted = <<>>
  BY <1>1 DEF Init, Flying, Emitted
<1> QED
  BY <1>2 DEF Init, Channel!Init, Flying, Emitted

\* The pipeline implements the abstract channel: a message comes out at most
\* once and only if it was produced, and no reading of the distance sensor
\* comes out before an older one that is still on its way.
THEOREM PipelineIsChannel == Spec => ImplementsChannel
<1>1. Handshake /\ Flow /\ FlyingIsCarried /\ FlyingIsCarried' /\ [Next]_vars
         => [Channel!Next]_(Channel!chanVars)
  BY ChannelStep
<1> QED
  BY <1>1, ChannelInit, HandshakeHolds, FlowHolds, FlyingHolds, PTL
     DEF Spec, ImplementsChannel, Channel!Spec

=============================================================================
