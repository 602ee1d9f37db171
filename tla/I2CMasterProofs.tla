-------------------------- MODULE I2CMasterProofs --------------------------
(***************************************************************************)
(* A driver call of I2CMaster into which no other task steps, on any       *)
(* number of clients and registers: what the controller and the slave hold *)
(* before each of its steps.                                               *)
(***************************************************************************)
EXTENDS I2CMaster, TLAPS

USE ClientsAssumption, ContentsAssumption

Transfer == [cmd : Commands \cup {"none"}, addr : Address, byte : Bytes]

TypeOK ==
    /\ call \in [Clients -> Call]
    /\ step \in [Clients -> Nat]
    /\ \A c \in Clients : step[c] <= Len(StepsOf(c))
    /\ msa \in Address
    /\ mdr \in Bytes
    /\ xfer \in Transfer
    /\ bus \in [dev : Clients, dir : {"W", "R", "idle"}]
    /\ ptr \in [Clients -> Bytes]
    /\ mem \in [Clients -> [Bytes -> Bytes]]
    /\ solo \subseteq Clients

-----------------------------------------------------------------------------
(* The steps of the two functions by their numbers.                        *)

LEMMA Lengths == Len(WriteSteps) = 8 /\ Len(ReadSteps) = 10
BY DEF WriteSteps, ReadSteps

LEMMA WriteNames ==
    /\ WriteSteps[1] = "addrWrite" /\ WriteSteps[2] = "putReg"
    /\ WriteSteps[3] = "wait" /\ WriteSteps[4] = "start"
    /\ WriteSteps[5] = "wait" /\ WriteSteps[6] = "putData"
    /\ WriteSteps[7] = "finish" /\ WriteSteps[8] = "wait"
BY DEF WriteSteps

LEMMA ReadNames ==
    /\ ReadSteps[1] = "addrWrite" /\ ReadSteps[2] = "putReg"
    /\ ReadSteps[3] = "wait" /\ ReadSteps[4] = "start"
    /\ ReadSteps[5] = "wait" /\ ReadSteps[6] = "addrRead"
    /\ ReadSteps[7] = "wait" /\ ReadSteps[8] = "receive"
    /\ ReadSteps[9] = "wait" /\ ReadSteps[10] = "get"
BY DEF ReadSteps

\* Which step a client is at when it makes a call of the driver library.
LEMMA AtIs ==
    ASSUME TypeOK, NEW c \in Clients, NEW name, At(c, name)
    PROVE  LET n == step[c]
           IN  IF call[c].kind = "write"
               THEN /\ n \in 1..8
                    /\ name = "addrWrite" <=> n = 1
                    /\ name = "putReg" <=> n = 2
                    /\ name = "wait" <=> n \in {3, 5, 8}
                    /\ name = "start" <=> n = 4
                    /\ name = "putData" <=> n = 6
                    /\ name = "finish" <=> n = 7
                    /\ name \notin {"addrRead", "receive", "get"}
               ELSE /\ n \in 1..10
                    /\ name = "addrWrite" <=> n = 1
                    /\ name = "putReg" <=> n = 2
                    /\ name = "wait" <=> n \in {3, 5, 7, 9}
                    /\ name = "start" <=> n = 4
                    /\ name = "addrRead" <=> n = 6
                    /\ name = "receive" <=> n = 8
                    /\ name = "get" <=> n = 10
                    /\ name \notin {"putData", "finish"}
<1>1. step[c] \in Nat /\ step[c] # 0 /\ step[c] <= Len(StepsOf(c))
      /\ StepsOf(c)[step[c]] = name
  BY DEF TypeOK, At
<1>2. CASE call[c].kind = "write"
  <2>1. step[c] \in 1..8 /\ WriteSteps[step[c]] = name
    <3>1. StepsOf(c) = WriteSteps
      BY <1>2 DEF StepsOf
    <3>2. step[c] <= 8 /\ WriteSteps[step[c]] = name
      BY <1>1, <3>1, Lengths
    <3> QED
      BY <1>1, <3>2
  <2> QED
    BY <1>2, <2>1, WriteNames
<1>3. CASE call[c].kind # "write"
  <2>1. step[c] \in 1..10 /\ ReadSteps[step[c]] = name
    <3>1. StepsOf(c) = ReadSteps
      BY <1>3 DEF StepsOf
    <3>2. step[c] <= 10 /\ ReadSteps[step[c]] = name
      BY <1>1, <3>1, Lengths
    <3> QED
      BY <1>1, <3>2
  <2> QED
    BY <1>3, <2>1, ReadNames
<1> QED
  BY <1>2, <1>3

-----------------------------------------------------------------------------
(* What a call may count on.                                               *)

\* The controller executes cmd on the given address, and nothing else.
Doing(c, cmd, dir) == xfer.cmd = cmd /\ xfer.addr = [dev |-> c, dir |-> dir]

\* The register pointer of the slave is where the caller wants it.
Pointed(c) == ptr[c] = call[c].reg

AddressedFor(c) == bus.dev = c /\ bus.dir = "W"

\* The state before each step of a call of c that has c's controller to itself.
WriteGuided(c) ==
    LET n == step[c]
    IN  /\ n \in {1, 2, 3, 4, 6, 7} => ~Busy
        /\ n \in 2..4 => msa = [dev |-> c, dir |-> "W"]
        /\ n \in 3..4 => mdr = call[c].reg
        /\ n = 5 => \/ Doing(c, "start", "W") /\ xfer.byte = call[c].reg
                    \/ ~Busy /\ Pointed(c) /\ AddressedFor(c)
        /\ n \in 6..7 => Pointed(c) /\ AddressedFor(c)
        /\ n = 7 => mdr = call[c].data
        /\ n = 8 => \/ /\ xfer.cmd = "finish" /\ xfer.byte = call[c].data
                       /\ Pointed(c) /\ AddressedFor(c)
                    \/ ~Busy /\ mem[c][call[c].reg] = call[c].data

ReadGuided(c) ==
    LET n == step[c]
    IN  /\ n \in {1, 2, 3, 4, 6, 7, 8, 10} => ~Busy
        /\ n \in 2..4 => msa = [dev |-> c, dir |-> "W"]
        /\ n \in 3..4 => mdr = call[c].reg
        /\ n = 5 => \/ Doing(c, "start", "W") /\ xfer.byte = call[c].reg
                    \/ ~Busy /\ Pointed(c)
        /\ n \in 6..9 => Pointed(c)
        /\ n \in 7..8 => msa = [dev |-> c, dir |-> "R"]
        /\ n = 9 => \/ Doing(c, "receive", "R")
                    \/ ~Busy /\ mdr = mem[c][call[c].reg]
        /\ n = 10 => mdr = mem[c][call[c].reg]

Guided(c) == IF call[c].kind = "write" THEN WriteGuided(c) ELSE ReadGuided(c)

SoloGuided == \A c \in solo : Guided(c)

-----------------------------------------------------------------------------
(* Types.                                                                  *)

LEMMA Chosen ==
    /\ NoCall \in Call
    /\ NoXfer \in Transfer /\ NoXfer.cmd = "none" /\ NoXfer.addr \in Address
    /\ NoXfer.byte \in Bytes
    /\ NoBus \in [dev : Clients, dir : {"W", "R", "idle"}] /\ NoBus.dir = "idle"
<1>1. \E k \in Call : TRUE
  <2>1. PICK b \in Bytes : TRUE
    OBVIOUS
  <2>2. [kind |-> "read", reg |-> b, data |-> b] \in Call
    BY <2>1 DEF Call
  <2> QED
    BY <2>2
<1>2. \E a \in Address : TRUE
  <2>1. PICK c \in Clients : TRUE
    OBVIOUS
  <2>2. [dev |-> c, dir |-> "W"] \in Address
    BY <2>1 DEF Address
  <2> QED
    BY <2>2
<1>3. NoCall \in Call
  BY <1>1 DEF NoCall
<1>4. (CHOOSE a \in Address : TRUE) \in Address
  BY <1>2
<1>5. (CHOOSE b \in Bytes : TRUE) \in Bytes
  OBVIOUS
<1>6. (CHOOSE d \in Clients : TRUE) \in Clients
  OBVIOUS
<1> QED
  BY <1>3, <1>4, <1>5, <1>6 DEF NoXfer, NoBus, Transfer

\* A step of a call: on to the next one, or out of the driver.
LEMMA AdvanceIs ==
    ASSUME TypeOK, NEW c \in Clients, Advance(c), step[c] # 0
    PROVE  /\ step' \in [Clients -> Nat] /\ call' \in [Clients -> Call]
           /\ \A d \in Clients \ {c} : step'[d] = step[d] /\ call'[d] = call[d]
           /\ \/ /\ step[c] < Len(StepsOf(c))
                 /\ step'[c] = step[c] + 1 /\ call'[c] = call[c]
              \/ step[c] = Len(StepsOf(c)) /\ step'[c] = 0
           /\ solo' \subseteq solo /\ solo' \subseteq {c}
           /\ \A d \in Clients : step'[d] <= Len(StepsOf(d))'
<1>1. /\ step[c] \in Nat /\ step[c] <= Len(StepsOf(c))
      /\ Len(StepsOf(c)) \in {8, 10}
  BY Lengths DEF TypeOK, StepsOf
<1>2. CASE step[c] < Len(StepsOf(c))
  <2>1. step' = [step EXCEPT ![c] = @ + 1] /\ call' = call /\ solo' = solo \cap {c}
    BY <1>2 DEF Advance
  <2>2. \A d \in Clients : StepsOf(d)' = StepsOf(d)
    BY <2>1 DEF StepsOf
  <2>3. step'[c] = step[c] + 1 /\ \A d \in Clients \ {c} : step'[d] = step[d]
    BY <2>1 DEF TypeOK
  <2>4. step'[c] <= Len(StepsOf(c))
    BY <1>1, <1>2, <2>3
  <2>5. \A d \in Clients : step'[d] <= Len(StepsOf(d))'
    BY <2>2, <2>3, <2>4 DEF TypeOK
  <2> QED
    BY <1>2, <2>1, <2>3, <2>5 DEF TypeOK
<1>3. CASE ~(step[c] < Len(StepsOf(c)))
  <2>1. /\ step' = [step EXCEPT ![c] = 0] /\ call' = [call EXCEPT ![c] = NoCall]
        /\ solo' = solo \cap {c}
    BY <1>3 DEF Advance
  <2>2. /\ step'[c] = 0
        /\ \A d \in Clients \ {c} : step'[d] = step[d] /\ call'[d] = call[d]
    BY <2>1 DEF TypeOK
  <2>3. \A d \in Clients : Len(StepsOf(d))' \in {8, 10}
    BY Lengths DEF StepsOf
  <2>4. \A d \in Clients \ {c} : StepsOf(d)' = StepsOf(d)
    BY <2>2 DEF StepsOf
  <2>5. \A d \in Clients : step'[d] <= Len(StepsOf(d))'
    <3>1. step'[c] <= Len(StepsOf(c))'
      BY <2>2, <2>3
    <3>2. ASSUME NEW d \in Clients \ {c} PROVE step'[d] <= Len(StepsOf(d))'
      BY <2>2, <2>4 DEF TypeOK
    <3> QED
      BY <3>1, <3>2
  <2>6. step[c] = Len(StepsOf(c))
    BY <1>1, <1>3
  <2> QED
    BY <2>1, <2>2, <2>5, <2>6, Chosen DEF TypeOK
<1> QED
  BY <1>2, <1>3

LEMMA TypeInit == Init => TypeOK
<1> SUFFICES ASSUME Init PROVE TypeOK
  OBVIOUS
<1>1. \A c \in Clients : Len(StepsOf(c)) \in {8, 10}
  BY Lengths DEF StepsOf
<1>2. mem \in [Clients -> [Bytes -> Bytes]]
  BY DEF Init
<1> QED
  BY <1>1, <1>2, Chosen DEF Init, TypeOK

LEMMA TypeStep == TypeOK /\ [Next]_vars => TypeOK'
<1> SUFFICES ASSUME TypeOK, [Next]_vars PROVE TypeOK'
  OBVIOUS
<1>1. ASSUME NEW c \in Clients, Enter(c) PROVE TypeOK'
  <2>1. /\ step' = [step EXCEPT ![c] = 1] /\ call' \in [Clients -> Call]
        /\ \A d \in Clients \ {c} : call'[d] = call[d]
        /\ solo' \subseteq {c}
        /\ UNCHANGED <<msa, mdr, xfer, bus, ptr, mem>>
    BY <1>1 DEF Enter, TypeOK
  <2>2. \A d \in Clients : Len(StepsOf(d))' \in {8, 10}
    BY Lengths DEF StepsOf
  <2>3. \A d \in Clients \ {c} : StepsOf(d)' = StepsOf(d)
    BY <2>1 DEF StepsOf
  <2>4. \A d \in Clients : step'[d] <= Len(StepsOf(d))'
    <3>1. step'[c] <= Len(StepsOf(c))'
      <4>1. step'[c] = 1
        BY <2>1 DEF TypeOK
      <4>2. Len(StepsOf(c))' = 8 \/ Len(StepsOf(c))' = 10
        BY Lengths DEF StepsOf
      <4>3. CASE Len(StepsOf(c))' = 8
        BY <4>1, <4>3
      <4>4. CASE Len(StepsOf(c))' = 10
        BY <4>1, <4>4
      <4> QED
        BY <4>2, <4>3, <4>4
    <3>2. ASSUME NEW d \in Clients \ {c} PROVE step'[d] <= Len(StepsOf(d))'
      BY <2>1, <2>3 DEF TypeOK
    <3> QED
      BY <3>1, <3>2
  <2> QED
    BY <2>1, <2>4 DEF TypeOK
<1>2. ASSUME NEW c \in Clients, AddrSet(c) \/ DataPut(c) \/ Wait(c) \/ Control(c) \/ DataGet(c)
      PROVE  TypeOK'
  <2>1. Advance(c) /\ step[c] # 0 /\ UNCHANGED <<bus, ptr, mem>>
    BY <1>2 DEF AddrSet, DataPut, Wait, Control, DataGet, At
  <2>2. /\ msa' \in Address /\ mdr' \in Bytes /\ xfer' \in Transfer
    BY <1>2 DEF AddrSet, DataPut, Wait, Control, DataGet, TypeOK, Address, Transfer, Call
  <2> QED
    BY <2>1, <2>2, AdvanceIs DEF TypeOK
<1>3. CASE Complete
  <2>1. /\ UNCHANGED <<call, step, solo, msa>>
        /\ xfer' = NoXfer
        /\ xfer.addr \in Address /\ xfer.byte \in Bytes
    BY <1>3 DEF Complete, driverVars, TypeOK, Transfer
  <2>2. bus' \in [dev : Clients, dir : {"W", "R", "idle"}]
    BY <1>3, <2>1, Chosen DEF Complete, Address
  <2>3. ptr' \in [Clients -> Bytes]
    BY <1>3, <2>1 DEF Complete, Finished, Addressed, TypeOK, Address
  <2>4. mem' \in [Clients -> [Bytes -> Bytes]]
    <3>1. bus.dev \in Clients /\ ptr[bus.dev] \in Bytes /\ mem[bus.dev] \in [Bytes -> Bytes]
      BY DEF TypeOK
    <3>2. \/ mem' = mem
          \/ mem' = [mem EXCEPT ![bus.dev][ptr[bus.dev]] = xfer.byte]
      BY <1>3 DEF Complete, Finished, Addressed
    <3>3. CASE mem' = [mem EXCEPT ![bus.dev][ptr[bus.dev]] = xfer.byte]
      <4>1. [mem[bus.dev] EXCEPT ![ptr[bus.dev]] = xfer.byte] \in [Bytes -> Bytes]
        BY <2>1, <3>1
      <4>2. mem' = [mem EXCEPT ![bus.dev] = [mem[bus.dev] EXCEPT ![ptr[bus.dev]] = xfer.byte]]
        BY <3>3
      <4> QED
        BY <4>1, <4>2 DEF TypeOK
    <3> QED
      BY <3>2, <3>3 DEF TypeOK
  <2>5. mdr' \in Bytes
    BY <1>3, <2>1 DEF Complete, Finished, Addressed, TypeOK, Address
  <2>6. \A c \in Clients : StepsOf(c)' = StepsOf(c)
    BY <2>1 DEF StepsOf
  <2> QED
    BY <2>1, <2>2, <2>3, <2>4, <2>5, <2>6, Chosen DEF TypeOK
<1>4. CASE UNCHANGED vars
  BY <1>4 DEF vars, TypeOK, StepsOf
<1> QED
  BY <1>1, <1>2, <1>3, <1>4 DEF Next, DriverStep

LEMMA TypeHolds == Spec => []TypeOK
BY TypeInit, TypeStep, PTL DEF Spec

-----------------------------------------------------------------------------
(* The call that is not stepped into.                                      *)

LEMMA OutsideIsGuided ==
    ASSUME NEW c \in Clients, step'[c] = 0
    PROVE  Guided(c)'
BY DEF Guided, WriteGuided, ReadGuided

\* A step of a client concerns its own call only.
LEMMA OwnStep ==
    ASSUME TypeOK, NEW c \in Clients, step[c] # 0, Advance(c), SoloGuided,
           c \in solo /\ Guided(c) /\ step'[c] = step[c] + 1 /\ call'[c] = call[c]
              => Guided(c)'
    PROVE  SoloGuided'
<1>1. solo' \subseteq solo /\ solo' \subseteq {c}
  BY AdvanceIs
<1>2. \/ step'[c] = step[c] + 1 /\ call'[c] = call[c]
      \/ step'[c] = 0
  BY AdvanceIs
<1>3. ASSUME c \in solo PROVE Guided(c)'
  BY <1>2, <1>3, OutsideIsGuided DEF SoloGuided
<1> QED
  BY <1>1, <1>3 DEF SoloGuided

LEMMA GuidedAddrSet ==
    ASSUME TypeOK, SoloGuided, NEW c \in Clients, AddrSet(c)
    PROVE  SoloGuided'
<1>1. Advance(c) /\ step[c] # 0 /\ UNCHANGED <<mdr, xfer, bus, ptr, mem>>
  BY DEF AddrSet, At
<1> SUFFICES ASSUME Guided(c), step'[c] = step[c] + 1, call'[c] = call[c]
             PROVE  Guided(c)'
  BY <1>1, OwnStep
<1>2. step[c] \in {1, 6} /\ (step[c] = 6 => call[c].kind # "write")
  BY AtIs DEF AddrSet
<1>3. /\ step[c] = 1 => msa' = [dev |-> c, dir |-> "W"]
      /\ step[c] = 6 => msa' = [dev |-> c, dir |-> "R"]
  BY AtIs DEF AddrSet
<1>4. CASE call[c].kind = "write"
  BY <1>1, <1>2, <1>3, <1>4 DEF Guided, WriteGuided, Busy
<1>5. CASE call[c].kind # "write"
  BY <1>1, <1>2, <1>3, <1>5 DEF Guided, ReadGuided, Busy, Pointed
<1> QED
  BY <1>4, <1>5

LEMMA GuidedDataPut ==
    ASSUME TypeOK, SoloGuided, NEW c \in Clients, DataPut(c)
    PROVE  SoloGuided'
<1>1. Advance(c) /\ step[c] # 0 /\ UNCHANGED <<msa, xfer, bus, ptr, mem>>
  BY DEF DataPut, At
<1> SUFFICES ASSUME Guided(c), step'[c] = step[c] + 1, call'[c] = call[c]
             PROVE  Guided(c)'
  BY <1>1, OwnStep
<1>2. step[c] \in {2, 6} /\ (step[c] = 6 => call[c].kind = "write")
  BY AtIs DEF DataPut
<1>3. /\ step[c] = 2 => mdr' = call[c].reg
      /\ step[c] = 6 => mdr' = call[c].data
  BY AtIs DEF DataPut
<1>4. CASE call[c].kind = "write"
  BY <1>1, <1>2, <1>3, <1>4 DEF Guided, WriteGuided, Busy, Pointed, AddressedFor
<1>5. CASE call[c].kind # "write"
  BY <1>1, <1>2, <1>3, <1>5 DEF Guided, ReadGuided, Busy
<1> QED
  BY <1>4, <1>5

LEMMA GuidedWait ==
    ASSUME TypeOK, SoloGuided, NEW c \in Clients, Wait(c)
    PROVE  SoloGuided'
<1>1. /\ Advance(c) /\ step[c] # 0 /\ ~Busy
      /\ UNCHANGED <<msa, mdr, xfer, bus, ptr, mem>>
  BY DEF Wait, At
<1> SUFFICES ASSUME Guided(c), step'[c] = step[c] + 1, call'[c] = call[c]
             PROVE  Guided(c)'
  BY <1>1, OwnStep
<1>2. /\ call[c].kind = "write" => step[c] \in {3, 5, 8}
      /\ call[c].kind # "write" => step[c] \in {3, 5, 7, 9}
  BY AtIs DEF Wait
<1>4. CASE call[c].kind = "write"
  BY <1>1, <1>2, <1>4 DEF Guided, WriteGuided, Busy, Pointed, AddressedFor, Doing
<1>5. CASE call[c].kind # "write"
  BY <1>1, <1>2, <1>5 DEF Guided, ReadGuided, Busy, Pointed, Doing
<1> QED
  BY <1>4, <1>5

LEMMA GuidedControl ==
    ASSUME TypeOK, SoloGuided, NEW c \in Clients, Control(c)
    PROVE  SoloGuided'
<1>1. PICK cmd \in Commands :
         /\ At(c, cmd)
         /\ \/ xfer' = [cmd |-> cmd, addr |-> msa, byte |-> mdr]
            \/ Busy /\ UNCHANGED xfer
  BY DEF Control
<1>2. Advance(c) /\ step[c] # 0 /\ UNCHANGED <<msa, mdr, bus, ptr, mem>>
  BY DEF Control, At
<1> SUFFICES ASSUME Guided(c), step'[c] = step[c] + 1, call'[c] = call[c]
             PROVE  Guided(c)'
  BY <1>2, OwnStep
<1>3. /\ call[c].kind = "write" => \/ step[c] = 4 /\ cmd = "start"
                                   \/ step[c] = 7 /\ cmd = "finish"
      /\ call[c].kind # "write" => \/ step[c] = 4 /\ cmd = "start"
                                   \/ step[c] = 8 /\ cmd = "receive"
  BY <1>1, AtIs DEF Commands
<1>4. CASE call[c].kind = "write"
  <2>1. ~Busy
    BY <1>3, <1>4 DEF Guided, WriteGuided
  <2>2. xfer'.cmd = cmd /\ xfer'.addr = msa /\ xfer'.byte = mdr
    BY <1>1, <2>1
  <2> QED
    BY <1>2, <1>3, <1>4, <2>2 DEF Guided, WriteGuided, Pointed, AddressedFor, Doing
<1>5. CASE call[c].kind # "write"
  <2>1. ~Busy
    BY <1>3, <1>5 DEF Guided, ReadGuided
  <2>2. xfer'.cmd = cmd /\ xfer'.addr = msa /\ xfer'.byte = mdr
    BY <1>1, <2>1
  <2> QED
    BY <1>2, <1>3, <1>5, <2>2 DEF Guided, ReadGuided, Pointed, Doing
<1> QED
  BY <1>4, <1>5

LEMMA GuidedDataGet ==
    ASSUME TypeOK, SoloGuided, NEW c \in Clients, DataGet(c)
    PROVE  SoloGuided'
<1>1. Advance(c) /\ step[c] # 0
  BY DEF DataGet, At
<1>2. step[c] = 10 /\ call[c].kind # "write"
  BY AtIs DEF DataGet
<1>3. Len(StepsOf(c)) = 10
  BY <1>2, Lengths DEF StepsOf
<1>4. ~(step[c] < Len(StepsOf(c)))
  BY <1>2, <1>3
<1>5. step' = [step EXCEPT ![c] = 0]
  BY <1>1, <1>4 DEF Advance
<1>6. step'[c] = 0
  BY <1>5 DEF TypeOK
<1> QED
  BY <1>1, <1>6, OwnStep, OutsideIsGuided

LEMMA GuidedEnter ==
    ASSUME TypeOK, NEW c \in Clients, Enter(c)
    PROVE  SoloGuided'
<1>1. /\ step'[c] = 1 /\ UNCHANGED xfer
      /\ \A d \in solo' : d = c /\ ~Busy
  BY DEF Enter, TypeOK
<1>2. ~Busy => Guided(c)'
  BY <1>1 DEF Guided, WriteGuided, ReadGuided, Busy
<1> QED
  BY <1>1, <1>2 DEF SoloGuided

\* The controller finishes a command.
LEMMA GuidedComplete ==
    ASSUME TypeOK, SoloGuided, Complete
    PROVE  SoloGuided'
<1>1. Busy /\ xfer' = NoXfer /\ UNCHANGED <<call, step, solo, msa>>
  BY DEF Complete, driverVars
<1>2. ~Busy'
  BY <1>1, Chosen DEF Busy
<1> SUFFICES ASSUME NEW c \in Clients, Guided(c), step[c] # 0 PROVE Guided(c)'
  BY <1>1, OutsideIsGuided DEF SoloGuided, TypeOK
<1>3. call[c].reg \in Bytes /\ mem[c] \in [Bytes -> Bytes] /\ ptr[c] \in Bytes
  BY DEF TypeOK, Call
<1>4. CASE call[c].kind = "write"
  <2>1. CASE step[c] = 5
    <3>1. Doing(c, "start", "W") /\ xfer.byte = call[c].reg
      BY <1>1, <1>4, <2>1 DEF Guided, WriteGuided
    <3>2. Pointed(c)' /\ AddressedFor(c)'
      BY <1>1, <3>1 DEF Complete, Addressed, Doing, Pointed, AddressedFor, TypeOK
    <3> QED
      BY <1>1, <1>2, <1>4, <2>1, <3>2 DEF Guided, WriteGuided
  <2>2. CASE step[c] = 8
    <3>1. /\ xfer.cmd = "finish" /\ xfer.byte = call[c].data
          /\ Pointed(c) /\ AddressedFor(c)
      BY <1>1, <1>4, <2>2 DEF Guided, WriteGuided
    <3>2. mem' = [mem EXCEPT ![c][call[c].reg] = call[c].data]
      BY <3>1 DEF Complete, Finished, AddressedFor, Pointed
    <3>3. mem'[c][call[c].reg] = call[c].data
      BY <1>3, <3>2 DEF TypeOK
    <3> QED
      BY <1>1, <1>2, <1>4, <2>2, <3>3 DEF Guided, WriteGuided
  <2>3. CASE step[c] \notin {5, 8}
    BY <1>1, <1>2, <1>4, <2>3 DEF Guided, WriteGuided, TypeOK
  <2> QED
    BY <2>1, <2>2, <2>3
<1>5. CASE call[c].kind # "write"
  <2>1. CASE step[c] = 5
    <3>1. Doing(c, "start", "W") /\ xfer.byte = call[c].reg
      BY <1>1, <1>5, <2>1 DEF Guided, ReadGuided
    <3>2. Pointed(c)'
      BY <1>1, <3>1 DEF Complete, Addressed, Doing, Pointed, TypeOK
    <3> QED
      BY <1>1, <1>2, <1>5, <2>1, <3>2 DEF Guided, ReadGuided
  <2>2. CASE step[c] = 9
    <3>1. Doing(c, "receive", "R") /\ Pointed(c)
      BY <1>1, <1>5, <2>2 DEF Guided, ReadGuided
    <3>2. mdr' = mem[c][call[c].reg] /\ UNCHANGED <<mem, ptr>>
      BY <3>1 DEF Complete, Addressed, Doing, Pointed
    <3> QED
      BY <1>1, <1>2, <1>5, <2>2, <3>1, <3>2 DEF Guided, ReadGuided, Pointed
  <2>3. CASE step[c] \notin {5, 9}
    BY <1>1, <1>2, <1>5, <2>3 DEF Guided, ReadGuided, TypeOK
  <2> QED
    BY <2>1, <2>2, <2>3
<1> QED
  BY <1>4, <1>5

LEMMA GuidedInductive == TypeOK /\ SoloGuided /\ [Next]_vars => SoloGuided'
<1> SUFFICES ASSUME TypeOK, SoloGuided, [Next]_vars PROVE SoloGuided'
  OBVIOUS
<1>1. CASE UNCHANGED vars
  <2>1. UNCHANGED <<call, step, msa, mdr, xfer, bus, ptr, mem, solo>>
    BY <1>1 DEF vars
  <2>2. ASSUME NEW c \in Clients PROVE WriteGuided(c)' <=> WriteGuided(c)
    BY <2>1 DEF WriteGuided, Busy, Doing, Pointed, AddressedFor
  <2>3. ASSUME NEW c \in Clients PROVE ReadGuided(c)' <=> ReadGuided(c)
    BY <2>1 DEF ReadGuided, Busy, Doing, Pointed
  <2>4. ASSUME NEW c \in solo PROVE Guided(c)'
    BY <2>1, <2>2, <2>3, <2>4 DEF Guided, SoloGuided, TypeOK
  <2> QED
    BY <2>1, <2>4 DEF SoloGuided
<1> QED
  BY <1>1, GuidedAddrSet, GuidedDataPut, GuidedWait, GuidedControl, GuidedDataGet,
     GuidedEnter, GuidedComplete DEF Next, DriverStep

LEMMA GuidedHolds == Spec => []SoloGuided
<1>1. Init => SoloGuided
  BY DEF Init, SoloGuided
<1> QED
  BY <1>1, TypeHolds, GuidedInductive, PTL DEF Spec

\* A call that begins while the controller executes no command, and into which no
\* other task steps, reads or writes the register it was asked for, whatever
\* state another task's interrupted call has left the bus and the registers of
\* the controller in.
THEOREM SoloCallsAreRight == Spec => []SoloCallRight
<1>1. TypeOK /\ SoloGuided => SoloCallRight
  <2> SUFFICES ASSUME TypeOK, SoloGuided, NEW c \in solo PROVE ReadRight(c) /\ WriteRight(c)
    BY DEF SoloCallRight
  <2>1. c \in Clients /\ Guided(c)
    BY DEF TypeOK, SoloGuided
  <2>2. ReadRight(c)
    <3> SUFFICES ASSUME ReadReturns(c) PROVE mdr = mem[c][call[c].reg]
      BY DEF ReadRight
    <3>1. step[c] = 10 /\ call[c].kind # "write"
      BY <2>1, AtIs DEF ReadReturns
    <3> QED
      BY <2>1, <3>1 DEF Guided, ReadGuided
  <2>3. WriteRight(c)
    BY <2>1, Lengths DEF WriteRight, WriteReturns, Guided, WriteGuided, Busy
  <2> QED
    BY <2>2, <2>3
<1> QED
  BY <1>1, TypeHolds, GuidedHolds, PTL

=============================================================================
