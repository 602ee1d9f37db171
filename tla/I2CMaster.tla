----------------------------- MODULE I2CMaster -----------------------------
(***************************************************************************)
(* MySources/MyI2C.c: I2C0_Master_Write and I2C0_Master_Read, called by    *)
(* the two sensor tasks without any lock, on the one I2C0 controller.      *)
(* A step is one driverlib call; the tasks are time-sliced, so the steps   *)
(* of two calls interleave freely.                                         *)
(*                                                                         *)
(* Each client is a sensor task and, at the same time, the slave it talks  *)
(* to.  The controller and the slaves are hardware: they are modelled from *)
(* how the driver uses them.  Slaves acknowledge, and their registers      *)
(* change only when written.                                               *)
(***************************************************************************)
EXTENDS Naturals, Sequences

CONSTANTS Clients,   \* the sensor tasks, each with a slave of its own
          Bytes,     \* what fits in the data register: addresses and contents
          Contents,  \* what the registers of a slave may hold at first
          MaxCalls   \* bound of the model: driver calls of each client

ASSUME ClientsAssumption == Clients # {} /\ Bytes # {}
ASSUME ContentsAssumption == Contents \subseteq [Bytes -> Bytes]
ASSUME MaxCallsAssumption == MaxCalls \in Nat

VARIABLES
    call,   \* call[c]: the arguments of c's current driver call
    step,   \* step[c]: its next step, 0 when c is outside the driver
    calls,  \* how many driver calls c has made
    msa,    \* slave address register: a slave and a direction
    mdr,    \* data register, transmitted from and received into
    xfer,   \* the command the controller is executing, "none" when it is not
    bus,    \* who is addressed between a START and its STOP, else "idle"
    ptr,    \* ptr[d]: register pointer inside slave d
    mem,    \* mem[d][r]: register r of slave d
    solo    \* the client, if any, whose current call began while the controller
            \* was free and into which no other has stepped: model history

driverVars == <<call, step, calls, solo>>
vars == <<call, step, calls, msa, mdr, xfer, bus, ptr, mem, solo>>

Call == [kind : {"read", "write"}, reg : Bytes, data : Bytes]
Address == [dev : Clients, dir : {"W", "R"}]
Commands == {"start", "receive", "finish"}

NoCall == CHOOSE k \in Call : TRUE
NoXfer == [cmd |-> "none", addr |-> CHOOSE a \in Address : TRUE,
           byte |-> CHOOSE b \in Bytes : TRUE]
NoBus == [dev |-> CHOOSE d \in Clients : TRUE, dir |-> "idle"]

Busy == xfer.cmd # "none"            \* I2CMasterBusy

Init ==
    /\ call = [c \in Clients |-> NoCall]
    /\ step = [c \in Clients |-> 0]
    /\ calls = [c \in Clients |-> 0]
    /\ msa = NoXfer.addr
    /\ mdr = NoXfer.byte
    /\ xfer = NoXfer
    /\ bus = NoBus
    /\ ptr \in [Clients -> Bytes]
    /\ mem \in [Clients -> Contents]
    /\ solo = {}

-----------------------------------------------------------------------------
(* The two driver functions, as the sequence of their steps.               *)

\* Mutant: the slave address left as the last call set it.
WriteStepsNoAddress == <<"putReg", "wait", "start", "wait",
                         "putData", "finish", "wait">>

WriteSteps == <<"addrWrite", "putReg", "wait", "start", "wait",
                "putData", "finish", "wait">>

ReadSteps == <<"addrWrite", "putReg", "wait", "start", "wait",
               "addrRead", "wait", "receive", "wait", "get">>

StepsOf(c) == IF call[c].kind = "write" THEN WriteSteps ELSE ReadSteps

At(c, name) == step[c] # 0 /\ StepsOf(c)[step[c]] = name

Advance(c) ==
    /\ IF step[c] < Len(StepsOf(c))
       THEN step' = [step EXCEPT ![c] = @ + 1] /\ UNCHANGED call
       ELSE step' = [step EXCEPT ![c] = 0] /\ call' = [call EXCEPT ![c] = NoCall]
    /\ solo' = solo \cap {c}
    /\ UNCHANGED calls

\* A sensor task reads or writes a register of its sensor.
Enter(c) ==
    /\ step[c] = 0
    /\ calls[c] < MaxCalls
    /\ \E k \in Call : call' = [call EXCEPT ![c] = k]
    /\ calls' = [calls EXCEPT ![c] = @ + 1]
    /\ step' = [step EXCEPT ![c] = 1]
    /\ solo' = IF Busy THEN {} ELSE {c}
    /\ UNCHANGED <<msa, mdr, xfer, bus, ptr, mem>>

\* I2CMasterSlaveAddrSet
AddrSet(c) ==
    /\ \/ At(c, "addrWrite") /\ msa' = [dev |-> c, dir |-> "W"]
       \/ At(c, "addrRead")  /\ msa' = [dev |-> c, dir |-> "R"]
    /\ Advance(c)
    /\ UNCHANGED <<mdr, xfer, bus, ptr, mem>>

\* I2CMasterDataPut
DataPut(c) ==
    /\ \/ At(c, "putReg")  /\ mdr' = call[c].reg
       \/ At(c, "putData") /\ mdr' = call[c].data
    /\ Advance(c)
    /\ UNCHANGED <<msa, xfer, bus, ptr, mem>>

\* Mutant: while (I2CMasterBusBusy(I2C0_BASE)), which a START without STOP keeps
\* true.
WaitBus(c) ==
    /\ At(c, "wait")
    /\ ~Busy
    /\ bus.dir = "idle"
    /\ Advance(c)
    /\ UNCHANGED <<msa, mdr, xfer, bus, ptr, mem>>

\* while (I2CMasterBusy(I2C0_BASE));
Wait(c) ==
    /\ At(c, "wait")
    /\ ~Busy
    /\ Advance(c)
    /\ UNCHANGED <<msa, mdr, xfer, bus, ptr, mem>>

\* I2CMasterControl.  The controller latches the address and the byte.  A
\* command written while it is executing another is dropped or takes its place.
Control(c) ==
    /\ \E cmd \in Commands :
          /\ At(c, cmd)
          /\ \/ xfer' = [cmd |-> cmd, addr |-> msa, byte |-> mdr]
             \/ Busy /\ UNCHANGED xfer
    /\ Advance(c)
    /\ UNCHANGED <<msa, mdr, bus, ptr, mem>>

\* I2CMasterDataGet, the value the call returns
DataGet(c) ==
    /\ At(c, "get")
    /\ Advance(c)
    /\ UNCHANGED <<msa, mdr, xfer, bus, ptr, mem>>

-----------------------------------------------------------------------------
(* The controller and the slaves.                                          *)

\* START, the address and one byte: the slave's register pointer is set, or a
\* register is read.  I2C_MASTER_CMD_SINGLE_RECEIVE has the command code of
\* SINGLE_SEND: the direction is that of the address register.
Addressed ==
    IF xfer.addr.dir = "W"
    THEN /\ ptr' = [ptr EXCEPT ![xfer.addr.dev] = xfer.byte]
         /\ UNCHANGED <<mdr, mem>>
    ELSE /\ mdr' = mem[xfer.addr.dev][ptr[xfer.addr.dev]]
         /\ UNCHANGED <<ptr, mem>>

\* One more byte to whoever the bus is addressed to, and STOP.
Finished ==
    /\ UNCHANGED ptr
    /\ \/ /\ bus.dir = "W"
          /\ mem' = [mem EXCEPT ![bus.dev][ptr[bus.dev]] = xfer.byte]
          /\ UNCHANGED mdr
       \/ /\ bus.dir = "R"
          /\ mdr' = mem[bus.dev][ptr[bus.dev]]
          /\ UNCHANGED mem
       \/ bus.dir = "idle" /\ UNCHANGED <<mdr, mem>>

Complete ==
    /\ Busy
    /\ IF xfer.cmd = "finish" THEN Finished ELSE Addressed
    /\ bus' = IF xfer.cmd = "start" THEN xfer.addr ELSE NoBus
    /\ xfer' = NoXfer
    /\ UNCHANGED <<driverVars, msa>>

-----------------------------------------------------------------------------
DriverStep(c) ==
    Enter(c) \/ AddrSet(c) \/ DataPut(c) \/ Wait(c) \/ Control(c) \/ DataGet(c)

Next == Complete \/ \E c \in Clients : DriverStep(c)

Spec == Init /\ [][Next]_vars

\* Both tasks are scheduled, and the controller finishes what it is told.
Fairness ==
    /\ WF_vars(Complete)
    /\ \A c \in Clients : WF_vars(step[c] # 0 /\ DriverStep(c))

-----------------------------------------------------------------------------
(* Properties                                                              *)

\* The value I2C0_Master_Read is about to return.
ReadReturns(c) == call[c].kind = "read" /\ At(c, "get")

\* I2C0_Master_Write is about to return.
WriteReturns(c) ==
    call[c].kind = "write" /\ step[c] = Len(WriteSteps) /\ ~Busy

ReadRight(c)  == ReadReturns(c) => mdr = mem[c][call[c].reg]
WriteRight(c) == WriteReturns(c) => mem[c][call[c].reg] = call[c].data

\* A call that begins while the controller executes no command, and into which
\* no other task steps, reads or writes the register it was asked for, even
\* when the other task is stopped half-way through a call of its own and has
\* left the bus addressed to the other slave.  (It is not enough that no other
\* task steps into the call: both functions fill the data register before their
\* first busy loop, and a receive still under way would overwrite it.)
SoloCallRight == \A c \in solo : ReadRight(c) /\ WriteRight(c)

\* "write the register to read from", "read from I2C register", "Master to slave
\* SLAVE_ADDR": a read returns the register it was asked for, and a write has
\* stored its byte in the register it was given, whatever the other task does.
CallsRight == \A c \in Clients : ReadRight(c) /\ WriteRight(c)

\* However the calls of the two tasks interleave, each of them returns: the
\* races can spoil the data but leave nobody in a busy loop.
CallsReturn == \A c \in Clients : step[c] # 0 ~> step[c] = 0

=============================================================================
