------------------------------ MODULE MCDriver ------------------------------
(***************************************************************************)
(* The Ethernet driver, which takes the queues and semaphores of the       *)
(* kernel for atomic, and those queues and semaphores, one at a time: what *)
(* the first rests on (NetDriver) is what the second is checked for        *)
(* (KernelQueue).                                                          *)
(***************************************************************************)
EXTENDS MCKernelQueue, NetDriver

VARIABLE part

\* A short frame for the stack and a longer one it refuses.
MCFrames == {[size |-> 1, keep |-> TRUE], [size |-> 3, keep |-> FALSE]}

MCInit ==
    /\ Init
    /\ DriverInit
    /\ part \in {"kernel", "driver"}
    \* The calls of the kernel's tasks do not matter to the driver.
    /\ part = "driver" => plan = Exchange

MCNext ==
    \/ part = "kernel" /\ Next /\ UNCHANGED <<part, driverVars>>
    \/ part = "driver" /\ DriverNext /\ UNCHANGED <<part, vars>>

MCSpec == MCInit /\ [][MCNext]_<<vars, driverVars, part>>
=============================================================================
