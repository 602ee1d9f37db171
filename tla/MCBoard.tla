------------------------------ MODULE MCBoard ------------------------------
(***************************************************************************)
(* Two parts of the microcontroller's own program that share no state:     *)
(* main() with the heartbeat (MainBoot), and the I2C driver under its two  *)
(* callers (I2CMaster), one of them at a time.                             *)
(***************************************************************************)
EXTENDS MCI2CMaster, MainBoot

VARIABLE part

MCInit ==
    /\ Init
    /\ BootInit
    /\ part \in {"boot", "i2c"}

MCNext ==
    \/ part = "boot" /\ BootNext /\ UNCHANGED <<part, vars>>
    \/ part = "i2c" /\ Next /\ UNCHANGED <<part, bootAll>>

\* The processor executes main(), an unmasked interrupt is taken, HBTask is
\* scheduled; and so is what I2CMaster counts on.  Outside its part the I2C driver is
\* not called and the controller is idle, so that its fairness asks for nothing.
MCSpec ==
    /\ MCInit /\ [][MCNext]_<<vars, bootAll, part>>
    /\ Fairness
    /\ WF_bootAll(part = "boot" /\ Main)
    /\ WF_bootAll(part = "boot" /\ Interrupt)
    /\ WF_bootAll(part = "boot" /\ HBTask)
=============================================================================
