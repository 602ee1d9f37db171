-------------------------- MODULE TelemetryChannel --------------------------
(***************************************************************************)
(* What the telemetry path promises, whatever it is made of: sources       *)
(* produce numbered messages; each message is carried at most once, may be *)
(* lost on the way, and is never invented.  The sources in Ordered are     *)
(* moreover delivered first-in first-out; the others may overtake          *)
(* themselves and each other.                                              *)
(*                                                                         *)
(* This is an abstract specification: no line of the repository is         *)
(* translated here.  TivaPipeline (the microcontroller's tasks) and        *)
(* BBGServer (the BeagleBone's threads) implement it: see Channel in each. *)
(***************************************************************************)
EXTENDS Naturals, Sequences

CONSTANTS Sources,   \* who produces messages
          Ordered    \* those among them whose messages stay in order

VARIABLES produced,   \* produced[s]: how many messages s has produced
          inflight,   \* the messages accepted and neither delivered nor lost
          delivered   \* the messages that came out, in order

chanVars == <<produced, inflight, delivered>>

Message == [src : Sources, seq : Nat]

Init ==
    /\ produced = [s \in Sources |-> 0]
    /\ inflight = {}
    /\ delivered = <<>>

Produce(s) ==
    /\ produced' = [produced EXCEPT ![s] = @ + 1]
    /\ inflight' = inflight \cup {[src |-> s, seq |-> produced[s] + 1]}
    /\ UNCHANGED delivered

Lose ==
    /\ inflight' \subseteq inflight
    /\ UNCHANGED <<produced, delivered>>

\* An ordered source's message leaves only when no older one is still inside.
Deliver(m) ==
    /\ m.src \in Ordered =>
          \A o \in inflight : o.src = m.src => m.seq <= o.seq
    /\ delivered' = Append(delivered, m)
    /\ inflight' = inflight \ {m}
    /\ UNCHANGED produced

Next ==
    \/ \E s \in Sources : Produce(s)
    \/ Lose
    \/ \E m \in inflight : Deliver(m)

Spec == Init /\ [][Next]_chanVars

=============================================================================
