------------------------------ MODULE MCServer ------------------------------
(***************************************************************************)
(* The two builds of the BeagleBone's program side by side: USE_UART       *)
(* (BBGServer) and USE_SOCKET with the client on the Tiva (SocketBuild).   *)
(* A binary is one of them; the switch is in includes.h and common.h.      *)
(***************************************************************************)
EXTENDS BBGServer, SocketBuild

VARIABLE build

Readings(rgb, zx) == [i \in Slots |-> IF i = 0 THEN rgb ELSE zx]

\* Records cut on their way; a network that comes and goes and a Tiva that may
\* halt; one fault or another of the server; the ports of the two headers.
MCPlans ==
    {[port |-> 1000, ups |-> 1, readings |-> Readings(2, 0), fails |-> {"malloc"}],
     [port |-> 1000, ups |-> 2, readings |-> Readings(0, 1), fails |-> {"tiva"}],
     [port |-> 1000, ups |-> 1, readings |-> Readings(1, 0), fails |-> {"fopen"}],
     [port |-> 1000, ups |-> 1, readings |-> Readings(0, 1), fails |-> {"listen", "accept"}],
     [port |-> 10000, ups |-> 2, readings |-> Readings(1, 1), fails |-> Fails]}

MCInit ==
    /\ Init
    /\ SockInit
    /\ build \in {"USE_UART", "USE_SOCKET"}
    /\ build = "USE_UART" => plan.port = 10000

MCNext ==
    \/ build = "USE_UART" /\ Next /\ UNCHANGED <<build, sockVars>>
    \/ build = "USE_SOCKET" /\ SockNext /\ UNCHANGED <<build, vars>>

\* In each build the other one's processes are never started, so that their
\* fairness asks for nothing.
MCSpec ==
    /\ MCInit /\ [][MCNext]_<<vars, sockVars, build>>
    /\ WF_vars(ComTask) /\ WF_vars(TaskThread)
    /\ SockFairness
=============================================================================
