-------------------------------- MODULE MCIp --------------------------------
(***************************************************************************)
(* The scenarios in which Ip is checked.  "boot" is the stack as it starts; *)
(* "leased" the stack after a server has given it an address, computed by   *)
(* the handlers themselves.                                                *)
(***************************************************************************)
EXTENDS Ip

CONSTANTS s1, s2, a1, a2, v1, v2, h1, h2, m1, m2, w1, w2, n1, n2, n3, k1, k2

MCSockets == {s1, s2}
MCOnLink == {a1, a2, v1, v2, h1, h2}
MCServers == {v1, v2}
MCHosts == {h1, h2}
MCPool == (v1 :> {a1, a2}) @@ (v2 :> {a2})
\* h1 has changed its hardware, h2 may come to use what h1 used before.
MCMacs == (v1 :> {w1}) @@ (v2 :> {w2}) @@ (h1 :> {m1, m2}) @@ (h2 :> {m2})
\* v1 is no gateway: whoever leases from it may keep what v2 said of itself.
MCOptions == (v1 :> {{"dns"}}) @@ (v2 :> {{"gateway", "dns"}})
MCAnswerOf == (n1 :> {h1, h2, NoAddress}) @@ (n2 :> {v2}) @@ (n3 :> {v1})
\* n1 and n3 begin alike.
MCKept == (n1 :> k1) @@ (n2 :> k2) @@ (n3 :> k1)

RECURSIVE Handled(_)
Handled(n) ==
    LET c == [late |-> FALSE, due |-> FALSE, initialised |-> TRUE, sock |-> s1]
    IN IF n.evq = <<>> THEN n
       ELSE Handled(Handle([n EXCEPT !.evq = Tail(@)], Head(n.evq), c))

Received(n, frame) ==
    Handled([xSendEventStructToIPTask(n, [type |-> "rx", frame |-> frame]) EXCEPT !.free = @ - 1])

Discovering == Handled([FreeRTOS_NetworkDown(NetInit) EXCEPT !.ready = TRUE])
Requesting == Received(Discovering, DhcpReply(v1, w1, "offer", 1, a1, {"dns"}))
Leasing == Received(Requesting, DhcpReply(v1, w1, "ack", 1, a1, {"dns"}))

Unheard == [h \in Others |-> NoMac]
MCStarts ==
    [boot |-> [net |-> NetInit, pc |-> "start", heard |-> Unheard],
     leased |-> [net |-> Leasing, pc |-> "loop", heard |-> [Unheard EXCEPT ![v1] = w1]]]

Plan(start, calls, frames, number, timeouts, timers) ==
    [start |-> start, calls |-> calls, frames |-> frames, arrivals |-> number,
     lates |-> timeouts, timers |-> timers]

\* Two servers answer while timeouts make the client start again.
Booting == Plan("boot", <<>>, {"offer", "ack", "nack"}, 3, 2, {"dhcp"})
\* The lease is renewed, refused or given up while a socket sends.
Renewing == Plan("leased", <<[op |-> "socket", slot |-> 1], [op |-> "send", slot |-> 1, to |-> h1],
                             [op |-> "send", slot |-> 1, to |-> h1]>>,
                 {"offer", "ack", "nack"}, 2, 1, {"dhcp"})
\* Hosts come, go, and change their hardware addresses.
Neighbours == Plan("leased", <<[op |-> "ping", to |-> h1], [op |-> "ping", to |-> h2]>>,
                   {"arp reply", "gratuitous", "echo"}, 2, 0, {"arp"})
\* Datagrams for a socket that is bound, read and closed.
Datagrams == Plan("leased", <<[op |-> "socket", slot |-> 1],
                              [op |-> "bind", slot |-> 1, port |-> UserPort],
                              [op |-> "bind", slot |-> 1, port |-> UserPort],
                              [op |-> "recv", slot |-> 1],
                              [op |-> "socket", slot |-> 2],
                              [op |-> "bind", slot |-> 2, port |-> UserPort],
                              [op |-> "close", slot |-> 1],
                              [op |-> "close", slot |-> 2]>>,
                  {"data", "ping", "arp request", "other"}, 2, 0, {})
\* Names are looked up while late answers come in.
Lookups == Plan("leased", <<[op |-> "lookup", name |-> n1], [op |-> "lookup", name |-> n2],
                            [op |-> "lookup", name |-> n3]>>,
                {"dns"}, 3, 0, {})

MCPlans == {Booting, Renewing, Neighbours, Datagrams, Lookups}
=============================================================================
