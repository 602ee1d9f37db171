--------------------------------- MODULE Tcp ---------------------------------
(***************************************************************************)
(* Two nodes with this stack: a client and a server, an application task   *)
(* on each, and a network.  It delivers in order; by a fault a segment or  *)
(* a copy of one goes astray and is delivered at any time later, or never. *)
(* The IP task has a higher priority than the applications, so what it     *)
(* does with a segment, a timer or an event is one step; an application is *)
(* interrupted between any two looks at a socket.                          *)
(*                                                                         *)
(* A plan, chosen at the start, says what the applications call, which     *)
(* faults happen and how many of them.  Without a fault ("none") a timer   *)
(* goes off only when it was set to go off at once.                        *)
(***************************************************************************)
EXTENDS TcpInput

CONSTANTS Client, Server, ServerPort,
          RecvMax, \* how much an application asks for
          Plans    \* [calls, kinds, faults, isn]

ASSUME TcpAssumption == Nodes = {Client, Server} /\ Client # Server /\ ServerPort > 10

VARIABLES plan,
          node,    \* the stack of a node
          app,     \* its application task
          net,     \* the segments on their way to a node, in order
          strays,  \* those that went astray
          faults,  \* how many faults there were
          put, got, acked, ended   \* history: see BytePipe

vars == <<plan, node, app, net, strays, faults, put, got, acked, ended>>

Slots == 1 .. 3

\* The client's ports are 1 and 2.  Stream p comes from its port p, 5 + p goes there.
Ports == {1, 2}
Streams == Ports \cup {5 + p : p \in Ports}
StreamFrom(nd, sock) == IF nd = Client THEN sock.port ELSE 5 + sock.rport
StreamTo(nd, sock) == IF nd = Client THEN 5 + sock.port ELSE sock.rport

Pipe == INSTANCE BytePipe

NodeInit(nd, isn) ==
    [self |-> nd, socks |-> [s \in Sockets |-> Freed], isn |-> isn, events |-> <<>>,
     nextPort |-> 1, out |-> <<>>]

AppInit == [pc |-> "idle", step |-> 1, slot |-> [i \in Slots |-> NoSocket], left |-> 0, seen |-> 0]

Init ==
    /\ plan \in Plans
    /\ node = [nd \in Nodes |-> NodeInit(nd, plan.isn[nd])]
    /\ app = [nd \in Nodes |-> AppInit]
    /\ net = [nd \in Nodes |-> <<>>] /\ strays = {} /\ faults = 0
    /\ Pipe!Init

Fault(kind) ==
    /\ kind = "none" \/ (kind \in plan.kinds /\ faults < plan.faults)
    /\ faults' = IF kind = "none" THEN faults ELSE faults + 1

-----------------------------------------------------------------------------
(* History: what a step of a stack did to the bytes of its connections.    *)

\* Whether a socket has taken the FIN of its peer.
Ended(sock) == sock.finRecv /\ sock.win.rxCur = Plus(sock.win.rxFin, 1)

Receivers(nd, i) == {s \in Sockets : node'[nd].socks[s].used /\ node'[nd].socks[s].rport # NoPort
                                     /\ StreamTo(nd, node'[nd].socks[s]) = i}
Senders(nd, i) == {s \in Sockets : node'[nd].socks[s].used /\ node'[nd].socks[s].rport # NoPort
                                   /\ StreamFrom(nd, node'[nd].socks[s]) = i}

\* The bytes socket s took in.
TookIn(nd, s) ==
    LET before == node[nd].socks[s].rx.head
        rx == node'[nd].socks[s].rx
        count == uxStreamBufferDistance(rx, before, rx.head)
    IN [k \in 1 .. count |-> rx.cells[(before + k - 1) % rx.length]]
\* How many bytes of it were confirmed.
Confirmed(nd, s) ==
    LET tx == node'[nd].socks[s].tx
    IN uxStreamBufferDistance(tx, node[nd].socks[s].tx.tail, tx.tail)

RecordsMoves(nd) ==
    /\ put' = put
    /\ got' = [i \in Streams |-> IF Receivers(nd, i) = {} THEN got[i]
                                 ELSE got[i] \o TookIn(nd, CHOOSE s \in Receivers(nd, i) : TRUE)]
    /\ acked' = [i \in Streams |-> IF Senders(nd, i) = {} THEN acked[i]
                                   ELSE acked[i] + Confirmed(nd, CHOOSE s \in Senders(nd, i) : TRUE)]
    /\ ended' = [i \in Streams |->
                     ended[i] \/ \E s \in Receivers(nd, i) : Ended(node'[nd].socks[s])]

NoMoves == UNCHANGED <<put, got, acked, ended>>

\* The state of a node, with what it sends gone to the network "lines".
Becomes(nd, n, lines) ==
    /\ node' = [node EXCEPT ![nd] = [n EXCEPT !.out = <<>>]]
    /\ net' = [to \in Nodes |-> lines[to] \o SelectSeq(n.out, LAMBDA f : f.dst = to)]

-----------------------------------------------------------------------------
(* The IP task, and the network.                                           *)

Takes(nd, f, lines, kind) ==
    /\ Becomes(nd, xProcessReceivedTCPPacket(node[nd], f, kind), lines)
    /\ RecordsMoves(nd)
    /\ UNCHANGED <<plan, app>>

Rest(nd) == [net EXCEPT ![nd] = Tail(@)]

\* A segment comes; a copy of it may go astray.
Receives(nd, kind) ==
    /\ net[nd] # <<>> /\ Fault(kind)
    /\ strays' = IF kind = "twice" THEN strays \cup {Head(net[nd])} ELSE strays
    /\ Takes(nd, Head(net[nd]), Rest(nd), kind)
ReceivesStray(nd, f) ==
    /\ f \in strays /\ f.dst = nd
    /\ strays' = strays \ {f}
    /\ Takes(nd, f, net, "none")
    /\ faults' = faults
GoesAstray(nd) ==
    /\ net[nd] # <<>> /\ Fault("stray")
    /\ strays' = strays \cup {Head(net[nd])} /\ net' = Rest(nd)
    /\ NoMoves /\ UNCHANGED <<plan, node, app>>

\* xTCPTimerCheck: the time of a socket is over.
xTCPTimerCheck(nd, s, kind) ==
    /\ node[nd].socks[s].bound
    /\ node[nd].socks[s].armed \in {"soon"} \cup IF kind \in {"none", "miss"} THEN {} ELSE {"later"}
    /\ Fault(kind)
    /\ Becomes(nd, xTCPSocketCheck([node[nd] EXCEPT !.socks[s].armed = "off"], s, kind), net)
    /\ RecordsMoves(nd)
    /\ UNCHANGED <<plan, app, strays>>

\* A socket that was accepted while another one was waiting: tell the listener.
xTCPCheckNewClient(n, p) ==
    LET waiting == {s \in Sockets : n.socks[s].bound /\ n.socks[s].port = n.socks[p].port
                                    /\ n.socks[s].passAccept}
    IN IF waiting = {} THEN n
       ELSE [n EXCEPT !.socks[p].peer = CHOOSE s \in waiting : TRUE,
                      !.socks[p].bits = @ \cup {"ACCEPT"}]

HandleEvent(n, e) ==
    LET rest == [n EXCEPT !.events = Tail(@)]
    IN IF e.type = "close" THEN vSocketClose(rest, e.sock) ELSE xTCPCheckNewClient(rest, e.sock)

Handles(nd) ==
    /\ node[nd].events # <<>>
    /\ node' = [node EXCEPT ![nd] = HandleEvent(@, Head(@.events))]
    /\ NoMoves /\ UNCHANGED <<plan, app, net, strays, faults>>

-----------------------------------------------------------------------------
(* The applications.                                                       *)

Call(nd) == plan.calls[nd][app[nd].step]
Sock(nd) == app[nd].slot[Call(nd).slot]
State(nd) == node[nd].socks[Sock(nd)]

\* The IP task has the higher priority: what an application gave it is done first.
IpTaskSleeps(nd) ==
    node[nd].events = <<>> /\ \A s \in Sockets : node[nd].socks[s].armed # "soon"

Calls(nd, op) ==
    /\ IpTaskSleeps(nd) /\ app[nd].pc = "idle"
    /\ app[nd].step <= Len(plan.calls[nd]) /\ Call(nd).op = op
In(nd, pc) == IpTaskSleeps(nd) /\ app[nd].pc = pc

Done(a) == [a EXCEPT !.pc = "idle", !.step = @ + 1]
Goes(nd, pc) == app' = [app EXCEPT ![nd].pc = pc]
Returns(nd) == app' = [app EXCEPT ![nd] = Done(@)]
Sets(nd, n) == node' = [node EXCEPT ![nd] = n] /\ UNCHANGED <<plan, net, strays>>
Keeps(nd) == UNCHANGED <<plan, node, net, strays>> /\ NoMoves
NoFault == faults' = faults

\* Waits until one of the bits is set, and clears them.
WaitBits(nd, bits) ==
    /\ State(nd).bits \cap bits # {}
    /\ Sets(nd, [node[nd] EXCEPT !.socks[Sock(nd)].bits = @ \ bits])

CallConnect(nd) ==
    LET n == node[nd]
        s == CHOOSE s \in Unused(n) : TRUE
        bound == [FreeRTOS_socket(n, s) EXCEPT
                     !.socks[s].bound = TRUE, !.socks[s].port = n.nextPort, !.nextPort = @ + 1,
                     !.socks[s].remote = Server, !.socks[s].rport = ServerPort]
    IN /\ Calls(nd, "connect") /\ Unused(n) # {}
       /\ Sets(nd, [vTCPStateChange(bound, s, "CONNECT_SYN") EXCEPT !.socks[s].armed = "soon"])
       /\ app' = [app EXCEPT ![nd].slot[Call(nd).slot] = s, ![nd].pc = "connect"]
       /\ NoMoves /\ NoFault

\* FreeRTOS_connect: connected, or asleep until the timeout.  A client whose
\* connect fails stops.
Connects(nd) ==
    /\ In(nd, "connect")
    /\ State(nd).state \in Connected
    /\ Returns(nd) /\ Keeps(nd) /\ NoFault
ConnectWakes(nd) ==
    /\ In(nd, "connect") /\ State(nd).state \notin Connected
    /\ WaitBits(nd, {"CONNECT"})
    /\ UNCHANGED app /\ NoMoves /\ NoFault
ConnectTimesOut(nd) ==
    /\ In(nd, "connect") /\ State(nd).state \notin Connected
    /\ Fault("timeout")
    /\ Goes(nd, "stopped") /\ Keeps(nd)

CallListen(nd) ==
    LET n == node[nd]
        s == CHOOSE s \in Unused(n) : TRUE
        bound == [FreeRTOS_socket(n, s) EXCEPT !.socks[s].bound = TRUE, !.socks[s].port = ServerPort,
                                               !.socks[s].backlog = Call(nd).backlog]
    IN /\ Calls(nd, "listen") /\ Unused(n) # {}
       /\ Sets(nd, vTCPStateChange(bound, s, "TCP_LISTEN"))
       /\ app' = [app EXCEPT ![nd] = [Done(@) EXCEPT !.slot[Call(nd).slot] = s]]
       /\ NoMoves /\ NoFault

\* FreeRTOS_accept: takes the socket that waits, and asks for the next one.
Accept(nd) ==
    LET n == node[nd]
        p == app[nd].slot[Call(nd).from]
        s == n.socks[p].peer
        found == s # NoSocket /\ n.socks[s].passAccept
        taken == [n EXCEPT !.socks[p].peer = NoSocket, !.socks[s].passAccept = FALSE,
                           !.events = Append(@, [type |-> "accept", sock |-> p])]
    IN /\ Calls(nd, "accept") \/ In(nd, "accept")
       /\ IF found
          THEN /\ Sets(nd, taken)
               /\ app' = [app EXCEPT ![nd] = [Done(@) EXCEPT !.slot[Call(nd).slot] = s]]
          ELSE /\ Sets(nd, [n EXCEPT !.socks[p].peer = NoSocket])
               /\ Goes(nd, "accept wait")
       /\ NoMoves /\ NoFault
AcceptWakes(nd) ==
    LET p == app[nd].slot[Call(nd).from]
    IN /\ In(nd, "accept wait") /\ "ACCEPT" \in node[nd].socks[p].bits
       /\ Sets(nd, [node[nd] EXCEPT !.socks[p].bits = @ \ {"ACCEPT"}])
       /\ Goes(nd, "accept")
       /\ NoMoves /\ NoFault

\* FreeRTOS_send.
prvTCPSendCheck(sock) == ~sock.mallocError /\ sock.state # "CLOSED" /\ ~sock.finSent

CallSend(nd, poor) ==
    LET made == prvTCPCreateStream(node[nd], Sock(nd), "tx", TxLength, poor)
    IN /\ Calls(nd, "send")
       /\ Fault(IF poor THEN "poor" ELSE "none")
       /\ IF prvTCPSendCheck(State(nd)) /\ made.socks[Sock(nd)].tx # NoStream
          THEN app' = [app EXCEPT ![nd].pc = "send", ![nd].left = Call(nd).count]
          ELSE Returns(nd)
       /\ Sets(nd, IF prvTCPSendCheck(State(nd)) THEN made ELSE node[nd])
       /\ NoMoves

\* As much as fits; the rest waits for room.
Sends(nd) ==
    LET s == Sock(nd)
        i == StreamFrom(nd, State(nd))
        count == Min({uxStreamBufferGetSpace(State(nd).tx), app[nd].left})
        bytes == [k \in 1 .. count |-> Pipe!Byte(i, put[i] + k)]
    IN /\ In(nd, "send")
       /\ IF count > 0
          THEN Sets(nd, [node[nd] EXCEPT !.socks[s].tx = uxStreamBufferAdd(@, bytes),
                                         !.socks[s].armed = "soon",
                                         !.socks[s].closeRequested =
                                             \/ @
                                             \/ State(nd).closeAfterSend
                                                /\ count = app[nd].left])
          ELSE UNCHANGED <<plan, node, net, strays>>
       /\ app' = [app EXCEPT ![nd] = IF count = @.left THEN [Done(@) EXCEPT !.left = 0]
                                     ELSE [@ EXCEPT !.pc = "send wait", !.left = @ - count]]
       /\ put' = [put EXCEPT ![i] = @ + count]
       /\ UNCHANGED <<got, acked, ended>> /\ NoFault
SendWakes(nd) ==
    /\ In(nd, "send wait")
    /\ WaitBits(nd, {"SEND", "CLOSED"})
    /\ Goes(nd, "send") /\ NoMoves /\ NoFault
SendTimesOut(nd) ==
    /\ In(nd, "send wait")
    /\ Fault("timeout")
    /\ app' = [app EXCEPT ![nd] = [Done(@) EXCEPT !.left = 0]] /\ Keeps(nd)

\* A reader that finds no data gets an error.
Over == {"CLOSED", "CLOSE_WAIT", "CLOSING"}

\* FreeRTOS_recv: looks at the stream, then at the state.
CallRecv(nd) ==
    /\ Calls(nd, "recv") \/ Calls(nd, "drain") \/ In(nd, "recv")
    /\ app' = [app EXCEPT ![nd].pc = "recv look", ![nd].seen = uxStreamBufferGetSize(State(nd).rx)]
    /\ Keeps(nd) /\ NoFault

\* An application that drains calls again until there is an error.
Drained(nd, a) == IF Call(nd).op = "drain" THEN [a EXCEPT !.pc = "recv"] ELSE Done(a)

RecvTakes(nd) ==
    LET s == Sock(nd)
    IN /\ In(nd, "recv look") /\ app[nd].seen > 0
       /\ Sets(nd, [node[nd] EXCEPT !.socks[s].rx = uxStreamBufferGet(@, RecvMax)])
       /\ app' = [app EXCEPT ![nd].pc = "recv room", ![nd].seen = 0]
       /\ NoMoves /\ NoFault

\* Room again after the low-water mark: the peer is to be told.  bLowWater and
\* bWinChange are read, changed and written back in one step, as are all flags of the
\* application: they share a word with flags of the IP task, and the code takes no lock.
RecvMakesRoom(nd) ==
    LET s == Sock(nd)
        enough == State(nd).lowWater /\ uxStreamBufferGetSpace(State(nd).rx) >= EnoughSpace
    IN /\ In(nd, "recv room")
       /\ Sets(nd, [node[nd] EXCEPT !.socks[s].lowWater = @ /\ ~enough,
                                    !.socks[s].winChange = @ \/ enough,
                                    !.socks[s].armed = IF enough THEN "soon" ELSE @])
       /\ app' = [app EXCEPT ![nd] = Drained(nd, @)]
       /\ NoMoves /\ NoFault

RecvFails(nd) ==
    /\ In(nd, "recv look") /\ app[nd].seen = 0
    /\ State(nd).state \in Over
    /\ Returns(nd) /\ Keeps(nd) /\ NoFault
RecvSleeps(nd) ==
    /\ In(nd, "recv look") /\ app[nd].seen = 0
    /\ State(nd).state \notin Over
    /\ Goes(nd, "recv wait") /\ Keeps(nd) /\ NoFault
RecvWakes(nd) ==
    /\ In(nd, "recv wait")
    /\ WaitBits(nd, {"RECEIVE", "CLOSED"})
    /\ Goes(nd, "recv") /\ NoMoves /\ NoFault
RecvTimesOut(nd) ==
    /\ In(nd, "recv wait")
    /\ Fault("timeout")
    /\ Returns(nd) /\ Keeps(nd)

\* Only an established connection can be shut down.  bUserShutdown shares its word too.
CallShutdown(nd) ==
    LET open == State(nd).state = "ESTABLISHED"
    IN /\ Calls(nd, "shutdown")
       /\ Sets(nd, [node[nd] EXCEPT !.socks[Sock(nd)].shut = @ \/ open,
                                    !.socks[Sock(nd)].armed = IF open THEN "soon" ELSE @])
       /\ Returns(nd) /\ NoMoves /\ NoFault

\* FREERTOS_SO_CLOSE_AFTER_SEND.
CallOption(nd) ==
    /\ Calls(nd, "close after send")
    /\ Sets(nd, [node[nd] EXCEPT !.socks[Sock(nd)].closeAfterSend = TRUE])
    /\ Returns(nd) /\ NoMoves /\ NoFault

CallClose(nd) ==
    /\ Calls(nd, "close")
    /\ Sets(nd, FreeRTOS_closesocket(node[nd], Sock(nd)))
    /\ app' = [app EXCEPT ![nd] = [Done(@) EXCEPT !.slot[Call(nd).slot] = NoSocket]]
    /\ NoMoves /\ NoFault

-----------------------------------------------------------------------------

IpTask(nd) ==
    \/ \E kind \in {"none", "late", "poor", "twice"} : Receives(nd, kind)
    \/ \E f \in strays : ReceivesStray(nd, f)
    \/ GoesAstray(nd)
    \/ \E s \in Sockets, kind \in {"none", "late", "idle", "hung", "miss"} :
           xTCPTimerCheck(nd, s, kind)
    \/ Handles(nd)

Application(nd) ==
    \/ CallConnect(nd) \/ Connects(nd) \/ ConnectWakes(nd) \/ ConnectTimesOut(nd)
    \/ CallListen(nd) \/ Accept(nd) \/ AcceptWakes(nd)
    \/ (\E poor \in BOOLEAN : CallSend(nd, poor)) \/ Sends(nd) \/ SendWakes(nd) \/ SendTimesOut(nd)
    \/ CallRecv(nd) \/ RecvTakes(nd) \/ RecvMakesRoom(nd) \/ RecvFails(nd) \/ RecvSleeps(nd)
    \/ RecvWakes(nd) \/ RecvTimesOut(nd)
    \/ CallShutdown(nd) \/ CallOption(nd) \/ CallClose(nd)

Next == \E nd \in Nodes : IpTask(nd) \/ Application(nd)

Spec == Init /\ [][Next]_vars

-----------------------------------------------------------------------------

\* Each direction of each connection is a pipe of bytes.
PipeSpec == Pipe!Spec

Closing(n, s) == \E i \in DOMAIN n.events : n.events[i] = [type |-> "close", sock |-> s]

Kept(nd, s) ==
    LET n == node[nd]
        sock == n.socks[s]
        children(p) == {c \in Sockets : n.socks[c].bound /\ n.socks[c].port = n.socks[p].port} \ {p}
        held == \E i \in Slots : app[nd].slot[i] = s
        owners == {i \in 1 .. 3 : <<held, sock.passQueued, sock.passAccept>>[i]}
    IN /\ ~sock.used => sock = Freed /\ owners = {} /\ ~Closing(n, s)
       /\ sock.used => Cardinality(owners) = 1 \/ (owners = {} /\ Closing(n, s))
       /\ sock.state = "TCP_LISTEN" =>
              /\ sock.children = Cardinality(children(s)) /\ sock.children <= sock.backlog
              /\ sock.peer # NoSocket => sock.peer \in children(s)
       /\ sock.passQueued => n.socks[sock.peer].state = "TCP_LISTEN" /\ s \in children(sock.peer)
       /\ sock.bound /\ sock.rport # NoPort =>
              \A c \in Sockets \ {s} : n.socks[c].bound =>
                  <<sock.port, sock.remote, sock.rport>> #
                      <<n.socks[c].port, n.socks[c].remote, n.socks[c].rport>>

\* Sockets are neither lost nor used after their end: each has one owner, the
\* application, a handshake that goes on, the listener that offers it or the event that
\* frees it; a listener has as many children as it counts; a segment is for one socket.
SocketsKept == \A nd \in Nodes, s \in Sockets : Kept(nd, s)

\* No application sleeps over something that happened: bytes or the end of the
\* connection for a reader, room for a writer, a connection to accept.
NobodyWaitsInVain ==
    \A nd \in Nodes :
        /\ In(nd, "recv wait") =>
               \/ State(nd).bits \cap {"RECEIVE", "CLOSED"} # {}
               \/ uxStreamBufferGetSize(State(nd).rx) = 0 /\ State(nd).state \notin Over
        /\ In(nd, "send wait") =>
               "SEND" \in State(nd).bits \/ uxStreamBufferGetSpace(State(nd).tx) = 0
        /\ In(nd, "accept wait") =>
               LET p == app[nd].slot[Call(nd).from]
               IN \/ "ACCEPT" \in node[nd].socks[p].bits
                  \/ \A s \in Sockets : ~node[nd].socks[s].passAccept
=============================================================================
