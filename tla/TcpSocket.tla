------------------------------ MODULE TcpSocket ------------------------------
(***************************************************************************)
(* The state of a TCP socket and what changes it: state changes, segments  *)
(* out, timers, and the creation and end of sockets.  FreeRTOS_TCP_IP.c    *)
(* and the TCP half of FreeRTOS_Sockets.c, as operators from the state n   *)
(* of a node to the next one.  The caller takes the segments out of n.out. *)
(* armed: usTimeout, off, about to be over ("soon") or not ("later").      *)
(*                                                                         *)
(* c: the choices of the environment in a step of the IP task: "late" (the *)
(* wait for an acknowledgement is over), "idle" (time for a keep-alive     *)
(* probe), "hung" (nothing has moved for ipconfigTCP_HANG_PROTECTION_TIME), *)
(* "miss" (the ARP cache does not know the peer), "poor" (no memory for a  *)
(* stream).                                                                *)
(*                                                                         *)
(* Network buffers are always there (NetDriver and Ip are about them), the *)
(* window that is advertised is not modelled, because a sender of this     *)
(* build does not look at it, and bReuseSocket, which the program does not *)
(* use, is left out.                                                       *)
(***************************************************************************)
EXTENDS TcpWindow, StreamRing

CONSTANTS Sockets, NoSocket, Nodes, NoNode,
          IsnStep,                 \* from one initial sequence number to the next
          RxLength, TxLength,      \* LENGTH of the streams
          LittleSpace, EnoughSpace \* when reception stops and goes on

ASSUME SocketAssumption ==
    /\ NoSocket \notin Sockets /\ NoNode \notin Nodes
    /\ RxLength > 1 /\ TxLength > 1
    /\ LittleSpace < EnoughSpace /\ EnoughSpace < RxLength

NoPort == 0
NoStream == NewRing(1)

\* FreeRTOS_socket: memory that was set to zero.  peer: pxPeerSocket, for a
\* listener the next socket to accept, for its child the listener.  last: what
\* matters of the flags in ucLastPacket.
Freed ==
    [used |-> FALSE, bound |-> FALSE, port |-> NoPort, remote |-> NoNode, rport |-> NoPort,
     state |-> "CLOSED", bits |-> {}, armed |-> "off", rep |-> 0, keep |-> 0,
     peer |-> NoSocket, children |-> 0, backlog |-> 0, passQueued |-> FALSE,
     passAccept |-> FALSE, prepared |-> FALSE, shut |-> FALSE, closeAfterSend |-> FALSE,
     closeRequested |-> FALSE, finSent |-> FALSE, finAcked |-> FALSE, finRecv |-> FALSE,
     finLast |-> FALSE, finAccepted |-> FALSE, winChange |-> FALSE, probe |-> FALSE,
     lowWater |-> FALSE, mallocError |-> FALSE, last |-> {},
     tx |-> NoStream, rx |-> NoStream, win |-> NewWindow]

FreeRTOS_socket(n, s) == [n EXCEPT !.socks[s] = [Freed EXCEPT !.used = TRUE]]
Unused(n) == {s \in Sockets : ~n.socks[s].used}

\* The order of enum eTCP_STATE.
Connected == {"ESTABLISHED", "FIN_WAIT_1", "FIN_WAIT_2", "CLOSING", "LAST_ACK", "TIME_WAIT"}
FromEstablished == Connected \cup {"CLOSE_WAIT"}
FromSynReceived == FromEstablished \cup {"SYN_RECEIVED"}

prvTCPSocketIsActive(state) ==
    state \notin {"CLOSED", "CLOSE_WAIT", "FIN_WAIT_2", "CLOSING", "TIME_WAIT"}

\* A new activity: the silence is over.
prvTCPTouchSocket(n, s) ==
    [n EXCEPT !.socks[s].probe = FALSE, !.socks[s].keep = 0]

-----------------------------------------------------------------------------
(* The end of a socket.                                                    *)

\* The socket that closes is still in the list: the first listener on its port that
\* has children has one less.
prvTCPSetSocketCount(n, s) ==
    LET parents == {p \in Sockets : /\ n.socks[p].bound /\ n.socks[p].state = "TCP_LISTEN"
                                    /\ n.socks[p].port = n.socks[s].port
                                    /\ n.socks[p].children > 0}
    IN IF parents = {} THEN n
       ELSE [n EXCEPT !.socks[CHOOSE p \in parents : TRUE].children = @ - 1]

\* Mutant: the listener still counts the socket.
CloseUncounted(n, s) == [n EXCEPT !.socks[s] = Freed]
vSocketClose(n, s) == [prvTCPSetSocketCount(n, s) EXCEPT !.socks[s] = Freed]

\* FreeRTOS_closesocket: the IP task does it.
FreeRTOS_closesocket(n, s) ==
    [n EXCEPT !.events = Append(@, [type |-> "close", sock |-> s])]

-----------------------------------------------------------------------------
(* State changes.                                                          *)

\* A connection that came in goes to the listener; its own user waits for the other.
EntersConnected(n, s) ==
    LET parent == n.socks[s].peer
    IN IF n.socks[s].passQueued
       THEN [n EXCEPT !.socks[parent].peer = IF @ = NoSocket THEN s ELSE @,
                      !.socks[parent].bits = @ \cup {"ACCEPT"},
                      !.socks[s].peer = NoSocket, !.socks[s].passQueued = FALSE,
                      !.socks[s].passAccept = TRUE]
       ELSE [n EXCEPT !.socks[s].bits = @ \cup {"CONNECT"}]

\* Mutant: nobody is told that the connection is over.
LeavesSilently(n, s) ==
    [n EXCEPT !.socks[s].armed = IF prvTCPSocketIsActive(n.socks[s].state) THEN @ ELSE "off"]
LeavesConnected(n, s) ==
    [n EXCEPT !.socks[s].bits = @ \cup {"CLOSED"},
              !.socks[s].armed = IF prvTCPSocketIsActive(n.socks[s].state) THEN @ ELSE "off"]

\* Nobody knows a connection that was refused before it was there.
NeverConnected(n, s, state) ==
    IF state = "CLOSED" /\ (n.socks[s].passQueued \/ n.socks[s].passAccept)
    THEN FreeRTOS_closesocket(n, s) ELSE n

vTCPStateChange(n, s, state) ==
    LET before == n.socks[s].state \in Connected
        after == state \in Connected
        told == IF before = after THEN NeverConnected(n, s, state)
                ELSE IF after THEN EntersConnected(n, s) ELSE LeavesConnected(n, s)
    IN prvTCPTouchSocket([told EXCEPT !.socks[s].state = state], s)

\* Streams are made when they are first used.
prvTCPCreateStream(n, s, field, length, poor) ==
    IF n.socks[s][field].length > 1 THEN n
    ELSE IF poor
    THEN vTCPStateChange([n EXCEPT !.socks[s].mallocError = TRUE], s, "CLOSE_WAIT")
    ELSE [n EXCEPT !.socks[s][field] = NewRing(length)]

-----------------------------------------------------------------------------
(* Segments out.                                                           *)

Segment(n, s, seq, flags, data) ==
    LET sock == n.socks[s]
    IN [src |-> n.self, sport |-> sock.port, dst |-> sock.remote, dport |-> sock.rport,
        seq |-> seq, ack |-> sock.win.rxCur, flags |-> flags, data |-> data]

\* A probe asks for an answer with a number that was used.  FIN goes with the last
\* byte only; a probe's flags are left alone.
FinKept(n, s, flags, data) ==
    LET w == n.socks[s].win
    IN IF n.socks[s].probe \/ Plus(w.our, Len(data)) = w.txFin THEN flags ELSE flags \ {"FIN"}

prvTCPReturnPacket(n, s, flags, data) ==
    LET w == n.socks[s].win
        seq == IF n.socks[s].probe THEN Minus(w.our, 1) ELSE w.our
    IN [n EXCEPT !.out = Append(@, Segment(n, s, seq, FinKept(n, s, flags, data), data)),
                 !.socks[s].winChange = FALSE, !.socks[s].probe = FALSE]

\* Without a socket: the segment turned round.
prvTCPSendReset(n, f) ==
    [n EXCEPT !.out = Append(@, [src |-> f.dst, sport |-> f.dport, dst |-> f.src,
                                 dport |-> f.sport, seq |-> f.ack, ack |-> f.seq,
                                 flags |-> {"RST", "ACK"}, data |-> <<>>])]

\* What the stream has beyond mid goes into the segment, if that is empty.
prvTCPAddTxData(n, s) ==
    LET tx == n.socks[s].tx
        space == uxStreamBufferMidSpace(tx)
    IN [n EXCEPT !.socks[s].win = lTCPWindowTxAdd(@, space, tx.mid),
                 !.socks[s].tx = vStreamBufferMoveMid(@, TxAddLength(n.socks[s].win, space))]

\* What may be sent of the data now.  p: the node, the data and the flags to send.
ToSend(n, s, flags, late) ==
    LET sock == n.socks[s]
        offset == uxStreamBufferDistance(sock.tx, sock.tx.tail, sock.win.seg.pos)
        none == [node |-> n, flags |-> flags \cup {"ACK"}, data |-> <<>>, error |-> FALSE,
                 send |-> FALSE]
    IN IF sock.tx # NoStream /\ TxMayGo(sock.win, late)
       THEN [none EXCEPT !.data = PeekRing(sock.tx, offset, sock.win.seg.length),
                         !.node.socks[s].win = ulTCPWindowTxGet(@, late)]
       ELSE none

\* FIN goes with the last data when the user asked for that.
FinWithData(p, s) ==
    LET sock == p.node.socks[s]
        last == uxStreamBufferDistance(sock.tx, sock.win.seg.pos, sock.tx.head) = Len(p.data)
    IN IF p.data # <<>> /\ sock.closeRequested /\ ~sock.finSent /\ last
       THEN [p EXCEPT !.node.socks[s].finSent = TRUE, !.flags = @ \cup {"FIN"},
                      !.node.socks[s].win.txFin = Plus(sock.win.our, Len(p.data))]
       ELSE p

\* FIN goes alone when the user has shut down and everything is acknowledged.
FinAfterShutdown(p, s) ==
    LET sock == p.node.socks[s]
        sent == [p EXCEPT !.node.socks[s].shut = FALSE, !.node.socks[s].finSent = TRUE,
                          !.node.socks[s].winChange = TRUE, !.flags = @ \cup {"FIN"},
                          !.node.socks[s].win.txFin = sock.win.txCur]
    IN IF sock.state = "ESTABLISHED" /\ sock.shut /\ xTCPWindowTxDone(sock.win)
       THEN [sent EXCEPT !.node = vTCPStateChange(@, s, "FIN_WAIT_1")] ELSE p

\* A peer that did not answer four probes is gone, and an error takes the place of the
\* data; one that is silent is probed.
KeepAlive(p, s, open, idle) ==
    LET sock == p.node.socks[s]
    IN IF ~open THEN p
       ELSE IF sock.keep > 3
       THEN [p EXCEPT !.node = vTCPStateChange(@, s, "CLOSE_WAIT"), !.data = <<>>, !.error = TRUE]
       ELSE IF p.data = <<>> /\ ~sock.winChange /\ idle
       THEN [p EXCEPT !.node.socks[s].probe = TRUE, !.node.socks[s].armed = "later",
                      !.node.socks[s].keep = @ + 1]
       ELSE p

\* Whether there is a reason to send.
HasReason(p, s) ==
    LET send == p.data # <<>> \/ p.node.socks[s].winChange \/ p.node.socks[s].probe
        push == IF p.data # <<>> \/ p.error THEN {"PSH"} ELSE {}
    IN [p EXCEPT !.send = send, !.flags = IF send THEN (@ \ {"PSH"}) \cup push ELSE @]

prvTCPPrepareSend(n, s, flags, c) ==
    LET open == n.socks[s].state = "ESTABLISHED"
    IN HasReason(KeepAlive(FinAfterShutdown(FinWithData(ToSend(n, s, flags, c = "late"), s), s),
                           s, open, c = "idle"), s)

\* The packet without data is the last segment that came in, and keeps what is done to
\* its flags.
Sent(n, s, p) ==
    LET kept == IF p.data # <<>> THEN n.socks[s].last \cup {"ACK"}
                ELSE IF p.send THEN FinKept(p.node, s, p.flags, p.data) ELSE p.flags
        node == [p.node EXCEPT !.socks[s].last = kept]
    IN IF p.send THEN prvTCPReturnPacket(node, s, p.flags, p.data) ELSE node

\* Data go once: a second turn finds them sent.  It may have to send a probe.
SecondTurn(n, s, p, c) ==
    IF p.send /\ c = "idle" /\ ~p.node.socks[s].probe
    THEN Sent(n, s, prvTCPPrepareSend(n, s, n.socks[s].last, c)) ELSE n
FirstTurn(n, s, p, c) == SecondTurn(Sent(n, s, p), s, p, c)

\* The flags start from those of the last segment that came in.
prvTCPSendRepeated(n, s, c) ==
    FirstTurn(n, s, prvTCPPrepareSend(n, s, n.socks[s].last, c), c)

-----------------------------------------------------------------------------
(* A connection that is opened.                                            *)

prvTCPCreateWindow(n, s) ==
    [n EXCEPT !.socks[s].win = vTCPWindowCreate(@, n.socks[s].win.rxCur, n.socks[s].win.our),
              !.isn = Plus(@, IsnStep)]

prvTCPPrepareConnect(n, s, miss) ==
    IF miss THEN [n EXCEPT !.socks[s].rep = @ + 1]
    ELSE prvTCPCreateWindow([n EXCEPT !.socks[s].rep = 0, !.socks[s].prepared = TRUE,
                                      !.socks[s].last = {"SYN"},
                                      !.socks[s].win.rxCur = 0, !.socks[s].win.our = n.isn], s)

\* Three requests without an answer are enough.
SendSyn(n, s, miss) ==
    LET ready == IF n.socks[s].prepared THEN n ELSE prvTCPPrepareConnect(n, s, miss)
    IN IF n.socks[s].rep >= 3 THEN vTCPStateChange(n, s, "CLOSE_WAIT")
       ELSE IF ~ready.socks[s].prepared THEN ready
       ELSE prvTCPReturnPacket([ready EXCEPT !.socks[s].rep = @ + 1], s, {"SYN"}, <<>>)

prvTCPSendPacket(n, s, c) ==
    IF n.socks[s].state = "CONNECT_SYN" THEN SendSyn(n, s, c = "miss")
    ELSE prvTCPSendRepeated(n, s, c)

-----------------------------------------------------------------------------
(* The timer of a socket.                                                  *)

\* A time to wait, unless somebody has set the timer to go off at once.  While the
\* address of the peer is looked up the wait is for nothing that could be late.
prvTCPNextTimeout(n, s) ==
    LET opening == n.socks[s].state = "CONNECT_SYN"
    IN [n EXCEPT !.socks[s].armed = IF opening /\ ~n.socks[s].prepared THEN "soon"
                                    ELSE IF opening \/ @ = "off" THEN "later" ELSE @]

\* A socket that is neither open nor closed for too long ends; one that nobody has
\* been told of is freed.
prvTCPStatusAgeCheck(n, s, hung) ==
    LET ended == vTCPStateChange(n, s, "CLOSE_WAIT")
    IN IF ~hung \/ n.socks[s].state \in {"ESTABLISHED", "CLOSED", "TCP_LISTEN", "CLOSE_WAIT"}
       THEN n
       ELSE IF n.socks[s].passQueued THEN vSocketClose(ended, s) ELSE ended

xTCPSocketCheck(n, s, c) ==
    LET sock == n.socks[s]
        added == IF sock.state \in FromEstablished /\ sock.tx # NoStream
                 THEN prvTCPAddTxData(n, s) ELSE n
        sent == IF sock.state \in FromEstablished \cup {"CONNECT_SYN"}
                THEN prvTCPSendPacket(added, s, c) ELSE added
    IN prvTCPStatusAgeCheck(prvTCPNextTimeout(sent, s), s, c = "hung")
=============================================================================
