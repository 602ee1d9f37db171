------------------------------ MODULE TcpInput ------------------------------
(***************************************************************************)
(* A TCP segment that came in: xProcessReceivedTCPPacket of                *)
(* FreeRTOS_TCP_IP.c and everything it calls.  An answer goes out in the   *)
(* buffer of the segment, with the flags the handlers put there.           *)
(***************************************************************************)
EXTENDS TcpSocket

\* ipTCP_FLAG_CTRL is all flags of the model; 0x17 leaves PSH out.
Control(f) == f.flags \ {"PSH"}

\* Whom a segment is for: the socket of that connection, else a listener.
pxTCPSocketLookup(n, f) ==
    LET here == {s \in Sockets : n.socks[s].bound /\ n.socks[s].port = f.dport}
        exact == {s \in here : /\ n.socks[s].state # "TCP_LISTEN"
                               /\ n.socks[s].remote = f.src /\ n.socks[s].rport = f.sport}
        listeners == {s \in here : n.socks[s].state = "TCP_LISTEN"}
    IN IF exact # {} THEN CHOOSE s \in exact : TRUE
       ELSE IF listeners # {} THEN CHOOSE s \in listeners : TRUE ELSE NoSocket

-----------------------------------------------------------------------------
(* A connection that comes in.                                             *)

\* The child of listener p, in the memory s.
prvTCPSocketCopy(n, s, p) ==
    [FreeRTOS_socket(n, s) EXCEPT
        !.socks[s].bound = TRUE, !.socks[s].port = n.socks[p].port,
        !.socks[s].passQueued = TRUE, !.socks[s].peer = p, !.socks[p].children = @ + 1]

MayListen(n, p) == n.socks[p].children < n.socks[p].backlog

\* The new socket for a SYN, or a reset when the listener has enough or memory is out.
prvHandleListen(n, p, f) ==
    LET s == CHOOSE s \in Unused(n) : TRUE
        copy == [prvTCPSocketCopy(n, s, p) EXCEPT
                    !.socks[s].remote = f.src, !.socks[s].rport = f.sport,
                    !.socks[s].win.our = n.isn, !.socks[s].win.rxCur = f.seq,
                    !.socks[s].last = f.flags]
    IN IF ~MayListen(n, p) \/ Unused(n) = {}
       THEN [node |-> prvTCPSendReset(n, f), sock |-> NoSocket]
       ELSE [node |-> vTCPStateChange(prvTCPCreateWindow(copy, s), s, "SYN_FIRST"), sock |-> s]

-----------------------------------------------------------------------------
(* The data of a segment.                                                  *)

\* Into the stream, which is made for them.  Little room left: tell the peer.
AddsRx(n, s, rx) ==
    LET low == ~n.socks[s].lowWater /\ uxStreamBufferGetSpace(rx) <= LittleSpace
    IN [n EXCEPT !.socks[s].rx = rx, !.socks[s].bits = @ \cup {"RECEIVE"},
                 !.socks[s].lowWater = @ \/ low, !.socks[s].winChange = @ \/ low,
                 !.socks[s].armed = IF low THEN "soon" ELSE @]
lTCPAddRxdata(made, s, data) ==
    IF made.socks[s].rx = NoStream THEN made
    ELSE AddsRx(made, s, uxStreamBufferAdd(made.socks[s].rx, data))

\* "failed": there was no memory, and a reset was sent.
Stored(n, s, f) ==
    LET failed == n.socks[s].rx = NoStream
    IN [node |-> IF failed THEN prvTCPSendReset(n, f) ELSE n, failed |-> failed]

\* Only what comes next and fits is stored.
prvStoreRxData(n, s, f, poor) ==
    LET sock == n.socks[s]
        space == IF sock.rx = NoStream THEN RxLength - 1 ELSE uxStreamBufferGetSpace(sock.rx)
        taken == [n EXCEPT !.socks[s].win.rxCur = Plus(@, Len(f.data))]
    IN IF \/ f.data = <<>> \/ sock.state \notin FromSynReceived
          \/ ~lTCPWindowRxCheck(sock.win, f.seq, Len(f.data), space)
       THEN [node |-> n, failed |-> FALSE]
       ELSE Stored(lTCPAddRxdata(prvTCPCreateStream(taken, s, "rx", RxLength, poor), s, f.data), s, f)

-----------------------------------------------------------------------------
(* The handlers of the states.  They return the state, the flags to answer *)
(* with, the data, and whether there is an answer.                         *)

Answer(n, flags) == [node |-> n, send |-> TRUE, flags |-> flags, data |-> <<>>]
NoAnswer(n) == [node |-> n, send |-> FALSE, flags |-> {}, data |-> <<>>]

\* SYN_FIRST: agree, and count the SYN of both sides.
SynFirst(n, s, f) ==
    LET told == vTCPStateChange(n, s, "SYN_RECEIVED")
        first == n.socks[s].win.txFirst
    IN Answer([told EXCEPT !.socks[s].win.rxCur = Plus(f.seq, 1),
                           !.socks[s].win.rxHigh = Plus(f.seq, 1),
                           !.socks[s].win.txCur = Plus(first, 1),
                           !.socks[s].win.next = Plus(first, 1)], {"SYN", "ACK"})

\* The answer to a SYN of ours.
ConnectAcked(w, f) ==
    LET fresh == vTCPWindowInit(w, f.seq, w.our)
    IN [fresh EXCEPT !.rxCur = Plus(f.seq, 1), !.rxHigh = Plus(f.seq, 1),
                     !.txCur = Plus(@, 1), !.next = Plus(@, 1), !.our = Plus(fresh.txFirst, 1)]

\* The answer to a SYN+ACK of ours.
AcceptAcked(w, f) ==
    [w EXCEPT !.rxCur = IF f.data = <<>> THEN f.seq ELSE @, !.our = Plus(w.txFirst, 1)]

prvHandleSynReceived(n, s, f) ==
    LET connecting == n.socks[s].state = "CONNECT_SYN"
        expect == {"ACK"} \cup IF connecting THEN {"SYN"} ELSE {}
        win == IF connecting THEN ConnectAcked(n.socks[s].win, f) ELSE AcceptAcked(n.socks[s].win, f)
        acked == [n EXCEPT !.socks[s].win = win,
                           !.socks[s].last = IF connecting THEN {"ACK"} ELSE @]
        open == vTCPStateChange(acked, s, "ESTABLISHED")
    IN IF Control(f) # expect
       THEN Answer(vTCPStateChange(n, s, "CLOSE_WAIT"), f.flags \cup {"RST"})
       ELSE IF connecting \/ f.data # <<>> THEN Answer(open, {"ACK"}) ELSE NoAnswer(open)

\* The end of a connection from either side.  Both sides answer until FIN is
\* acknowledged both ways.
prvTCPHandleFin(n, s, f) ==
    LET sock == n.socks[s]
        took == IF "FIN" \in f.flags
                THEN [n EXCEPT !.socks[s].win.rxCur = Plus(sock.win.rxFin, 1)] ELSE n
        acked == sock.finSent /\ (sock.finAcked \/ f.ack = Plus(sock.win.txFin, 1))
        txFin == IF sock.finSent THEN sock.win.txFin ELSE sock.win.txCur
        at(cur) == [took EXCEPT !.socks[s].finSent = TRUE, !.socks[s].finAcked = acked,
                                !.socks[s].win.txFin = txFin, !.socks[s].win.txCur = cur,
                                !.socks[s].win.our = cur]
        over == vTCPStateChange(at(Plus(txFin, 1)), s, "CLOSE_WAIT")
    IN IF ~acked THEN Answer(vTCPStateChange(at(txFin), s, "LAST_ACK"), {"ACK", "FIN"})
       ELSE IF ~sock.finRecv THEN NoAnswer(at(Plus(txFin, 1)))
       ELSE IF ~sock.finLast THEN Answer(over, {"ACK"}) ELSE NoAnswer(over)

\* What an acknowledgement confirms leaves the stream.
TakesAck(n, s, f) ==
    LET sock == n.socks[s]
        count == TxAckLength(sock.win, f.ack)
        took == [n EXCEPT !.socks[s].win = ulTCPWindowTxAck(@, f.ack)]
    IN IF "ACK" \notin f.flags THEN n
       ELSE IF sock.tx = NoStream \/ count = 0 THEN took
       ELSE [took EXCEPT !.socks[s].tx = uxStreamBufferGet(@, count),
                         !.socks[s].bits = @ \cup {"SEND"}]

\* FIN counts when everything before it is here and everything of ours is there.
MayClose(sock, f) ==
    /\ sock.finAccepted \/ "FIN" \in f.flags
    /\ \/ sock.finSent
       \/ /\ xTCPWindowRxEmpty(sock.win) /\ xTCPWindowTxDone(sock.win)
          /\ ~After(Minus(Plus(f.seq, Len(f.data)), 1), sock.win.rxCur)

\* After the acknowledgement: the next data into the segment.
Confirms(n, s, f) ==
    LET acked == TakesAck(n, s, f)
    IN IF n.socks[s].tx = NoStream THEN acked ELSE prvTCPAddTxData(acked, s)

EstablishedAnswer(p, ack) ==
    [node |-> p.node, send |-> ack \/ p.send, data |-> p.data, flags |-> p.flags]

GoesOn(n, s, f, c) ==
    LET ack == f.data # <<>>
        skips == ack /\ n.socks[s].finSent
        fin == [n EXCEPT !.socks[s].win.txCur = IF skips THEN n.socks[s].win.txFin ELSE @]
    IN EstablishedAnswer(prvTCPPrepareSend(fin, s, {"ACK"}, c), ack)

EndsOrGoesOn(n, s, f, c) ==
    LET at == [n EXCEPT !.socks[s].win.our = n.socks[s].win.txCur]
    IN IF MayClose(n.socks[s], f)
       THEN prvTCPHandleFin([at EXCEPT !.socks[s].finAccepted = TRUE], s, f)
       ELSE GoesOn(at, s, f, c)

prvHandleEstablished(n, s, f, c) == EndsOrGoesOn(Confirms(n, s, f), s, f, c)

-----------------------------------------------------------------------------

\* What a segment says before its state handles it.
NotesFin(n, s, f) ==
    IF "FIN" \in f.flags /\ ~n.socks[s].finRecv
    THEN [n EXCEPT !.socks[s].win.rxFin = Plus(f.seq, Len(f.data)), !.socks[s].finRecv = TRUE,
                   !.socks[s].finLast = @ \/ ~n.socks[s].finSent]
    ELSE n

NotesSequence(n, s, f) ==
    LET sock == n.socks[s]
        end == Plus(f.seq, Len(f.data))
        probe == sock.state \in FromEstablished /\ sock.win.rxCur = Plus(f.seq, 1)
    IN [n EXCEPT !.socks[s].winChange = @ \/ probe,
                 !.socks[s].win.rxHigh = IF After(end, @) THEN end ELSE @]

HandlerOf(n, s, f, c) ==
    CASE n.socks[s].state = "SYN_FIRST" -> SynFirst(n, s, f)
      [] n.socks[s].state \in {"CONNECT_SYN", "SYN_RECEIVED"} -> prvHandleSynReceived(n, s, f)
      [] n.socks[s].state = "ESTABLISHED" -> prvHandleEstablished(n, s, f, c)
      [] n.socks[s].state \in {"LAST_ACK", "FIN_WAIT_1", "FIN_WAIT_2"} -> prvTCPHandleFin(n, s, f)
      [] OTHER -> NoAnswer(n)

Answers(a, s) == IF a.send THEN prvTCPReturnPacket(a.node, s, a.flags, a.data) ELSE a.node

\* The SYN of a peer that has not got our answer.
SynAgain(n, s, f) ==
    IF n.socks[s].state = "SYN_RECEIVED" /\ f.flags = {"SYN"}
    THEN vTCPStateChange(n, s, "SYN_FIRST") ELSE n

Handled(stored, s, f, c) ==
    IF stored.failed THEN stored.node
    ELSE Answers(HandlerOf(NotesFin(SynAgain(stored.node, s, f), s, f), s, f, c), s)

prvTCPHandleState(n, s, f, c) ==
    Handled(prvStoreRxData(NotesSequence(n, s, f), s, f, c = "poor"), s, f, c)

\* A segment that nobody expects is refused, unless it is an acknowledgement or a reset.
Refuses(n, f) ==
    IF f.flags # {"ACK"} /\ "RST" \notin f.flags THEN prvTCPSendReset(n, f) ELSE n

\* Socket s handles the segment; for NoSocket it has been handled.
Processes(n, s, f, c) ==
    IF s = NoSocket THEN n
    ELSE prvTCPNextTimeout(prvTCPHandleState(prvTCPTouchSocket(n, s), s, f, c), s)

\* The state before a socket handles the segment, and that socket.
Finds(n, s, f) ==
    LET heard == [n EXCEPT !.socks[s].rep = 0]
        over(m) == [node |-> m, sock |-> NoSocket]
    IN IF s = NoSocket THEN over(Refuses(n, f))
       ELSE IF ~prvTCPSocketIsActive(n.socks[s].state) THEN over(Refuses(n, f))
       ELSE IF n.socks[s].state = "TCP_LISTEN"
       THEN IF f.flags = {"SYN"} THEN prvHandleListen(heard, s, f)
            ELSE over(IF "RST" \in f.flags THEN heard ELSE prvTCPSendReset(heard, f))
       ELSE IF "RST" \in f.flags THEN over(vTCPStateChange(heard, s, "CLOSED"))
       ELSE IF f.flags = {"SYN"} /\ n.socks[s].state \in FromEstablished THEN over(heard)
       ELSE [node |-> [heard EXCEPT !.socks[s].last = f.flags], sock |-> s]

FoundProcesses(found, f, c) == Processes(found.node, found.sock, f, c)
xProcessReceivedTCPPacket(n, f, c) == FoundProcesses(Finds(n, pxTCPSocketLookup(n, f), f), f, c)
=============================================================================
