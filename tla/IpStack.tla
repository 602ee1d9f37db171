------------------------------ MODULE IpStack ------------------------------
(***************************************************************************)
(* What the IP task does to the state of the stack, apart from DHCP:       *)
(* FreeRTOS_IP.c, FreeRTOS_UDP_IP.c and the UDP half of                    *)
(* FreeRTOS_Sockets.c, as operators from a state n to the next one.  The   *)
(* caller takes the frames handed to the driver out of n.out.              *)
(*                                                                         *)
(* A network buffer is counted, not named: it is free, in the hands of the *)
(* IP task or an application, in an event, or in the list of a socket.     *)
(* NetDriver has the pool and the driver in detail.                        *)
(***************************************************************************)
EXTENDS IpArp, IpDns, Sequences

CONSTANTS Sockets,        \* the memory for sockets
          NoSocket,       \* NULL and FREERTOS_INVALID_SOCKET
          Buffers,        \* ipconfigNUM_NETWORK_BUFFER_DESCRIPTORS
          EventLength,    \* ipconfigEVENT_QUEUE_LENGTH
          AutoPorts,      \* how many ports prvGetPrivatePortNumber goes round
          DnsPort, DhcpPort, \* ports of a server and of the DHCP client
          DefaultAddress  \* ulDefaultIPAddress

ASSUME StackAssumption ==
    /\ Buffers \in Nat /\ EventLength \in Nat \ {0}
    /\ IsFiniteSet(Sockets) /\ NoSocket \notin Sockets
    /\ AutoPorts \in Nat /\ AutoPorts > Cardinality(Sockets)
    /\ DnsPort \in Nat /\ DnsPort > AutoPorts
    /\ DhcpPort \in Nat /\ DhcpPort > AutoPorts
    /\ DnsPort \notin {DhcpPort, DhcpPort + 1}

NoPort == 0
Closed == [used |-> FALSE, bound |-> FALSE, port |-> NoPort, local |-> NoPort,
           rx |-> <<>>, bits |-> {}]

-----------------------------------------------------------------------------
(* Events.                                                                 *)

CanPost(n, event) ==
    (n.ready \/ event.type = "down") /\ Len(n.evq) < EventLength

\* Without blocking; an event that does not fit is lost.
xSendEventStructToIPTask(n, event) ==
    IF CanPost(n, event) THEN [n EXCEPT !.evq = Append(@, event)] ELSE n

xSendEventToIPTask(n, type) == xSendEventStructToIPTask(n, [type |-> type])

\* A loss is remembered, and prvIPTask tries again.
FreeRTOS_NetworkDown(n) ==
    [xSendEventToIPTask(n, "down") EXCEPT !.downPending = ~CanPost(n, [type |-> "down"])]

\* prvCheckNetworkTimers, with the timers that ran out; a timer starts again at once.
prvCheckNetworkTimers(n, expired) ==
    LET arp == IF "arp" \in expired THEN xSendEventToIPTask(n, "arp") ELSE n
    IN IF "dhcp" \in expired THEN xSendEventToIPTask(arp, "dhcp") ELSE arp

vIPSetDHCPTimerEnableState(n, on) == [n EXCEPT !.dhcpTimer = on]
vIPReloadDHCPTimer(n) == [n EXCEPT !.dhcpTimer = TRUE]

-----------------------------------------------------------------------------
(* Sockets.                                                                *)

BoundTo(n, port) == {s \in Sockets : n.socks[s].bound /\ n.socks[s].port = port}

pxUDPSocketLookup(n, port) ==
    IF BoundTo(n, port) = {} THEN NoSocket ELSE CHOOSE s \in BoundTo(n, port) : TRUE

\* What FreeRTOS_socket may return: the heap's next piece, or nothing when it is used up.
FreeSockets(n) ==
    LET unused == {s \in Sockets : ~n.socks[s].used}
    IN {NoSocket} \cup IF n.ready /\ unused # {} THEN {CHOOSE s \in unused : TRUE} ELSE {}

FreeRTOS_socket(n, s) ==
    IF s = NoSocket THEN n ELSE [n EXCEPT !.socks[s] = [Closed EXCEPT !.used = TRUE]]

\* Round the private ports to the next one that no socket is bound to.
prvGetPrivatePortNumber(n) ==
    LET port(i) == 1 + ((n.nextPort + i - 1) % AutoPorts)
    IN port(Min({i \in 1 .. AutoPorts : BoundTo(n, port(i)) = {}}))

vSocketBind(n, s, wanted) ==
    LET port == IF wanted = NoPort THEN prvGetPrivatePortNumber(n) ELSE wanted
        moved == [n EXCEPT !.nextPort = IF wanted = NoPort THEN port ELSE @]
    IN IF BoundTo(n, port) # {} THEN moved
       ELSE [moved EXCEPT !.socks[s].bound = TRUE, !.socks[s].port = port,
                          !.socks[s].local = port]

\* eSocketBindEvent: bind, then tell the task that waits.
SocketBindEvent(n, s) ==
    LET wanted == n.socks[s].local
        asked == [n EXCEPT !.socks[s].local = NoPort]
    IN [vSocketBind(asked, s, wanted) EXCEPT !.socks[s].bits = @ \cup {"BOUND"}]

\* Mutant: the packets that wait in the socket are forgotten.
CloseForgets(n, s) == [n EXCEPT !.socks[s] = Closed]

vSocketClose(n, s) ==
    [n EXCEPT !.free = @ + Len(n.socks[s].rx), !.socks[s] = Closed]

\* The head of the list of waiting packets; the buffer is the caller's.
TakePacket(n, s) == [n EXCEPT !.socks[s].rx = Tail(@)]

-----------------------------------------------------------------------------
(* Frames out.  The driver copies what it is given and the buffer is free. *)

Output(n, frames) == [n EXCEPT !.out = @ \cup frames]
Release(n) == [n EXCEPT !.free = @ + 1]

\* FreeRTOS_OutputARPRequest: without a buffer nothing is sent.
OutputRequests(n, frames) == IF n.free > 0 THEN Output(n, frames) ELSE n

FreeRTOS_OutputARPRequest(n, ip) == OutputRequests(n, {vARPGenerateRequestPacket(n.ip, ip)})

\* eARPTimerEvent; "due": the last gratuitous request was long ago.
ArpTimerEvent(n, due) ==
    LET aged == vARPAgeCache(n.arp, n.ip)
        asked == OutputRequests([n EXCEPT !.arp = aged.arp], aged.out)
    IN IF n.announce \/ due
       THEN [FreeRTOS_OutputARPRequest(asked, n.ip) EXCEPT !.announce = FALSE]
       ELSE asked

vARPSendGratuitous(n) == xSendEventToIPTask([n EXCEPT !.announce = TRUE], "arp")

\* A datagram or a ping: sent to the address in the cache, or lost for a request.
vProcessGeneratedUDPPacket(n, packet) ==
    LET found == eARPGetCacheEntry(n.arp, n.ip, n.gateway, packet.dip)
        frame == [type |-> packet.type, dmac |-> found.mac, smac |-> MyMac, sip |-> n.ip,
                  dip |-> packet.dip, sport |-> packet.sport, dport |-> packet.dport,
                  body |-> packet.body]
        asked == [n EXCEPT !.arp = vARPRefreshCacheEntry(@, n.ip, NoMac, found.ip)]
    IN CASE found.result = "hit" -> Release(Output(n, {frame}))
         [] found.result = "miss" ->
              Release(Output(asked, {vARPGenerateRequestPacket(n.ip, found.ip)}))
         [] OTHER -> Release(n)

-----------------------------------------------------------------------------
(* Frames in.  The operators return the state and whether the buffer of    *)
(* the frame was consumed.                                                 *)

Heard(n, frame) == [n EXCEPT !.arp = vARPRefreshCacheEntry(@, n.ip, frame.smac, frame.sip)]

xProcessReceivedUDPPacket(n, frame) ==
    LET s == pxUDPSocketLookup(n, frame.dport)
        queued == [Heard(n, frame) EXCEPT !.socks[s].rx = Append(@, frame),
                                          !.socks[s].bits = @ \cup {"RECEIVE"}]
    IN IF s # NoSocket
       THEN [net |-> IF s = n.dhcp.sock THEN xSendEventToIPTask(queued, "dhcp") ELSE queued,
             consumed |-> TRUE]
       ELSE IF frame.sport = DnsPort
       THEN [net |-> [Heard(n, frame) EXCEPT !.names = ulDNSHandlePacket(@, frame.body)],
             consumed |-> FALSE]
       ELSE [net |-> n, consumed |-> FALSE]

\* A request to this address is turned round in its buffer.
prvProcessICMPPacket(n, frame) ==
    IF frame.body = "echo request"
    THEN Output(n, {[frame EXCEPT !.body = "echo reply", !.dip = frame.sip, !.sip = n.ip,
                                  !.dmac = frame.smac, !.smac = MyMac]})
    ELSE n

\* For this address, for everyone, or for a host without an address.
prvAllowIPPacket(n, frame) == frame.dip \in {n.ip, Broadcast} \/ n.ip = NoAddress

prvProcessIPPacket(n, frame) ==
    IF ~prvAllowIPPacket(n, frame) THEN [net |-> n, consumed |-> FALSE]
    ELSE IF frame.type = "udp" THEN xProcessReceivedUDPPacket(n, frame)
    ELSE [net |-> IF frame.dip = n.ip THEN prvProcessICMPPacket(Heard(n, frame), frame)
                  ELSE Heard(n, frame),
          consumed |-> FALSE]

eConsiderFrameForProcessing(frame) == frame.dmac \in {MyMac, MacBroadcast}

prvProcessEthernetPacket(n, frame) ==
    LET arp == eARPProcessPacket(n.arp, n.ip, frame)
        ip == prvProcessIPPacket(n, frame)
    IN IF ~eConsiderFrameForProcessing(frame) THEN Release(n)
       ELSE IF frame.type = "arp" THEN Release(Output([n EXCEPT !.arp = arp.arp], arp.out))
       ELSE IF ip.consumed THEN ip.net ELSE Release(ip.net)

-----------------------------------------------------------------------------
(* The network comes and goes.                                             *)

\* vApplicationIPNetworkEventHook of MyCallbacks.c: the tasks that use the
\* network are created the first time.
vApplicationIPNetworkEventHook(n) ==
    [n EXCEPT !.client = TRUE]

vIPNetworkUpCalls(n) ==
    [vApplicationIPNetworkEventHook([n EXCEPT !.up = TRUE]) EXCEPT !.arpTimer = TRUE]
=============================================================================
