--------------------------------- MODULE Ip ---------------------------------
(***************************************************************************)
(* The IP task, an application that uses UDP, ping and DNS, and the hosts  *)
(* of the link.  The IP task takes an event and handles it; the            *)
(* application runs between any two of its steps, from one kernel call or  *)
(* access to shared data to the next.  Whatever may time out may do so at  *)
(* any moment, and a timer of the stack that runs may run out at any       *)
(* moment.  A host answers what was sent once, often or never, and in any  *)
(* order.                                                                  *)
(*                                                                         *)
(* A plan, chosen at the start, says what the application calls, what the  *)
(* hosts send and how many timeouts there are: the plans of a model are    *)
(* its scenarios.                                                          *)
(***************************************************************************)
EXTENDS IpDhcp, SequencesExt

CONSTANTS Plans,         \* [start, calls, frames, arrivals, lates, timers]
          Starts,        \* what a plan starts from: states of the stack
          Servers,       \* DHCP servers, gateways and name servers in one
          Pool,          \* Pool[v]: the addresses server v gives out
          Hosts,         \* other hosts of the link
          Macs,          \* Macs[h]: the hardware addresses host h may have
          Options,       \* Options[v]: the sets of options with which server v may answer
          AnswerOf,      \* AnswerOf[name]: the addresses a name has had
          UserPort,      \* the port the hosts send datagrams to
          DnsAttempts    \* ipconfigDNS_REQUEST_ATTEMPTS

VARIABLES plan,
          net,           \* the stack
          ipPc, event,   \* the IP task: where it stands, the event it has taken
          app,           \* the application
          arrivals, lates, \* history: frames that came in, timeouts of DHCP
          heard          \* history: the hardware address last heard for an address

vars == <<plan, net, ipPc, event, app, arrivals, lates, heard>>

Others == Hosts \cup Servers   \* on the link
Slots == {1, 2}
NoEvent == [type |-> "none"]
Names == DOMAIN AnswerOf
FrameKinds == {"offer", "ack", "nack", "arp reply", "arp request", "gratuitous", "dns",
               "data", "ping", "echo", "other"}
NoReply == [id |-> 0, name |-> NoName, ip |-> NoAnswer]

\* FreeRTOS_IPInit: the queue and the buffers, and no address while DHCP runs.
NetInit ==
    [ready |-> FALSE, up |-> FALSE, downPending |-> FALSE, client |-> FALSE,
     ip |-> NoAddress, gateway |-> NoAddress, dns |-> NoAddress,
     evq |-> <<>>, free |-> Buffers, out |-> {}, blocked |-> FALSE,
     arp |-> FreeRTOS_ClearARP, announce |-> TRUE, arpTimer |-> FALSE, dhcpTimer |-> FALSE,
     socks |-> [s \in Sockets |-> Closed], nextPort |-> AutoPorts,
     dhcp |-> DhcpInit, names |-> xDNSCache]

AppInit == [pc |-> "idle", step |-> 1, slot |-> [i \in Slots |-> NoSocket], then |-> "idle",
            sock |-> NoSocket, asks |-> NoName, id |-> 0, attempt |-> 0, reply |-> NoReply,
            row |-> 0, result |-> NoAddress]

-----------------------------------------------------------------------------
(* What a plan may be and start from.                                      *)

\* An address has one row at most in the ARP cache, and a row that is valid
\* names the hardware address its host was last heard with.
ArpRight(arp, told) ==
    /\ \A x, y \in Rows : arp[x].ip # NoAddress /\ arp[x].ip = arp[y].ip => x = y
    /\ \A x \in Rows : arp[x].valid /\ arp[x].ip \in Others => arp[x].mac = told[arp[x].ip]

SentTo(n, port) == {f \in n.out : f.type = "udp" /\ f.dport = port}
DhcpSent(n, op) == {f \in SentTo(n, ServerPort) : f.body.op = op}

LeaseRight(n) ==
    n.dhcp.state = "LeasedAddress" =>
        /\ n.ip = n.dhcp.offered /\ n.ip \in Pool[n.dhcp.server]
        /\ {n.gateway, n.dns} \subseteq Servers \cup {NoAddress}
        /\ \E f \in DhcpSent(n, "request") :
              /\ f.body.xid = n.dhcp.xid /\ f.body.ip = n.ip
              /\ f.body.server = n.dhcp.server

ASSUME IpAssumption ==
    /\ NoAnswer = NoAddress
    /\ Others \subseteq OnLink /\ \A h \in Others : NoMac \notin Macs[h]
    /\ \A name \in Names : Kept[name] # NoName
    /\ UserPort \in Nat
    /\ {UserPort, UserPort + 1} \cap (0 .. AutoPorts \cup {DnsPort, DhcpPort, ServerPort}) = {}

\* A start is a state in which nothing is under way; NetInit is one.
ASSUME StartsAssumption ==
    \A s \in DOMAIN Starts :
        LET n == Starts[s].net
        IN /\ DOMAIN n = DOMAIN NetInit /\ DOMAIN n.dhcp = DOMAIN DhcpInit
           /\ n.evq = <<>> /\ n.free = Buffers /\ n.nextPort \in 1 .. AutoPorts
           /\ n.socks = NetInit.socks /\ n.dhcp.sock = NoSocket
           /\ n.dhcp.state \notin {"WaitingOffer", "WaitingAcknowledge"}
           /\ Starts[s].pc \in {"start", "loop"}
           /\ n.names = xDNSCache /\ SentTo(n, DnsPort) = {}
           /\ DOMAIN n.arp = Rows /\ \A x \in Rows : DOMAIN n.arp[x] = DOMAIN EmptyRow
           /\ DOMAIN Starts[s].heard = Others /\ ArpRight(n.arp, Starts[s].heard)
           /\ LeaseRight(n) /\ {n.gateway, n.dns} \subseteq Servers \cup {NoAddress}
           /\ \A f \in DhcpSent(n, "request") : f.body.ip \in Pool[f.body.server]

ASSUME PlansAssumption ==
    \A p \in Plans :
        /\ p.start \in DOMAIN Starts /\ p.frames \subseteq FrameKinds
        /\ Len(p.calls) \in Nat /\ DOMAIN p.calls = 1 .. Len(p.calls)
        /\ \A i \in DOMAIN p.calls :
              /\ p.calls[i].op \in {"socket", "bind", "send", "recv", "close"} =>
                    p.calls[i].slot \in Slots
              /\ p.calls[i].op = "lookup" => p.calls[i].name \in Names

Init ==
    /\ plan \in Plans
    /\ net = Starts[plan.start].net
    /\ ipPc = Starts[plan.start].pc /\ event = NoEvent
    /\ app = AppInit
    /\ arrivals = 0 /\ lates = 0
    /\ heard = Starts[plan.start].heard

-----------------------------------------------------------------------------
(* The IP task.                                                            *)

\* What an event does.  c: the choices of the environment.
Handle(n, e, c) ==
    CASE e.type = "down" -> prvProcessNetworkDownEvent(n, c.initialised, c.sock)
      [] e.type = "rx" -> prvProcessEthernetPacket(n, e.frame)
      [] e.type = "tx" -> vProcessGeneratedUDPPacket(n, e.packet)
      [] e.type = "arp" -> ArpTimerEvent(n, c.due)
      [] e.type = "bind" -> SocketBindEvent(n, e.sock)
      [] e.type = "close" -> vSocketClose(n, e.sock)
      [] e.type = "dhcp" -> vDHCPProcess(n, FALSE, c.late, c.sock)

RetryDown(n) == IF n.downPending THEN FreeRTOS_NetworkDown(n) ELSE n

\* A frame that says which hardware address an address has, as far as the stack cares.
Tells(n, f) ==
    /\ f.dmac \in {MyMac, MacBroadcast}
    /\ f.sip \in OnLink \/ n.ip = NoAddress
    /\ IF f.type = "arp"
       THEN n.ip # NoAddress /\ (f.op = "reply" \/ f.tip = n.ip)
       ELSE /\ f.dip \in {n.ip, Broadcast} \/ n.ip = NoAddress
            /\ f.type = "udp" => \/ f.sport = DnsPort
                                 \/ \E s \in Sockets : n.socks[s].bound /\ n.socks[s].port = f.dport

\* prvIPTask up to its loop: the network is brought up by taking it down.
IpStarts ==
    /\ ipPc = "start"
    /\ net' = [FreeRTOS_NetworkDown(net) EXCEPT !.ready = TRUE]
    /\ ipPc' = "loop"
    /\ UNCHANGED <<plan, event, app, arrivals, lates, heard>>

\* The timers, and the next event or none.  A timer has a period of seconds: it
\* does not run out again while its event waits.
IpLoops(expired) ==
    LET polled == prvCheckNetworkTimers(net, expired)
    IN /\ ipPc = "loop"
       /\ expired \subseteq plan.timers
       /\ \A i \in DOMAIN net.evq : net.evq[i].type \notin expired
       /\ "arp" \in expired => net.arpTimer
       /\ "dhcp" \in expired => net.dhcpTimer
       /\ IF polled.evq = <<>>
          THEN net' = RetryDown(polled) /\ UNCHANGED <<ipPc, event>>
          ELSE /\ net' = [polled EXCEPT !.evq = Tail(@)]
               /\ event' = Head(polled.evq)
               /\ ipPc' = "handle"
       /\ UNCHANGED <<plan, app, arrivals, lates, heard>>

\* A handler that spins for a buffer (n.blocked) gets no further.
IpHandles(c) ==
    LET handled == RetryDown(Handle(net, event, c))
    IN /\ ipPc = "handle"
       /\ ~handled.blocked
       /\ c.late => lates < plan.lates
       /\ c.initialised \/ lates < plan.lates
       /\ net' = handled
       /\ lates' = IF (c.late /\ event.type = "dhcp") \/ (~c.initialised /\ event.type = "down")
                   THEN lates + 1 ELSE lates
       /\ heard' = IF event.type = "rx" /\ Tells(net, event.frame)
                   THEN [heard EXCEPT ![event.frame.sip] = event.frame.smac] ELSE heard
       /\ ipPc' = "loop" /\ event' = NoEvent
       /\ UNCHANGED <<plan, app, arrivals>>

-----------------------------------------------------------------------------
(* The application.  It runs when the event hook has created it.           *)

Done(a) == [a EXCEPT !.pc = "idle", !.step = @ + 1]

Calls(op) ==
    /\ net.client /\ app.pc = "idle" /\ app.step <= Len(plan.calls)
    /\ plan.calls[app.step].op = op

Call == plan.calls[app.step]
CallSock == app.slot[Call.slot]
NotApp == UNCHANGED <<plan, ipPc, event, arrivals, lates, heard>>

CallSocket(s) ==
    /\ Calls("socket") /\ NotApp
    /\ s \in FreeSockets(net)
    /\ net' = FreeRTOS_socket(net, s)
    /\ app' = Done([app EXCEPT !.slot[Call.slot] = s])

\* A socket that was not created is refused, by the call or by its caller.
CallRefused(op) ==
    /\ Calls(op) /\ CallSock = NoSocket /\ NotApp
    /\ app' = Done(app) /\ UNCHANGED net

\* FreeRTOS_bind up to the event.
Binds(a, s, port, then) ==
    /\ net' = [net EXCEPT !.socks[s].local = port]
    /\ app' = [a EXCEPT !.pc = "bindPost", !.sock = s, !.then = then]

CallBind ==
    /\ Calls("bind") /\ CallSock # NoSocket /\ NotApp
    /\ IF net.socks[CallSock].bound THEN app' = Done(app) /\ UNCHANGED net
       ELSE Binds(app, CallSock, Call.port, "idle")

\* Without a limit on the time.
BindPosts ==
    LET posted == [type |-> "bind", sock |-> app.sock]
    IN /\ app.pc = "bindPost" /\ NotApp
       /\ CanPost(net, posted)
       /\ net' = xSendEventStructToIPTask(net, posted)
       /\ app' = [app EXCEPT !.pc = "bindWait"]

BindReturns ==
    LET bound == net.socks[app.sock].bound
    IN /\ app.pc = "bindWait" /\ NotApp
       /\ "BOUND" \in net.socks[app.sock].bits
       /\ net' = [net EXCEPT !.socks[app.sock].bits = @ \ {"BOUND"}]
       /\ app' = IF app.then = "idle" \/ (~bound /\ app.then = "buffer") THEN Done(app)
                 ELSE [app EXCEPT !.pc = IF bound THEN app.then ELSE "dnsClose"]

\* FreeRTOS_sendto binds a socket that is not bound.
CallSend ==
    /\ Calls("send") /\ CallSock # NoSocket /\ NotApp
    /\ IF net.socks[CallSock].bound
       THEN app' = [app EXCEPT !.pc = "buffer", !.sock = CallSock] /\ UNCHANGED net
       ELSE Binds(app, CallSock, NoPort, "buffer")

CallPing ==
    /\ Calls("ping") /\ NotApp
    /\ app' = [app EXCEPT !.pc = "buffer"] /\ UNCHANGED net

\* A buffer, or none in time.
TakesBuffer ==
    /\ app.pc \in {"buffer", "dnsBuffer"} /\ NotApp
    /\ IF net.free > 0
       THEN /\ net' = [net EXCEPT !.free = @ - 1]
            /\ app' = [app EXCEPT !.pc = IF @ = "buffer" THEN "post" ELSE "dnsPost"]
       ELSE /\ UNCHANGED net
            /\ app' = IF app.pc = "buffer" THEN Done(app)
                      ELSE [app EXCEPT !.pc = "dnsNext"]

\* What goes into the buffer: a datagram, a ping, or the question of a lookup.
AppPacket ==
    IF app.pc = "dnsPost"
    THEN [type |-> "udp", dip |-> net.dns, sport |-> net.socks[app.sock].port,
          dport |-> DnsPort, body |-> [id |-> app.id, name |-> app.asks]]
    ELSE IF Call.op = "ping"
    THEN [type |-> "icmp", dip |-> Call.to, sport |-> NoPort, dport |-> NoPort,
          body |-> "echo request"]
    ELSE [type |-> "udp", dip |-> Call.to, sport |-> net.socks[app.sock].port,
          dport |-> UserPort, body |-> "data"]

\* The event, or no room for it in time: the buffer goes back.
Posts ==
    LET posted == [type |-> "tx", packet |-> AppPacket]
    IN /\ app.pc \in {"post", "dnsPost"} /\ NotApp
       /\ net' = IF CanPost(net, posted) THEN xSendEventStructToIPTask(net, posted)
                 ELSE Release(net)
       /\ app' = IF app.pc = "post" THEN Done(app)
                 ELSE [app EXCEPT !.pc = IF CanPost(net, posted) THEN "dnsRecv" ELSE "dnsNext"]

CallRecv ==
    /\ Calls("recv") /\ CallSock # NoSocket /\ NotApp
    /\ app' = [app EXCEPT !.pc = "recv", !.sock = CallSock] /\ UNCHANGED net

\* FreeRTOS_recvfrom: a packet, copied and released; the question's caller keeps it.
Receives ==
    LET rx == net.socks[app.sock].rx
    IN /\ app.pc \in {"recv", "dnsRecv"} /\ NotApp
       /\ IF rx = <<>>
          THEN UNCHANGED net /\ app' = [app EXCEPT !.pc = IF @ = "recv" THEN "wait" ELSE "dnsWait"]
          ELSE IF app.pc = "recv"
          THEN net' = Release(TakePacket(net, app.sock)) /\ app' = Done(app)
          ELSE /\ net' = TakePacket(net, app.sock)
               /\ app' = [app EXCEPT !.pc = "dnsParse", !.reply = Head(rx).body]

\* The wait ends with the bit, or in time with the list looked at once more.
RecvWakes(bit) ==
    LET s == app.sock
    IN /\ app.pc \in {"wait", "dnsWait"} /\ NotApp
       /\ bit = ("RECEIVE" \in net.socks[s].bits)
       /\ net' = [net EXCEPT !.socks[s].bits = @ \ {"RECEIVE"}]
       /\ app' = IF bit \/ net.socks[s].rx # <<>>
                 THEN [app EXCEPT !.pc = IF @ = "wait" THEN "recv" ELSE "dnsRecv"]
                 ELSE IF app.pc = "wait" THEN Done(app)
                 ELSE [app EXCEPT !.pc = "dnsNext"]

\* FreeRTOS_closesocket does not wait: with a full queue the socket stays.
PostClose(s) == net' = xSendEventStructToIPTask(net, [type |-> "close", sock |-> s])

CallClose ==
    /\ Calls("close") /\ CallSock # NoSocket /\ NotApp
    /\ PostClose(CallSock)
    /\ app' = Done([app EXCEPT !.slot[Call.slot] = NoSocket])

-----------------------------------------------------------------------------
(* FreeRTOS_gethostbyname: the table of names, or a question on a socket.  *)

\* The search of prvProcessDNSCache for a look-up, up to the row it stops at.
CallLookup ==
    LET rows == RowsOfName(net.names, Call.name)
        asked == [app EXCEPT !.asks = Call.name, !.id = @ + 1, !.attempt = 0,
                             !.result = NoAddress]
    IN /\ Calls("lookup") /\ NotApp
       /\ IF rows = {} THEN app' = [asked EXCEPT !.pc = "dnsSocket"] /\ UNCHANGED net
          ELSE /\ app' = [asked EXCEPT !.pc = "dnsRead", !.row = Min(rows)]
               /\ net' = [net EXCEPT !.names.busy = TRUE]

FreeRTOS_dnslookup ==
    LET ip == net.names.rows[app.row].ip
    IN /\ app.pc = "dnsRead" /\ NotApp
       /\ net' = [net EXCEPT !.names.busy = FALSE]
       /\ app' = IF ip # NoAddress THEN Done([app EXCEPT !.result = ip])
                 ELSE [app EXCEPT !.pc = "dnsSocket"]

prvCreateDNSSocket(s) ==
    /\ app.pc = "dnsSocket" /\ NotApp
    /\ s \in FreeSockets(net)
    /\ IF s = NoSocket THEN app' = Done(app) /\ UNCHANGED net
       ELSE /\ net' = FreeRTOS_socket(net, s)
            /\ app' = [app EXCEPT !.pc = "bindPost", !.sock = s, !.then = "dnsBuffer"]

\* What a reply gives; an address goes into the table, which is searched first.
prvGetHostByName ==
    LET rows == RowsOfName(net.names, app.reply.name)
    IN /\ app.pc = "dnsParse" /\ NotApp
       /\ IF ~prvParseDNSReply(app.reply, app.id)
          THEN /\ net' = Release(net)
               /\ app' = [app EXCEPT !.reply = NoReply, !.pc = "dnsNext"]
          ELSE /\ net' = [net EXCEPT !.names.busy = TRUE]
               /\ app' = IF rows = {} THEN [app EXCEPT !.pc = "dnsName"]
                         ELSE [app EXCEPT !.pc = "dnsUpdate", !.row = Min(rows)]

\* The table is done with: the buffer goes back, and the address is the result.
TableDone(d) ==
    /\ net' = [Release(net) EXCEPT !.names = [d EXCEPT !.busy = FALSE]]
    /\ app' = [app EXCEPT !.result = app.reply.ip, !.reply = NoReply, !.pc = "dnsClose"]

UpdateRow ==
    /\ app.pc = "dnsUpdate" /\ NotApp
    /\ TableDone(StoreAddress(net.names, app.row, app.reply.ip))

InsertName ==
    /\ app.pc = "dnsName" /\ NotApp
    /\ net' = [net EXCEPT !.names = StoreName(@, @.free, app.reply.name)]
    /\ app' = [app EXCEPT !.pc = "dnsAddress", !.row = net.names.free]

\* The build may read xFreeEntry again for each access, or keep what it has read.
Indices == {app.row, net.names.free}

InsertAddress(x) ==
    /\ app.pc = "dnsAddress" /\ NotApp
    /\ x \in Indices
    /\ net' = [net EXCEPT !.names = StoreAddress(@, x, app.reply.ip)]
    /\ app' = [app EXCEPT !.pc = "dnsIndex"]

MoveIndex(x) ==
    /\ app.pc = "dnsIndex" /\ NotApp
    /\ x \in Indices
    /\ net' = [net EXCEPT !.names.free = x + 1]
    /\ app' = [app EXCEPT !.pc = "dnsWrap", !.row = x + 1]

TurnIndex(x) ==
    /\ app.pc = "dnsWrap" /\ NotApp
    /\ x \in Indices
    /\ TableDone(WrapIndex(net.names, x))

NextAttempt ==
    /\ app.pc = "dnsNext" /\ NotApp /\ UNCHANGED net
    /\ app' = [app EXCEPT !.attempt = @ + 1,
                          !.pc = IF app.attempt + 1 < DnsAttempts THEN "dnsBuffer" ELSE "dnsClose"]

DnsClose ==
    /\ app.pc = "dnsClose" /\ NotApp
    /\ PostClose(app.sock)
    /\ app' = Done(app)

-----------------------------------------------------------------------------
(* The hosts: frames that answer what the stack has sent, or that come     *)
(* unasked.                                                                *)

Packet(type, h, mac, dmac, dip, sport, dport, body) ==
    [type |-> type, dmac |-> dmac, smac |-> mac, sip |-> h, dip |-> dip,
     sport |-> sport, dport |-> dport, body |-> body]

ArpFrame(op, dmac, mac, h, tip) ==
    [type |-> "arp", op |-> op, dmac |-> dmac, smac |-> mac, sip |-> h, tip |-> tip]

\* "options": which of "gateway" and "dns" the reply has; a server that gives one
\* names itself.
DhcpReply(v, mac, op, xid, ip, options) ==
    LET told(option) == IF option \in options THEN v ELSE NoAddress
    IN Packet("udp", v, mac, MacBroadcast, Broadcast, ServerPort, DhcpPort,
              [op |-> op, xid |-> xid, mac |-> MyMac, ip |-> ip, server |-> v,
               gateway |-> told("gateway"), dns |-> told("dns")])

DnsReply(v, mac, question, ip) ==
    Packet("udp", v, mac, MyMac, question.sip, DnsPort, question.sport,
           [id |-> question.body.id, name |-> question.body.name, ip |-> ip])

RequestsTo(h) == {f \in DhcpSent(net, "request") : f.body.server = h}
AskedFor == {f \in net.out : f.type = "arp" /\ f.op = "request" /\ f.tip \in Others}
Pinged == {f \in net.out : f.type = "icmp" /\ f.body = "echo request" /\ f.dip \in Others}

\* The frames of a kind that may come in from the host at h with hardware address mac.
Frames(kind, h, mac) ==
    CASE kind = "offer" -> {DhcpReply(h, mac, "offer", f.body.xid, ip, o) :
                              f \in DhcpSent(net, "discover"), ip \in Pool[h], o \in Options[h]}
      [] kind = "ack" -> {DhcpReply(h, mac, "ack", f.body.xid, f.body.ip, o) :
                            f \in RequestsTo(h), o \in Options[h]}
      [] kind = "nack" -> {DhcpReply(h, mac, "nack", f.body.xid, f.body.ip, {}) :
                             f \in RequestsTo(h)}
      [] kind = "arp reply" -> {ArpFrame("reply", MyMac, mac, h, f.sip) :
                                  f \in {x \in AskedFor : x.tip = h}}
      [] kind = "arp request" -> {ArpFrame("request", MacBroadcast, mac, h, net.ip)}
      [] kind = "gratuitous" -> {ArpFrame("request", MacBroadcast, mac, h, h),
                                 ArpFrame("reply", MacBroadcast, mac, h, h)}
      [] kind = "dns" -> UNION {{DnsReply(h, mac, f, ip) : ip \in AnswerOf[f.body.name]} :
                                  f \in {x \in SentTo(net, DnsPort) : x.dip = h}}
      [] kind = "data" -> {Packet("udp", h, mac, MyMac, net.ip, UserPort, port, "data") :
                             port \in {UserPort, UserPort + 1}}
      [] kind = "ping" -> {Packet("icmp", h, mac, MyMac, net.ip, NoPort, NoPort, "echo request")}
      [] kind = "echo" -> {Packet("icmp", h, mac, MyMac, f.sip, NoPort, NoPort, "echo reply") :
                             f \in {x \in Pinged : x.dip = h}}
      [] kind = "other" -> {Packet("udp", h, mac, mac, h, UserPort, UserPort, "data")}

Senders(kind) == IF kind \in {"offer", "ack", "nack", "dns"} THEN Servers ELSE Others

\* The driver puts a frame into a buffer and sends the event; without a buffer
\* the frame stays in its ring, and an event that does not fit frees the buffer.
Arrives(frame) ==
    LET posted == [type |-> "rx", frame |-> frame]
    IN /\ arrivals < plan.arrivals
       /\ net.ready /\ net.free > 0 /\ CanPost(net, posted)
       /\ net' = [xSendEventStructToIPTask(net, posted) EXCEPT !.free = @ - 1]
       /\ arrivals' = arrivals + 1
       /\ UNCHANGED <<plan, ipPc, event, app, lates, heard>>

-----------------------------------------------------------------------------
ChoiceSet == [late : BOOLEAN, due : BOOLEAN, initialised : BOOLEAN,
            sock : Sockets \cup {NoSocket}]

\* The choices that make a difference to the event at hand.
ChoicesNow ==
    {c \in ChoiceSet :
        /\ event.type # "dhcp" => ~c.late
        /\ event.type # "arp" => ~c.due
        /\ event.type # "down" => c.initialised
        /\ IF event.type \in {"dhcp", "down"} THEN c.sock \in FreeSockets(net)
           ELSE c.sock = NoSocket}

IpTask ==
    \/ IpStarts
    \/ \E expired \in SUBSET {"arp", "dhcp"} : IpLoops(expired)
    \/ \E c \in ChoicesNow : IpHandles(c)

Application ==
    \/ \E s \in Sockets \cup {NoSocket} : CallSocket(s) \/ prvCreateDNSSocket(s)
    \/ \E op \in {"bind", "send", "recv", "close"} : CallRefused(op)
    \/ CallBind \/ BindPosts \/ BindReturns
    \/ CallSend \/ CallPing \/ TakesBuffer \/ Posts
    \/ CallRecv \/ Receives \/ \E bit \in BOOLEAN : RecvWakes(bit)
    \/ CallClose
    \/ CallLookup \/ FreeRTOS_dnslookup \/ prvGetHostByName \/ NextAttempt \/ DnsClose
    \/ UpdateRow \/ InsertName
    \/ \E x \in Indices : InsertAddress(x) \/ MoveIndex(x) \/ TurnIndex(x)

Network ==
    \E kind \in plan.frames : \E h \in Senders(kind) : \E mac \in Macs[h] :
        \E frame \in Frames(kind, h, mac) : Arrives(frame)

Next == IpTask \/ Application \/ Network

Spec == Init /\ [][Next]_vars

-----------------------------------------------------------------------------
(* Properties.                                                             *)

HasBuffer(e) == e.type \in {"rx", "tx"}
InsertSteps == {"dnsAddress", "dnsIndex", "dnsWrap"}
ReplySteps == {"dnsParse", "dnsUpdate", "dnsName"} \cup InsertSteps   \* a reply in hand
InEvents == Cardinality({i \in DOMAIN net.evq : HasBuffer(net.evq[i])})
InHands == (IF HasBuffer(event) THEN 1 ELSE 0)
           + (IF app.pc \in {"post", "dnsPost"} \cup ReplySteps THEN 1 ELSE 0)
InSockets == Cardinality(UNION {{s} \X DOMAIN net.socks[s].rx : s \in Sockets})

\* A buffer is freed once and never lost, whatever fails on its way: a full
\* queue, a frame nobody wants, a socket that is closed with packets in it.
\* No two sockets are bound to one port, and a closed socket is nobody's: an
\* application that waits, waits for a socket that is open.
BuffersAndSocketsKept ==
    /\ net.free + InEvents + InHands + InSockets = Buffers
    /\ \A s, t \in Sockets : net.socks[s].bound /\ net.socks[t].bound /\ s # t
                              => net.socks[s].port # net.socks[t].port
    /\ app.pc \in {"bindPost", "bindWait", "recv", "wait", "dnsRecv", "dnsWait", "dnsClose"}
       => net.socks[app.sock].used
    /\ net.dhcp.sock # NoSocket => net.socks[net.dhcp.sock].port = DhcpPort

\* The addresses some name server gave, and those given to names kept as key.
Given == (UNION {AnswerOf[name] : name \in Names}) \ {NoAddress}
GivenTo(key) == (UNION {AnswerOf[name] : name \in {m \in Names : Kept[m] = key}}) \ {NoAddress}

\* While no reply that nobody waited for has changed the table in the middle of
\* an application's look-up or insertion, a name is in the table once, and its row
\* has an address given to a name that begins alike, but for the row that is being
\* written; a lookup returns such an address.
NamesRight ==
    /\ \A x, y \in DnsRows :
          LET row == net.names.rows[x]
          IN row.name # NoName =>
                /\ row.ip \in GivenTo(row.name) \/ (app.pc = "dnsAddress" /\ x = app.row)
                /\ row.name = net.names.rows[y].name => x = y
    /\ app.result # NoAddress => app.result \in GivenTo(Kept[app.asks])

\* An address has one row at most in the ARP cache, and a row that is valid
\* names the hardware address its host was last heard with, in whatever order
\* replies come in.  The DNS table and a lookup never have an address that was
\* given to no name, and they are right until the IP task's insertion of a late
\* reply (FreeRTOS_DNS.c:735) meets the application's (:1205-1215), which takes no
\* lock: from then on a name may have two rows, or the address of another.
CachesRight ==
    /\ ArpRight(net.arp, heard)
    /\ \A x \in DnsRows : net.names.rows[x].ip \in Given \cup {NoAddress}
    /\ app.result \in Given \cup {NoAddress}
    /\ ~net.names.mixed => NamesRight

\* While a lease is held, the address is one that the server this client chose
\* gives out, and that the client asked that server for in the current
\* transaction, whatever late, old or other servers' replies came in between.
\* Nothing of the kind holds of the gateway and the name server: the options of
\* every reply take effect before it is known whether the reply counts
\* (FreeRTOS_DHCP.c:675), and the one that counts need not have them (:733-745).
\* They are some server's, or none.
LeaseIsOurs == LeaseRight(net)
=============================================================================
