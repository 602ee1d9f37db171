------------------------------ MODULE IpProofs ------------------------------
(***************************************************************************)
(* The IP task and its callers, for every number of buffers, sockets, rows *)
(* of the caches and hosts, and for every plan: buffers and sockets are    *)
(* kept, the caches hold what was heard as far as the unlocked DNS table   *)
(* lets them, and the address in use is leased.                            *)
(***************************************************************************)
EXTENDS Ip, SequenceFacts

-----------------------------------------------------------------------------
(* The records.                                                            *)

NetFields == {"ready", "up", "downPending", "client", "ip", "gateway", "dns", "evq", "free",
              "out", "blocked", "arp", "announce", "arpTimer", "dhcpTimer", "socks",
              "nextPort", "dhcp", "names"}
DhcpFields == {"state", "xid", "offered", "server", "period", "sock"}
SockFields == {"used", "bound", "port", "local", "rx", "bits"}
RowFields == {"ip", "mac", "age", "valid"}
AppFields == {"pc", "step", "slot", "then", "sock", "asks", "id", "attempt", "reply", "row",
              "result"}

\* What no property is about: none of these fields is in an invariant but LeaseKept.
Flags == {"ready", "up", "downPending", "client", "ip", "gateway", "dns", "blocked",
          "announce", "arpTimer", "dhcpTimer"}

\* m differs from n in the fields F only.
Changes(n, m, F) == DOMAIN m = DOMAIN n /\ \A x \in DOMAIN n \ F : m[x] = n[x]

IsSeq(q) == q \in Seq(Elems(q))

Formed(n) ==
    /\ DOMAIN n = NetFields /\ DOMAIN n.dhcp = DhcpFields
    /\ DOMAIN n.socks = Sockets
    /\ \A s \in Sockets : DOMAIN n.socks[s] = SockFields /\ IsSeq(n.socks[s].rx)
    /\ \A s \in Sockets : ~n.socks[s].used => n.socks[s] = Closed
    /\ IsSeq(n.evq) /\ n.nextPort \in 1 .. AutoPorts /\ n.free \in Nat

-----------------------------------------------------------------------------
(* What is on its way.                                                     *)

Private == 1 .. AutoPorts

\* A question carries the number and the name of a lookup of this application.
Asked(b, a) ==
    /\ b.id \in Nat /\ b.id <= a.id /\ b.name \in Names
    /\ b.id = a.id => b.name = a.asks

\* A request is for an address the server gives out.
Question(p, a) ==
    /\ p.type = "udp" /\ p.dport = DnsPort => p.sport \in Private /\ Asked(p.body, a)
    /\ p.type = "udp" /\ p.dport = ServerPort /\ p.body.op = "request" =>
          p.body.ip \in Pool[p.body.server]

Answer(b, a) == Asked(b, a) /\ b.ip \in AnswerOf[b.name]

\* A server offers what it has, and acknowledges what it was asked for.
Granted(b, out) ==
    /\ {b.gateway, b.dns} \subseteq Servers \cup {NoAddress}
    /\ b.op = "offer" => b.ip \in Pool[b.server]
    /\ b.op = "ack" =>
          \E f \in out :
              /\ f.type = "udp" /\ f.dport = ServerPort /\ f.body.op = "request"
              /\ f.body.xid = b.xid /\ f.body.ip = b.ip /\ f.body.server = b.server

\* A frame from a host.
FrameRight(f, out, a) ==
    /\ f.sip \in Others /\ f.smac # NoMac
    /\ "type" \in DOMAIN f /\ f.type \in {"arp", "udp", "icmp"}
    /\ f.type = "arp" => f.op \in {"request", "reply"}
    /\ f.type = "udp" =>
          \/ f.sport = ServerPort /\ f.dport = DhcpPort /\ Granted(f.body, out)
          \/ f.sport = DnsPort /\ f.dport \in Private /\ Answer(f.body, a)
          \/ f.sport = UserPort /\ f.dport \in {UserPort, UserPort + 1}

EventTypes == {"down", "rx", "tx", "arp", "bind", "close", "dhcp"}
EventRight(x, out, a) ==
    /\ x.type \in EventTypes
    /\ x.type = "rx" => FrameRight(x.frame, out, a)
    /\ x.type = "tx" => Question(x.packet, a)

OutRight(out, a) == \A f \in out : Question(f, a)

\* What waits in a socket came to the port it is bound to.
InboxRight(socks, out, a) ==
    \A s \in Sockets : \A f \in Elems(socks[s].rx) :
        /\ f.type = "udp" /\ FrameRight(f, out, a)
        /\ socks[s].bound /\ f.dport = socks[s].port

-----------------------------------------------------------------------------
(* Who has a socket.                                                       *)

Resolving(a) ==
    \/ a.pc \in {"dnsBuffer", "dnsPost", "dnsRecv", "dnsWait", "dnsNext", "dnsClose"} \cup ReplySteps
    \/ a.pc \in {"bindPost", "bindWait"} /\ a.then = "dnsBuffer"

Mine(a) == ({a.slot[i] : i \in Slots} \ {NoSocket}) \cup (IF Resolving(a) THEN {a.sock} ELSE {})

Closing(q, e) == {x.sock : x \in {y \in Elems(q) \cup {e} : y.type = "close"}}

\* An event that is about a socket is the only one about it.
Pending(x) == x.type \in {"bind", "close"}
PendingOnce(q, e) ==
    /\ \A i, j \in DOMAIN q : Pending(q[i]) /\ Pending(q[j]) /\ q[i].sock = q[j].sock => i = j
    /\ \A i \in DOMAIN q : Pending(q[i]) /\ Pending(e) => q[i].sock # e.sock

\* A socket is the application's, the DHCP client's, or about to be closed.
Owned(socks, dsock, q, a, e) ==
    /\ Mine(a) \subseteq Sockets /\ Closing(q, e) \subseteq Sockets
    /\ dsock \in Sockets \cup {NoSocket}
    /\ \A s \in Sockets : s \in Mine(a) \cup Closing(q, e) \/ s = dsock => socks[s].used
    /\ \A i, j \in Slots : a.slot[i] = a.slot[j] /\ a.slot[i] # NoSocket => i = j
    /\ Resolving(a) => \A i \in Slots : a.slot[i] # a.sock
    /\ Mine(a) \cap Closing(q, e) = {} /\ dsock \notin Mine(a) \cup Closing(q, e)
    /\ PendingOnce(q, e)

\* The application waits for the one bind there is.
Binding(socks, q, a, e) ==
    /\ \A x \in Elems(q) \cup {e} : x.type = "bind" =>
          /\ a.pc = "bindWait" /\ x.sock = a.sock
          /\ ~socks[a.sock].bound /\ "BOUND" \notin socks[a.sock].bits
    /\ a.pc = "bindPost" => ~socks[a.sock].bound
    /\ \A s \in Sockets : "BOUND" \in socks[s].bits => a.pc = "bindWait" /\ a.sock = s
    /\ a.pc \in {"bindPost", "bindWait", "recv", "wait"} => a.sock \in Mine(a)
    /\ Resolving(a) =>
          IF socks[a.sock].bound THEN socks[a.sock].port \in Private
          ELSE socks[a.sock].local = NoPort /\ a.pc \in {"bindPost", "bindWait", "dnsClose"}

PortsApart(socks) ==
    \A s, t \in Sockets : socks[s].bound /\ socks[t].bound /\ s # t => socks[s].port # socks[t].port

DhcpBound(socks, dsock) ==
    dsock # NoSocket => socks[dsock].bound /\ socks[dsock].port = DhcpPort

-----------------------------------------------------------------------------
(* The buffers and the tables.                                             *)

EventCount(q) == Cardinality({i \in DOMAIN q : HasBuffer(q[i])})
Waiting(socks) == UNION {{s} \X DOMAIN socks[s].rx : s \in Sockets}

\* "hands": the buffers in the hands of the IP task and the application.
Counted(free, q, socks, hands) ==
    /\ hands \in Nat /\ IsFiniteSet(Waiting(socks))
    /\ free + EventCount(q) + hands + Cardinality(Waiting(socks)) = Buffers

ArpKept(arp, told) ==
    /\ DOMAIN arp = Rows /\ \A x \in Rows : DOMAIN arp[x] = RowFields
    /\ DOMAIN told = Others /\ ArpRight(arp, told)

TableFormed(d) ==
    /\ DOMAIN d = {"rows", "free", "busy", "mixed"} /\ DOMAIN d.rows = DnsRows
    /\ \A x \in DnsRows : /\ DOMAIN d.rows[x] = {"name", "ip"}
                          /\ d.rows[x].ip \in Given \cup {NoAddress}

\* The rows are filled from the first on; then they take turns.
FilledUpTo(d, m) ==
    /\ \A x \in DnsRows : d.rows[x].name # NoName <=> x <= m
    /\ m < DnsEntries => d.free = m + 1

RowsRight(d) ==
    \A x, y \in DnsRows : d.rows[x].name # NoName =>
        /\ d.rows[x].ip \in GivenTo(d.rows[x].name)
        /\ d.rows[x].name = d.rows[y].name => x = y

InOrder(d) ==
    d.free \in DnsRows /\ (\E m \in 0 .. DnsEntries : FilledUpTo(d, m)) /\ RowsRight(d)

\* The table as it will be when the insertion that is under way is over.
NextRow(d, x) == WrapIndex([d EXCEPT !.free = x + 1], x + 1)
Finished(d, a) ==
    IF a.pc = "dnsAddress" THEN NextRow(StoreAddress(d, a.row, a.reply.ip), a.row)
    ELSE IF a.pc = "dnsIndex" THEN NextRow(d, a.row)
    ELSE IF a.pc = "dnsWrap" THEN WrapIndex(d, a.row)
    ELSE d

\* What the search, or a step of the insertion, has found still holds.
TableSteps == {"dnsRead", "dnsUpdate", "dnsName"} \cup InsertSteps
FoundAt(d, name, x) == RowsOfName(d, name) # {} /\ x = Min(RowsOfName(d, name))
Searched(d, a) ==
    /\ a.pc = "dnsRead" => FoundAt(d, a.asks, a.row)
    /\ a.pc = "dnsUpdate" => FoundAt(d, a.reply.name, a.row)
    /\ a.pc = "dnsName" => RowsOfName(d, a.reply.name) = {}
    /\ a.pc \in InsertSteps => a.row = d.free

Resolved(a) == a.result # NoAddress => a.result \in GivenTo(Kept[a.asks])

NamesKept(d, a) ==
    /\ TableFormed(d)
    /\ a.pc \in TableSteps => d.busy
    /\ a.pc = "dnsRead" => a.row \in DnsRows
    /\ ~d.mixed => InOrder(Finished(d, a)) /\ Searched(d, a) /\ Resolved(a)

-----------------------------------------------------------------------------
(* The invariant, of a state n of the stack, of what was heard, of the      *)
(* application a, of the event e in the hands of the IP task.               *)

Sound(n, told, a, e, hands) ==
    /\ Formed(n)
    /\ ArpKept(n.arp, told) /\ NamesKept(n.names, a)
    /\ OutRight(n.out, a) /\ InboxRight(n.socks, n.out, a)
    /\ \A x \in Elems(n.evq) : EventRight(x, n.out, a)
    /\ Owned(n.socks, n.dhcp.sock, n.evq, a, e) /\ Binding(n.socks, n.evq, a, e)
    /\ PortsApart(n.socks) /\ DhcpBound(n.socks, n.dhcp.sock)
    /\ Counted(n.free, n.evq, n.socks, hands)

AppHands(a) == IF a.pc \in {"post", "dnsPost"} \cup ReplySteps THEN 1 ELSE 0
EventHands(e) == IF HasBuffer(e) THEN 1 ELSE 0

AppRight(a) ==
    /\ DOMAIN a = AppFields /\ a.step \in Nat \ {0} /\ a.id \in Nat
    /\ DOMAIN a.slot = Slots
    /\ a.then \in {"idle", "buffer", "dnsBuffer"}
    /\ a.pc \in ReplySteps => Answer(a.reply, a)
    /\ a.pc \in ReplySteps \ {"dnsParse"} => a.reply.id = a.id /\ a.reply.ip # NoAddress
    /\ a.result \in Given \cup {NoAddress}

\* The names looked up are names.
Looking(a) == a.pc \in {"dnsRead", "dnsSocket"} \/ Resolving(a)
PlanRight(p, a) == p \in Plans /\ (Looking(a) => a.asks \in Names)

\* A client that waits for a server has a socket to listen at, and one that asks or
\* has asked a server for an address asks for one of that server's.
Routed(n) == {n.gateway, n.dns} \subseteq Servers \cup {NoAddress}
Offered(n) == n.dhcp.offered \in Pool[n.dhcp.server]
LeaseKept(n) ==
    /\ Routed(n)
    /\ n.dhcp.state \in {"WaitingAcknowledge", "LeasedAddress"} => Offered(n)
    /\ n.dhcp.state \in {"WaitingOffer", "WaitingAcknowledge"} => n.dhcp.sock # NoSocket
    /\ LeaseRight(n)

\* Between two events the IP task has none.
InTurn(pc, e, out, a) ==
    \/ pc \in {"start", "loop"} /\ e = NoEvent
    \/ pc = "handle" /\ EventRight(e, out, a)

StackRight ==
    /\ Sound(net, heard, app, event, EventHands(event) + AppHands(app))
    /\ AppRight(app) /\ PlanRight(plan, app)
    /\ InTurn(ipPc, event, net.out, app)
    /\ LeaseKept(net)

-----------------------------------------------------------------------------
(* Queues, and the buffers in them.                                        *)

LEMMA AppendSeq ==
    ASSUME NEW q, IsSeq(q), NEW x
    PROVE  /\ IsSeq(Append(q, x)) /\ Elems(Append(q, x)) = Elems(q) \cup {x}
           /\ Len(q) \in Nat /\ DOMAIN q = 1 .. Len(q)
           /\ DOMAIN Append(q, x) = 1 .. (Len(q) + 1)
           /\ \A i \in 1 .. Len(q) : Append(q, x)[i] = q[i]
           /\ Append(q, x)[Len(q) + 1] = x
<1> DEFINE T == Elems(q) \cup {x}
<1>1. q \in Seq(T) /\ x \in T
  BY SeqDef DEF IsSeq
<1> HIDE DEF T
<1>2. /\ Append(q, x) \in Seq(T) /\ Len(q) \in Nat /\ Len(Append(q, x)) = Len(q) + 1
      /\ DOMAIN q = 1 .. Len(q) /\ DOMAIN Append(q, x) = 1 .. (Len(q) + 1)
      /\ \A i \in 1 .. Len(q) : Append(q, x)[i] = q[i]
      /\ Append(q, x)[Len(q) + 1] = x
  BY <1>1
<1>3. Elems(Append(q, x)) = Elems(q) \cup {x}
  BY <1>1, ElemsAppend
<1>4. IsSeq(Append(q, x))
  BY <1>2, <1>3 DEF IsSeq, T
<1> QED
  BY <1>2, <1>3, <1>4

LEMMA TailSeq ==
    ASSUME NEW q, IsSeq(q), q # <<>>
    PROVE  /\ IsSeq(Tail(q)) /\ Elems(q) = Elems(Tail(q)) \cup {Head(q)}
           /\ Len(q) \in Nat \ {0} /\ DOMAIN q = 1 .. Len(q)
           /\ Len(Tail(q)) = Len(q) - 1 /\ DOMAIN Tail(q) = 1 .. (Len(q) - 1)
           /\ \A i \in 1 .. (Len(q) - 1) : Tail(q)[i] = q[i + 1]
           /\ Head(q) = q[1]
<1> DEFINE T == Elems(q)
<1>1. q \in Seq(T)
  BY DEF IsSeq
<1> HIDE DEF T
<1>2. /\ Tail(q) \in Seq(T)
      /\ Len(q) \in Nat \ {0} /\ DOMAIN q = 1 .. Len(q)
      /\ Len(Tail(q)) = Len(q) - 1 /\ DOMAIN Tail(q) = 1 .. (Len(q) - 1)
      /\ \A i \in 1 .. (Len(q) - 1) : Tail(q)[i] = q[i + 1]
      /\ Head(q) = q[1]
  BY <1>1
<1>3. Elems(q) = Elems(Tail(q)) \cup {Head(q)}
  BY <1>1, ElemsHead
<1>4. Tail(q) \in Seq(Elems(Tail(q)))
  <2> DEFINE t == Tail(q)
  <2>1. t \in [1 .. Len(t) -> Elems(t)] /\ Len(t) \in Nat
    <3>1. t \in Seq(T)
      BY <1>2
    <3> HIDE DEF t
    <3>2. DOMAIN t = 1 .. Len(t) /\ Len(t) \in Nat /\ t = [i \in DOMAIN t |-> t[i]]
      BY <3>1
    <3> QED
      BY <3>2 DEF Elems
  <2> HIDE DEF t
  <2>2. t \in Seq(Elems(t))
    BY <2>1, SeqDef
  <2> QED
    BY <2>2 DEF t
<1> QED
  BY <1>2, <1>3, <1>4 DEF IsSeq

LEMMA NothingQueued == IsSeq(<<>>) /\ Elems(<<>>) = {}
BY ElemsEmpty DEF IsSeq

\* The events that have a buffer, by their places.
Holders(q) == {i \in DOMAIN q : HasBuffer(q[i])}

LEMMA HoldersFinite ==
    ASSUME NEW q, IsSeq(q)
    PROVE  IsFiniteSet(Holders(q)) /\ EventCount(q) \in Nat
           /\ EventCount(q) = Cardinality(Holders(q))
<1>1. DOMAIN q = 1 .. Len(q) /\ Len(q) \in Nat
  BY DEF IsSeq
<1>2. IsFiniteSet(1 .. Len(q))
  BY <1>1, FS_Interval
<1>3. IsFiniteSet(Holders(q))
  BY <1>1, <1>2, FS_Subset DEF Holders
<1> QED
  BY <1>3, FS_CardinalityType DEF EventCount, Holders

LEMMA CountAppend ==
    ASSUME NEW q, IsSeq(q), NEW x
    PROVE  EventCount(Append(q, x)) = EventCount(q) + EventHands(x)
<1>1. /\ IsSeq(Append(q, x)) /\ Len(q) \in Nat /\ DOMAIN q = 1 .. Len(q)
      /\ DOMAIN Append(q, x) = 1 .. (Len(q) + 1)
      /\ \A i \in 1 .. Len(q) : Append(q, x)[i] = q[i]
      /\ Append(q, x)[Len(q) + 1] = x
  BY AppendSeq
<1> DEFINE r == Append(q, x)
<1> HIDE DEF r
<1>2. Holders(r) = Holders(q) \cup (IF HasBuffer(x) THEN {Len(q) + 1} ELSE {})
  <2>1. 1 .. (Len(q) + 1) = (1 .. Len(q)) \cup {Len(q) + 1}
    BY <1>1
  <2> QED
    BY <1>1, <2>1 DEF r, Holders
<1>3. Len(q) + 1 \notin Holders(q)
  BY <1>1 DEF Holders
<1>4. Cardinality(Holders(q) \cup {Len(q) + 1}) = Cardinality(Holders(q)) + 1
  BY <1>3, HoldersFinite, FS_AddElement
<1>5. EventCount(r) = Cardinality(Holders(r)) /\ EventCount(q) = Cardinality(Holders(q))
      /\ EventCount(q) \in Nat
  BY <1>1, HoldersFinite DEF r
<1>6. CASE HasBuffer(x)
  BY <1>2, <1>4, <1>5, <1>6 DEF EventHands, r
<1>7. CASE ~HasBuffer(x)
  <2>1. Holders(r) = Holders(q)
    BY <1>2, <1>7
  <2> QED
    BY <1>5, <1>7, <2>1 DEF EventHands, r
<1> QED
  BY <1>6, <1>7

LEMMA CountTail ==
    ASSUME NEW q, IsSeq(q), q # <<>>
    PROVE  EventCount(q) = EventCount(Tail(q)) + EventHands(Head(q))
<1> DEFINE r == Tail(q)
           rest == Holders(q) \ {1}
           back == [i \in Holders(r) |-> i + 1]
<1>1. /\ IsSeq(r) /\ Len(q) \in Nat \ {0} /\ DOMAIN q = 1 .. Len(q)
      /\ DOMAIN r = 1 .. (Len(q) - 1)
      /\ \A i \in 1 .. (Len(q) - 1) : r[i] = q[i + 1]
      /\ Head(q) = q[1]
  BY TailSeq
<1> HIDE DEF r
<1>2. \A i \in Holders(r) : i \in Nat /\ i + 1 \in rest
  BY <1>1 DEF Holders
<1>3. \A j \in rest : j - 1 \in Holders(r) /\ (j - 1) + 1 = j
  <2> SUFFICES ASSUME NEW j \in rest PROVE j - 1 \in Holders(r) /\ (j - 1) + 1 = j
    OBVIOUS
  <2>1. j \in 1 .. Len(q) /\ j # 1 /\ HasBuffer(q[j])
    BY <1>1 DEF Holders
  <2>2. j - 1 \in 1 .. (Len(q) - 1) /\ (j - 1) + 1 = j
    BY <1>1, <2>1
  <2> QED
    BY <1>1, <2>1, <2>2 DEF Holders
<1>4. back \in Bijection(Holders(r), rest)
  <2>1. back \in [Holders(r) -> rest]
    BY <1>2
  <2>2. \A i, j \in Holders(r) : back[i] = back[j] => i = j
    BY <1>2
  <2>3. \A j \in rest : \E i \in Holders(r) : back[i] = j
    BY <1>3
  <2> HIDE DEF back, rest
  <2> QED
    BY <2>1, <2>2, <2>3 DEF Bijection, Injection, IsInjective, Surjection
<1>5. Cardinality(Holders(r)) = Cardinality(rest)
  <2>1. ExistsBijection(Holders(r), rest)
    <3> HIDE DEF back, rest
    <3> QED
      BY <1>4 DEF ExistsBijection
  <2> QED
    BY <1>1, <2>1, HoldersFinite, FS_Bijection
<1>6. /\ EventCount(r) = Cardinality(Holders(r)) /\ EventCount(r) \in Nat
      /\ EventCount(q) = Cardinality(Holders(q)) /\ EventCount(q) \in Nat
      /\ IsFiniteSet(Holders(q))
  BY <1>1, HoldersFinite
<1>7. Cardinality(rest) = IF 1 \in Holders(q) THEN Cardinality(Holders(q)) - 1
                          ELSE Cardinality(Holders(q))
  BY <1>6, FS_RemoveElement
<1>8. 1 \in Holders(q) <=> HasBuffer(Head(q))
  BY <1>1 DEF Holders
<1> HIDE DEF rest
<1> QED
  BY <1>5, <1>6, <1>7, <1>8 DEF EventHands, r

\* The packets that wait, when one socket has other packets than before.
Elsewhere(socks, s) == UNION {{t} \X DOMAIN socks[t].rx : t \in Sockets \ {s}}

LEMMA WaitingIn ==
    ASSUME NEW socks, NEW s \in Sockets, IsSeq(socks[s].rx), IsFiniteSet(Elsewhere(socks, s))
    PROVE  /\ IsFiniteSet(Waiting(socks)) /\ Len(socks[s].rx) \in Nat
           /\ Cardinality(Elsewhere(socks, s)) \in Nat
           /\ Cardinality(Waiting(socks)) = Cardinality(Elsewhere(socks, s)) + Len(socks[s].rx)
<1> DEFINE k == Len(socks[s].rx)
           here == {s} \X (1 .. k)
           there == Elsewhere(socks, s)
<1>1. k \in Nat /\ DOMAIN socks[s].rx = 1 .. k
  BY DEF IsSeq
<1>2. Waiting(socks) = there \cup here /\ there \cap here = {}
  BY <1>1 DEF Waiting, Elsewhere
<1> HIDE DEF k, there
<1>3. IsFiniteSet(1 .. k) /\ Cardinality(1 .. k) = k
  BY <1>1, FS_Interval
<1>4. IsFiniteSet({s}) /\ Cardinality({s}) = 1
  BY FS_Singleton
<1>5. IsFiniteSet(here) /\ Cardinality(here) = 1 * k
  <2> DEFINE one == {s}
             upTo == 1 .. k
  <2>1. IsFiniteSet(one) /\ IsFiniteSet(upTo) /\ Cardinality(one) = 1 /\ Cardinality(upTo) = k
        /\ here = one \X upTo
    BY <1>3, <1>4
  <2> HIDE DEF one, upTo, here
  <2>2. IsFiniteSet(one \X upTo)
        /\ Cardinality(one \X upTo) = Cardinality(one) * Cardinality(upTo)
    BY <2>1, FS_Product
  <2> QED
    BY <2>1, <2>2
<1> HIDE DEF here
<1>6. IsFiniteSet(there) /\ Cardinality(there) \in Nat
  BY FS_CardinalityType DEF there
<1>7. IsFiniteSet(there \cup here)
      /\ Cardinality(there \cup here)
           = Cardinality(there) + Cardinality(here) - Cardinality(there \cap here)
  BY <1>5, <1>6, FS_Union
<1>8. Cardinality(there \cap here) = 0
  BY <1>2, FS_EmptySet
<1>9. Cardinality(there \cup here) = Cardinality(there) + k
  BY <1>1, <1>5, <1>6, <1>7, <1>8
<1> QED
  BY <1>1, <1>2, <1>6, <1>7, <1>9 DEF there, k

LEMMA WaitingOne ==
    ASSUME NEW socks, NEW after, NEW s \in Sockets,
           IsSeq(socks[s].rx), IsSeq(after[s].rx), IsFiniteSet(Waiting(socks)),
           \A t \in Sockets \ {s} : after[t].rx = socks[t].rx
    PROVE  /\ IsFiniteSet(Waiting(after))
           /\ Len(socks[s].rx) \in Nat /\ Len(after[s].rx) \in Nat
           /\ Cardinality(Waiting(socks)) \in Nat /\ Cardinality(Waiting(after)) \in Nat
           /\ Cardinality(Waiting(after)) + Len(socks[s].rx)
                = Cardinality(Waiting(socks)) + Len(after[s].rx)
<1>1. Elsewhere(after, s) = Elsewhere(socks, s)
  BY DEF Elsewhere
<1>2. Elsewhere(socks, s) \subseteq Waiting(socks)
  BY DEF Elsewhere, Waiting
<1>3. IsFiniteSet(Elsewhere(socks, s))
  BY <1>2, FS_Subset
<1>4. /\ IsFiniteSet(Waiting(socks)) /\ Len(socks[s].rx) \in Nat
      /\ Cardinality(Elsewhere(socks, s)) \in Nat
      /\ Cardinality(Waiting(socks)) = Cardinality(Elsewhere(socks, s)) + Len(socks[s].rx)
  BY <1>3, WaitingIn
<1>5. /\ IsFiniteSet(Waiting(after)) /\ Len(after[s].rx) \in Nat
      /\ Cardinality(Elsewhere(after, s)) \in Nat
      /\ Cardinality(Waiting(after)) = Cardinality(Elsewhere(socks, s)) + Len(after[s].rx)
  BY <1>1, <1>3, WaitingIn
<1>6. ASSUME NEW r \in Nat, NEW k \in Nat, NEW m \in Nat
      PROVE  (r + m) + k = (r + k) + m /\ r + k \in Nat /\ r + m \in Nat
  OBVIOUS
<1> QED
  BY <1>4, <1>5, <1>6

\* No socket holds a packet that does not come to a place of its own.
LEMMA WaitingSame ==
    ASSUME NEW socks, NEW after, \A t \in Sockets : after[t].rx = socks[t].rx
    PROVE  Waiting(after) = Waiting(socks)
BY DEF Waiting

-----------------------------------------------------------------------------
(* The ARP cache.                                                          *)

LEMMA HighestOfOne ==
    ASSUME NEW x \in Nat
    PROVE  Max({x}) = x /\ Min({x}) = x
BY DEF Max, Min

LEMMA RefreshHeard ==
    ASSUME NEW c, NEW told, ArpKept(c, told), NEW local, NEW mac, NEW ip \in Others, mac # NoMac
    PROVE  ArpKept(vARPRefreshCacheEntry(c, local, mac, ip), [told EXCEPT ![ip] = mac])
<1> DEFINE same == {x \in Rows : mac # NoMac /\ c[x].ip = ip /\ c[x].mac = mac}
           rowsOfIp == {x \in Rows : c[x].ip = ip}
           rowsOfMac == {x \in Rows : mac # NoMac /\ c[x].ip # ip /\ c[x].mac = mac}
           oldest == Oldest(c, Rows \ (rowsOfIp \cup rowsOfMac))
           use == IF rowsOfMac # {} THEN Max(rowsOfMac)
                  ELSE IF rowsOfIp # {} THEN Max(rowsOfIp) ELSE oldest
           cleared == IF rowsOfMac # {} /\ rowsOfIp # {}
                      THEN [c EXCEPT ![Max(rowsOfIp)] = EmptyRow] ELSE c
           row == [ip |-> ip, mac |-> mac, age |-> MaxAge, valid |-> TRUE]
           after == [told EXCEPT ![ip] = mac]
<1>1. ip \in OnLink /\ ip # NoAddress
  BY IpAssumption, ArpAssumption
<1>2. vARPRefreshCacheEntry(c, local, mac, ip) =
        IF same # {} THEN [c EXCEPT ![Min(same)].age = MaxAge, ![Min(same)].valid = TRUE]
        ELSE [cleared EXCEPT ![use] = row]
  BY <1>1 DEF vARPRefreshCacheEntry
<1>3. /\ DOMAIN c = Rows /\ \A x \in Rows : DOMAIN c[x] = RowFields
      /\ DOMAIN told = Others
      /\ \A x, y \in Rows : c[x].ip # NoAddress /\ c[x].ip = c[y].ip => x = y
      /\ \A x \in Rows : c[x].valid /\ c[x].ip \in Others => c[x].mac = told[c[x].ip]
  BY DEF ArpKept, ArpRight
<1>4. /\ DOMAIN after = Others /\ after[ip] = mac
      /\ \A h \in Others : h # ip => after[h] = told[h]
  BY <1>3
<1> HIDE DEF after
<1>5. Rows \subseteq Nat
  BY ArpAssumption DEF Rows
<1>6. CASE same # {}
  <2>1. PICK r \in Rows : same = {r} /\ c[r].ip = ip /\ c[r].mac = mac
    BY <1>1, <1>3, <1>6
  <2>2. Min(same) = r
    BY <1>5, <2>1, HighestOfOne
  <2> DEFINE d == [c EXCEPT ![r].age = MaxAge, ![r].valid = TRUE]
  <2>3. /\ DOMAIN d = Rows /\ \A x \in Rows : DOMAIN d[x] = RowFields
        /\ \A x \in Rows : d[x].ip = c[x].ip /\ d[x].mac = c[x].mac
        /\ \A x \in Rows : x # r => d[x].valid = c[x].valid
    BY <1>3 DEF RowFields
  <2> HIDE DEF d
  <2>4. ArpKept(d, after)
    BY <1>1, <1>3, <1>4, <2>1, <2>3 DEF ArpKept, ArpRight
  <2>5. vARPRefreshCacheEntry(c, local, mac, ip) = d
    <3> HIDE DEF same, cleared, use
    <3> QED
      BY <1>2, <1>6, <2>2 DEF d
  <2> QED
    BY <2>4, <2>5 DEF after
<1>7. CASE same = {}
  <2> DEFINE d == [cleared EXCEPT ![use] = row]
  <2>1. \A x, y \in rowsOfIp : x = y
    BY <1>1, <1>3
  <2>2. /\ DOMAIN cleared = Rows /\ \A x \in Rows : DOMAIN cleared[x] = RowFields
        /\ \A x \in Rows : \/ cleared[x] = c[x] /\ (x # use => c[x].ip # ip)
                           \/ cleared[x].ip = NoAddress
    <3>1. CASE rowsOfIp = {}
      <4>1. cleared = c
        BY <3>1
      <4>2. \A x \in Rows : c[x].ip # ip
        BY <3>1
      <4> HIDE DEF cleared, use
      <4> QED
        BY <1>3, <4>1, <4>2
    <3>2. CASE rowsOfIp # {}
      <4>1. PICK r \in Rows : rowsOfIp = {r}
        BY <2>1, <3>2
      <4>2. Max(rowsOfIp) = r
        BY <1>5, <4>1, HighestOfOne
      <4>3. \A x \in Rows : x # r => c[x].ip # ip
        BY <4>1
      <4>4. CASE rowsOfMac # {}
        <5>1. cleared = [c EXCEPT ![r] = EmptyRow]
          BY <3>2, <4>2, <4>4
        <5> HIDE DEF cleared, use
        <5>2. DOMAIN EmptyRow = RowFields /\ EmptyRow.ip = NoAddress
          BY DEF EmptyRow, RowFields
        <5> QED
          BY <1>3, <4>3, <5>1, <5>2
      <4>5. CASE rowsOfMac = {}
        <5>1. cleared = c /\ use = r
          BY <3>2, <4>2, <4>5
        <5> HIDE DEF cleared, use
        <5> QED
          BY <1>3, <4>3, <5>1
      <4> QED
        BY <4>4, <4>5
    <3> QED
      BY <3>1, <3>2
  <2>3. vARPRefreshCacheEntry(c, local, mac, ip) = d
    <3> HIDE DEF same, cleared, use
    <3> QED
      BY <1>2, <1>7 DEF d
  <2> HIDE DEF same, rowsOfIp, rowsOfMac, oldest, use, cleared
  <2>4. DOMAIN row = RowFields /\ row.ip = ip /\ row.mac = mac
    BY DEF RowFields
  <2> HIDE DEF row
  <2>5. /\ DOMAIN d = Rows
        /\ \A x \in Rows : d[x] = IF x = use THEN row ELSE cleared[x]
    BY <2>2
  <2> HIDE DEF d
  <2>6. \A x \in Rows : DOMAIN d[x] = RowFields
    BY <2>2, <2>4, <2>5
  <2>7. \A x \in Rows : \/ x = use /\ d[x] = row
                        \/ d[x] = c[x] /\ c[x].ip # ip
                        \/ d[x].ip = NoAddress
    BY <2>2, <2>5
  <2>8. ArpRight(d, after)
    <3>1. \A x, y \in Rows : d[x].ip # NoAddress /\ d[x].ip = d[y].ip => x = y
      BY <1>3, <2>4, <2>7
    <3>2. \A x \in Rows : d[x].valid /\ d[x].ip \in Others => d[x].mac = after[d[x].ip]
      BY <1>1, <1>3, <1>4, <2>4, <2>7, IpAssumption, ArpAssumption
    <3> QED
      BY <3>1, <3>2 DEF ArpRight
  <2> QED
    BY <1>4, <2>3, <2>5, <2>6, <2>8 DEF ArpKept, after
<1> QED
  BY <1>6, <1>7

\* A row that is asked for is not valid yet.
LEMMA RefreshAsked ==
    ASSUME NEW c, NEW told, ArpKept(c, told), NEW local, NEW ip
    PROVE  ArpKept(vARPRefreshCacheEntry(c, local, NoMac, ip), told)
<1> DEFINE rowsOfIp == {x \in Rows : c[x].ip = ip}
           d == vARPRefreshCacheEntry(c, local, NoMac, ip)
<1>1. \/ d = c
      \/ rowsOfIp = {} /\ \E use : d = [c EXCEPT ![use] = [@ EXCEPT !.ip = ip,
                                         !.age = MaxRetransmissions, !.valid = FALSE]]
  BY DEF vARPRefreshCacheEntry
<1> HIDE DEF d
<1>2. /\ DOMAIN c = Rows /\ \A x \in Rows : DOMAIN c[x] = RowFields
      /\ DOMAIN told = Others
      /\ \A x, y \in Rows : c[x].ip # NoAddress /\ c[x].ip = c[y].ip => x = y
      /\ \A x \in Rows : c[x].valid /\ c[x].ip \in Others => c[x].mac = told[c[x].ip]
  BY DEF ArpKept, ArpRight
<1>3. CASE d = c
  BY <1>3 DEF d
<1>4. ASSUME NEW use, rowsOfIp = {},
             d = [c EXCEPT ![use] = [@ EXCEPT !.ip = ip,
                                     !.age = MaxRetransmissions, !.valid = FALSE]]
      PROVE  ArpKept(d, told)
  <2>1. /\ DOMAIN d = Rows
        /\ \A x \in Rows : x # use => d[x] = c[x]
        /\ \A x \in Rows : DOMAIN d[x] = RowFields
        /\ \A x \in Rows : x = use => d[x].ip = ip /\ d[x].valid = FALSE
    BY <1>2, <1>4 DEF RowFields
  <2>2. \A x \in Rows : c[x].ip # ip
    BY <1>4
  <2> QED
    BY <1>2, <2>1, <2>2 DEF ArpKept, ArpRight
<1> QED
  BY <1>1, <1>3, <1>4 DEF d

LEMMA AgeKeeps ==
    ASSUME NEW c, NEW told, ArpKept(c, told), NEW local
    PROVE  ArpKept(vARPAgeCache(c, local).arp, told)
<1> DEFINE d == vARPAgeCache(c, local).arp
           aged(x) == IF c[x].age = 0 THEN c[x]
                      ELSE IF c[x].age = 1 THEN [c[x] EXCEPT !.age = 0, !.ip = NoAddress]
                      ELSE [c[x] EXCEPT !.age = @ - 1]
<1>1. /\ DOMAIN c = Rows /\ \A x \in Rows : DOMAIN c[x] = RowFields
      /\ DOMAIN told = Others
      /\ \A x, y \in Rows : c[x].ip # NoAddress /\ c[x].ip = c[y].ip => x = y
      /\ \A x \in Rows : c[x].valid /\ c[x].ip \in Others => c[x].mac = told[c[x].ip]
  BY DEF ArpKept, ArpRight
<1>2. d = [x \in Rows |-> aged(x)]
  BY DEF vARPAgeCache
<1>3. \A x \in Rows : /\ DOMAIN aged(x) = RowFields
                      /\ aged(x).valid = c[x].valid /\ aged(x).mac = c[x].mac
                      /\ aged(x).ip = c[x].ip \/ aged(x).ip = NoAddress
  BY <1>1 DEF RowFields
<1>4. DOMAIN d = Rows /\ \A x \in Rows : d[x] = aged(x)
  BY <1>2
<1> HIDE DEF d, aged
<1>5. /\ \A x \in Rows : DOMAIN d[x] = RowFields
      /\ \A x \in Rows : d[x].valid = c[x].valid /\ d[x].mac = c[x].mac
      /\ \A x \in Rows : d[x].ip = c[x].ip \/ d[x].ip = NoAddress
  BY <1>3, <1>4
<1>6. ArpRight(d, told)
  <2>1. \A x, y \in Rows : d[x].ip # NoAddress /\ d[x].ip = d[y].ip => x = y
    BY <1>1, <1>5
  <2>2. \A x \in Rows : d[x].valid /\ d[x].ip \in Others => d[x].mac = told[d[x].ip]
    BY <1>1, <1>5, IpAssumption, ArpAssumption
  <2> QED
    BY <2>1, <2>2 DEF ArpRight
<1>7. ArpKept(d, told)
  BY <1>1, <1>4, <1>5, <1>6 DEF ArpKept
<1> QED
  BY <1>7 DEF d

-----------------------------------------------------------------------------
(* The table of names.                                                     *)

\* The addresses given to a name are given to what is kept of it.
LEMMA GivenKept ==
    /\ \A name \in Names : \A ip \in AnswerOf[name] : ip # NoAddress =>
          ip \in GivenTo(Kept[name]) /\ ip \in Given
    /\ \A key : GivenTo(key) \subseteq Given
    /\ NoAddress \notin Given
BY DEF Given, GivenTo

\* What is in order is so whoever is at the table.
LEMMA SameTable ==
    ASSUME NEW d, NEW e, e.rows = d.rows
    PROVE  /\ e.free = d.free /\ InOrder(d) => InOrder(e)
           /\ \A name : RowsOfName(e, name) = RowsOfName(d, name)
           /\ \A name, x : FoundAt(d, name, x) => FoundAt(e, name, x)
<1>1. \A name : RowsOfName(e, name) = RowsOfName(d, name)
  BY DEF RowsOfName
<1>2. e.free = d.free /\ InOrder(d) => InOrder(e)
  BY DEF InOrder, FilledUpTo, RowsRight
<1> QED
  BY <1>1, <1>2 DEF FoundAt

LEMMA SameFinished ==
    ASSUME NEW d, NEW e, TableFormed(d), TableFormed(e), e.rows = d.rows, e.free = d.free,
           NEW a, InOrder(Finished(d, a)), Searched(d, a)
    PROVE  InOrder(Finished(e, a)) /\ Searched(e, a)
<1>1. /\ DOMAIN d = {"rows", "free", "busy", "mixed"} /\ DOMAIN d.rows = DnsRows
      /\ DOMAIN e = {"rows", "free", "busy", "mixed"}
  BY DEF TableFormed
<1>2. \A x : NextRow(e, x).rows = NextRow(d, x).rows /\ NextRow(e, x).free = NextRow(d, x).free
  BY <1>1 DEF NextRow, WrapIndex
<1>3. \A x, ip : /\ StoreAddress(e, x, ip).rows = StoreAddress(d, x, ip).rows
                 /\ StoreAddress(e, x, ip).free = StoreAddress(d, x, ip).free
                 /\ DOMAIN StoreAddress(e, x, ip) = DOMAIN e
                 /\ DOMAIN StoreAddress(d, x, ip) = DOMAIN d
  BY <1>1 DEF StoreAddress
<1>4. \A x, ip : /\ NextRow(StoreAddress(e, x, ip), x).rows = NextRow(StoreAddress(d, x, ip), x).rows
                 /\ NextRow(StoreAddress(e, x, ip), x).free = NextRow(StoreAddress(d, x, ip), x).free
  BY <1>1, <1>3 DEF NextRow, WrapIndex
<1>5. \A x : WrapIndex(e, x).rows = WrapIndex(d, x).rows /\ WrapIndex(e, x).free = WrapIndex(d, x).free
  BY <1>1 DEF WrapIndex
<1>6. Finished(e, a).rows = Finished(d, a).rows /\ Finished(e, a).free = Finished(d, a).free
  BY <1>2, <1>4, <1>5 DEF Finished
<1>7. InOrder(Finished(e, a))
  BY <1>6, SameTable
<1> QED
  BY <1>7, SameTable DEF Searched

\* The accesses to the table, one by one.
LEMMA StoresFormed ==
    ASSUME NEW d, TableFormed(d), NEW x
    PROVE  /\ \A name : /\ TableFormed(StoreName(d, x, name))
                        /\ StoreName(d, x, name).free = d.free
                        /\ StoreName(d, x, name).busy = d.busy
                        /\ StoreName(d, x, name).mixed = d.mixed
           /\ \A ip \in Given \cup {NoAddress} :
                        /\ TableFormed(StoreAddress(d, x, ip))
                        /\ StoreAddress(d, x, ip).free = d.free
                        /\ StoreAddress(d, x, ip).busy = d.busy
                        /\ StoreAddress(d, x, ip).mixed = d.mixed
           /\ TableFormed(WrapIndex(d, x)) /\ WrapIndex(d, x).rows = d.rows
           /\ WrapIndex(d, x).busy = d.busy /\ WrapIndex(d, x).mixed = d.mixed
           /\ WrapIndex(d, x).free = IF x = DnsEntries + 1 THEN 1 ELSE d.free
<1>1. /\ DOMAIN d = {"rows", "free", "busy", "mixed"} /\ DOMAIN d.rows = DnsRows
      /\ \A y \in DnsRows : DOMAIN d.rows[y] = {"name", "ip"}
                            /\ d.rows[y].ip \in Given \cup {NoAddress}
  BY DEF TableFormed
<1>2. ASSUME NEW name
      PROVE  /\ TableFormed(StoreName(d, x, name)) /\ StoreName(d, x, name).free = d.free
             /\ StoreName(d, x, name).busy = d.busy /\ StoreName(d, x, name).mixed = d.mixed
  BY <1>1 DEF StoreName, TableFormed
<1>3. ASSUME NEW ip \in Given \cup {NoAddress}
      PROVE  /\ TableFormed(StoreAddress(d, x, ip)) /\ StoreAddress(d, x, ip).free = d.free
             /\ StoreAddress(d, x, ip).busy = d.busy /\ StoreAddress(d, x, ip).mixed = d.mixed
  BY <1>1 DEF StoreAddress, TableFormed
<1>4. /\ TableFormed(WrapIndex(d, x)) /\ WrapIndex(d, x).rows = d.rows
      /\ WrapIndex(d, x).busy = d.busy /\ WrapIndex(d, x).mixed = d.mixed
      /\ WrapIndex(d, x).free = IF x = DnsEntries + 1 THEN 1 ELSE d.free
  BY <1>1 DEF WrapIndex, TableFormed
<1> QED
  BY <1>2, <1>3, <1>4

LEMMA FreeFormed ==
    ASSUME NEW d, TableFormed(d), NEW x
    PROVE  /\ TableFormed([d EXCEPT !.free = x]) /\ TableFormed([d EXCEPT !.busy = x])
           /\ [d EXCEPT !.free = x].rows = d.rows /\ [d EXCEPT !.free = x].free = x
           /\ [d EXCEPT !.free = x].busy = d.busy /\ [d EXCEPT !.free = x].mixed = d.mixed
           /\ [d EXCEPT !.busy = x].rows = d.rows /\ [d EXCEPT !.busy = x].free = d.free
           /\ [d EXCEPT !.busy = x].busy = x /\ [d EXCEPT !.busy = x].mixed = d.mixed
BY DEF TableFormed

\* The whole function, and what it does to a table that has no row for the name.
LEMMA ProcessFormed ==
    ASSUME NEW d, TableFormed(d), NEW name, NEW ip \in Given
    PROVE  /\ TableFormed(prvProcessDNSCache(d, name, ip))
           /\ prvProcessDNSCache(d, name, ip).busy = d.busy
           /\ prvProcessDNSCache(d, name, ip).mixed = d.mixed
           /\ RowsOfName(d, name) = {} =>
                 prvProcessDNSCache(d, name, ip)
                   = NextRow(StoreAddress(StoreName(d, d.free, name), d.free, ip), d.free)
           /\ \A x : FoundAt(d, name, x) =>
                 prvProcessDNSCache(d, name, ip) = StoreAddress(d, x, ip)
<1> DEFINE stored == StoreAddress(StoreName(d, d.free, name), d.free, ip)
           moved == [stored EXCEPT !.free = d.free + 1]
           e == prvProcessDNSCache(d, name, ip)
<1>1. TableFormed(StoreName(d, d.free, name)) /\ StoreName(d, d.free, name).free = d.free
      /\ StoreName(d, d.free, name).busy = d.busy /\ StoreName(d, d.free, name).mixed = d.mixed
  BY StoresFormed
<1>2. /\ TableFormed(stored) /\ stored.free = d.free
      /\ stored.busy = d.busy /\ stored.mixed = d.mixed
  BY <1>1, StoresFormed
<1>3. e = IF RowsOfName(d, name) # {} THEN StoreAddress(d, Min(RowsOfName(d, name)), ip)
          ELSE WrapIndex([stored EXCEPT !.free = @ + 1], d.free + 1)
  BY Zenon DEF prvProcessDNSCache
<1>4. RowsOfName(d, name) = {} => e = WrapIndex(moved, d.free + 1)
                                  /\ e = NextRow(stored, d.free)
  BY <1>2, <1>3 DEF NextRow
<1>5. \A x : FoundAt(d, name, x) => e = StoreAddress(d, x, ip)
  BY <1>3 DEF FoundAt
<1> HIDE DEF e, stored
<1>6. TableFormed(moved) /\ moved.busy = d.busy /\ moved.mixed = d.mixed
  BY <1>2 DEF TableFormed
<1> HIDE DEF moved
<1>7. CASE RowsOfName(d, name) = {}
  <2>1. TableFormed(e) /\ e.busy = d.busy /\ e.mixed = d.mixed
    BY <1>4, <1>6, <1>7, StoresFormed
  <2> QED
    BY <1>4, <1>5, <2>1 DEF e, stored
<1>8. CASE RowsOfName(d, name) # {}
  <2>1. e = StoreAddress(d, Min(RowsOfName(d, name)), ip)
    BY <1>3, <1>8 DEF e
  <2>2. ip \in Given \cup {NoAddress}
    OBVIOUS
  <2>3. \A x : /\ TableFormed(StoreAddress(d, x, ip))
               /\ StoreAddress(d, x, ip).busy = d.busy /\ StoreAddress(d, x, ip).mixed = d.mixed
    BY <2>2, StoresFormed
  <2>4. TableFormed(e) /\ e.busy = d.busy /\ e.mixed = d.mixed
    BY <2>1, <2>3
  <2> QED
    BY <1>5, <1>8, <2>4 DEF e
<1> QED
  BY <1>7, <1>8

\* The search for a name sees the row that has it.
LEMMA NameFound ==
    ASSUME NEW d, InOrder(d), NEW name \in Names
    PROVE  \/ RowsOfName(d, name) = {} /\ \A x \in DnsRows : d.rows[x].name # Kept[name]
           \/ \E r \in DnsRows : /\ RowsOfName(d, name) = {r} /\ Min(RowsOfName(d, name)) = r
                                 /\ d.rows[r].name = Kept[name]
                                 /\ \A x \in DnsRows : d.rows[x].name = Kept[name] => x = r
<1> DEFINE rows == RowsOfName(d, name)
           key == Kept[name]
<1>1. PICK m \in 0 .. DnsEntries : FilledUpTo(d, m)
  BY DEF InOrder
<1>2. DnsEntries \in Nat /\ DnsRows = 1 .. DnsEntries /\ key # NoName
  BY DnsAssumption, IpAssumption DEF DnsRows
<1> HIDE DEF key
<1>3. \A x \in DnsRows : d.rows[x].name = key => x \in rows
  <2> SUFFICES ASSUME NEW x \in DnsRows, d.rows[x].name = key, NEW y \in 1 .. x
               PROVE  d.rows[y].name # NoName
    BY DEF RowsOfName, key
  <2>1. x <= m
    BY <1>1, <1>2 DEF FilledUpTo
  <2>2. y \in DnsRows /\ y <= m
    BY <1>2, <2>1
  <2> QED
    BY <1>1, <2>2 DEF FilledUpTo
<1>4. \A x \in rows : x \in DnsRows /\ d.rows[x].name = key
  BY DEF RowsOfName, key
<1>5. \A x, y \in DnsRows : d.rows[x].name = key /\ d.rows[y].name = key => x = y
  BY <1>2 DEF InOrder, RowsRight
<1> HIDE DEF rows
<1>6. CASE rows = {}
  BY <1>3, <1>6 DEF rows, key
<1>7. ASSUME NEW r \in rows
      PROVE  /\ rows = {r} /\ Min(rows) = r /\ r \in DnsRows /\ d.rows[r].name = key
             /\ \A x \in DnsRows : d.rows[x].name = key => x = r
  <2>1. rows = {r} /\ r \in DnsRows /\ d.rows[r].name = key
    BY <1>4, <1>5
  <2>2. r \in Nat
    BY <1>2, <2>1
  <2>3. Min({r}) = r
    BY <2>2, HighestOfOne
  <2> QED
    BY <1>5, <2>1, <2>3
<1> QED
  BY <1>6, <1>7 DEF rows, key

\* The row that the search for a name has found has an address of that name, or of
\* one that begins alike.
LEMMA LookupRight ==
    ASSUME NEW d, InOrder(d), NEW name \in Names, NEW x, FoundAt(d, name, x)
    PROVE  x \in DnsRows /\ d.rows[x].ip \in GivenTo(Kept[name])
<1>1. PICK r \in DnsRows : Min(RowsOfName(d, name)) = r /\ d.rows[r].name = Kept[name]
  BY NameFound DEF FoundAt
<1> QED
  BY <1>1, IpAssumption DEF FoundAt, InOrder, RowsRight

\* A table in order is so with one name more.
LEMMA NamesStored ==
    ASSUME NEW d, TableFormed(d), InOrder(d), NEW name \in Names,
           NEW ip \in AnswerOf[name], ip # NoAddress
    PROVE  InOrder(prvProcessDNSCache(d, name, ip))
<1> DEFINE e == prvProcessDNSCache(d, name, ip)
           key == Kept[name]
           stored == StoreAddress(StoreName(d, d.free, name), d.free, ip)
<1>1. /\ DOMAIN d = {"rows", "free", "busy", "mixed"} /\ DOMAIN d.rows = DnsRows
      /\ \A x \in DnsRows : DOMAIN d.rows[x] = {"name", "ip"}
      /\ d.free \in DnsRows /\ RowsRight(d)
  BY DEF TableFormed, InOrder
<1>2. PICK m \in 0 .. DnsEntries : FilledUpTo(d, m)
  BY DEF InOrder
<1>3. DnsEntries \in Nat \ {0} /\ DnsRows = 1 .. DnsEntries /\ key # NoName
      /\ ip \in GivenTo(key) /\ ip \in Given
  BY DnsAssumption, IpAssumption, GivenKept DEF DnsRows
<1>4. CASE RowsOfName(d, name) # {}
  <2>1. PICK r \in DnsRows : /\ Min(RowsOfName(d, name)) = r /\ d.rows[r].name = key
                             /\ \A x \in DnsRows : d.rows[x].name = key => x = r
    BY <1>4, NameFound
  <2>2. e = StoreAddress(d, r, ip)
    BY <1>3, <1>4, <2>1, ProcessFormed DEF FoundAt
  <2> HIDE DEF e, key
  <2>3. e = [d EXCEPT !.rows[r].ip = ip]
    BY <2>2 DEF StoreAddress
  <2>4. /\ e.free = d.free
        /\ \A x \in DnsRows : e.rows[x].name = d.rows[x].name
        /\ \A x \in DnsRows : e.rows[x].ip = IF x = r THEN ip ELSE d.rows[x].ip
    BY <1>1, <2>3
  <2>5. FilledUpTo(e, m)
    BY <1>2, <2>4 DEF FilledUpTo
  <2>6. RowsRight(e)
    BY <1>1, <1>3, <2>1, <2>4 DEF RowsRight
  <2> QED
    BY <1>1, <2>4, <2>5, <2>6 DEF InOrder, e
<1>5. CASE RowsOfName(d, name) = {}
  <2>1. \A x \in DnsRows : d.rows[x].name # key
    BY <1>5, NameFound
  <2>2. e = NextRow(stored, d.free)
    BY <1>3, <1>5, ProcessFormed
  <2>3. /\ DOMAIN stored.rows = DnsRows /\ stored.free = d.free
        /\ stored.rows[d.free].name = key /\ stored.rows[d.free].ip = ip
        /\ \A x \in DnsRows : x # d.free => stored.rows[x] = d.rows[x]
        /\ DOMAIN stored = {"rows", "free", "busy", "mixed"}
    BY <1>1 DEF StoreAddress, StoreName
  <2> HIDE DEF e, key, stored
  <2>4. /\ e.rows = stored.rows
        /\ e.free = IF d.free = DnsEntries THEN 1 ELSE d.free + 1
    <3>1. d.free + 1 = DnsEntries + 1 <=> d.free = DnsEntries
      BY <1>1, <1>3
    <3> QED
      BY <2>2, <2>3, <3>1 DEF NextRow, WrapIndex
  <2>5. /\ e.rows[d.free].name = key /\ e.rows[d.free].ip = ip
        /\ \A x \in DnsRows : x # d.free => e.rows[x] = d.rows[x]
    BY <2>3, <2>4
  <2>6. e.free \in DnsRows
    BY <1>1, <1>3, <2>4
  <2>7. \E k \in 0 .. DnsEntries : FilledUpTo(e, k)
    <3>1. CASE m = DnsEntries
      <4>1. \A x \in DnsRows : d.rows[x].name # NoName
        BY <1>2, <1>3, <3>1 DEF FilledUpTo
      <4>2. \A x \in DnsRows : e.rows[x].name # NoName
        BY <1>3, <2>5, <4>1
      <4>3. FilledUpTo(e, DnsEntries)
        BY <1>3, <4>2 DEF FilledUpTo
      <4> QED
        BY <1>3, <4>3
    <3>2. CASE m < DnsEntries
      <4>1. d.free = m + 1 /\ m \in Nat
        BY <1>2, <1>3, <3>2 DEF FilledUpTo
      <4>2. \A x \in DnsRows : e.rows[x].name # NoName <=> x <= m + 1
        <5> TAKE x \in DnsRows
        <5>1. CASE x = m + 1
          BY <1>3, <2>5, <4>1, <5>1
        <5>2. CASE x # m + 1
          <6>1. x <= m + 1 <=> x <= m
            BY <1>3, <4>1, <5>2
          <6> QED
            BY <1>2, <2>5, <4>1, <5>2, <6>1 DEF FilledUpTo
        <5> QED
          BY <5>1, <5>2
      <4>3. m + 1 \in 0 .. DnsEntries /\ (m + 1 < DnsEntries => e.free = (m + 1) + 1)
        BY <1>3, <2>4, <3>2, <4>1
      <4>4. FilledUpTo(e, m + 1)
        BY <4>2, <4>3 DEF FilledUpTo
      <4> QED
        BY <4>3, <4>4
    <3> QED
      BY <1>3, <3>1, <3>2
  <2>8. RowsRight(e)
    BY <1>1, <1>3, <2>1, <2>5 DEF RowsRight
  <2> QED
    BY <2>6, <2>7, <2>8 DEF InOrder, e
<1> QED
  BY <1>4, <1>5

\* The IP task may store an answer to any lookup of this application, at any time.
LEMMA HandledRight ==
    ASSUME NEW d, NEW a, NamesKept(d, a), NEW b, Answer(b, a)
    PROVE  NamesKept(ulDNSHandlePacket(d, b), a)
<1> DEFINE e == prvProcessDNSCache(d, b.name, b.ip)
           mixed == d.mixed \/ (d.busy /\ e # d)
           f == [e EXCEPT !.mixed = mixed]
<1>1. b.name \in Names /\ b.ip \in AnswerOf[b.name]
  BY DEF Answer, Asked
<1>2. ulDNSHandlePacket(d, b) = IF b.ip = NoAddress THEN d ELSE f
  BY IpAssumption DEF ulDNSHandlePacket, prvParseDNSReply
<1>3. CASE b.ip = NoAddress
  BY <1>2, <1>3
<1>4. CASE b.ip # NoAddress
  <2>1. TableFormed(d) /\ b.ip \in Given
    BY <1>1, <1>4, GivenKept DEF NamesKept
  <2>2. TableFormed(e) /\ e.busy = d.busy /\ e.mixed = d.mixed
    BY <2>1, ProcessFormed
  <2>3. ~d.mixed /\ a.pc \notin TableSteps => InOrder(d) /\ InOrder(e)
    <3>1. ~d.mixed /\ a.pc \notin TableSteps => InOrder(d)
      BY DEF NamesKept, Finished, TableSteps, InsertSteps
    <3> QED
      BY <1>1, <1>4, <2>1, <3>1, NamesStored
  <2> HIDE DEF e, mixed
  <2>4. TableFormed(f) /\ f.rows = e.rows /\ f.free = e.free /\ f.busy = e.busy /\ f.mixed = mixed
    BY <2>2 DEF TableFormed
  <2>5. a.pc \in TableSteps => f.busy
    BY <2>2, <2>4 DEF NamesKept
  <2>6. ASSUME ~f.mixed
        PROVE  InOrder(Finished(f, a)) /\ Searched(f, a) /\ Resolved(a)
    <3>1. ~d.mixed /\ (a.pc \in TableSteps => e = d)
      BY <2>4, <2>6 DEF mixed, NamesKept
    <3>2. CASE a.pc \notin TableSteps
      <4>1. Finished(f, a) = f /\ Searched(f, a)
        BY <3>2 DEF Finished, Searched, TableSteps, InsertSteps
      <4>2. InOrder(f)
        BY <2>3, <2>4, <3>1, <3>2, SameTable
      <4> QED
        BY <3>1, <4>1, <4>2 DEF NamesKept
    <3>3. CASE a.pc \in TableSteps
      <4>1. f.rows = d.rows /\ f.free = d.free
        BY <2>4, <3>1, <3>3
      <4>2. InOrder(Finished(d, a)) /\ Searched(d, a) /\ Resolved(a)
        BY <3>1 DEF NamesKept
      <4> QED
        BY <2>1, <2>4, <4>1, <4>2, SameFinished
    <3> QED
      BY <3>2, <3>3
  <2>7. NamesKept(f, a)
    BY <2>4, <2>5, <2>6 DEF NamesKept
  <2> QED
    BY <1>2, <1>4, <2>7
<1> QED
  BY <1>3, <1>4

-----------------------------------------------------------------------------
(* The private ports: there are more of them than sockets.                 *)

PortAt(next, i) == 1 + ((next + i - 1) % AutoPorts)

LEMMA PortAtIs ==
    ASSUME NEW next \in Private, NEW i \in Private
    PROVE  /\ PortAt(next, i) \in Private
           /\ PortAt(next, i) = IF next + i - 1 < AutoPorts THEN next + i ELSE next + i - AutoPorts
<1>1. AutoPorts \in Nat \ {0}
  BY StackAssumption DEF Private
<1> DEFINE v == next + i - 1
<1>2. next \in 1 .. AutoPorts /\ i \in 1 .. AutoPorts /\ v \in 1 .. (2 * AutoPorts - 1)
  BY <1>1 DEF Private
<1> HIDE DEF v
<1>3. CASE v < AutoPorts
  <2>1. v % AutoPorts = v
    BY <1>1, <1>2, <1>3
  <2>2. PortAt(next, i) = 1 + v
    BY <2>1 DEF v, PortAt
  <2> QED
    BY <1>1, <1>2, <1>3, <2>2 DEF v, Private
<1>4. CASE v >= AutoPorts
  <2> DEFINE d == v - AutoPorts
  <2>1. d \in 0 .. AutoPorts - 1 /\ v = d + AutoPorts
    BY <1>1, <1>2, <1>4
  <2> HIDE DEF d
  <2>2. (d + AutoPorts) % AutoPorts = d
    BY <1>1, <2>1
  <2>3. PortAt(next, i) = 1 + d
    BY <2>1, <2>2 DEF v, PortAt
  <2> QED
    BY <1>1, <1>2, <1>4, <2>1, <2>3 DEF v, d, Private
<1> QED
  BY <1>1, <1>2, <1>3, <1>4

LEMMA PrivatePort ==
    ASSUME NEW n, n.nextPort \in Private
    PROVE  prvGetPrivatePortNumber(n) \in Private
<1> DEFINE next == n.nextPort
           open == {i \in Private : BoundTo(n, PortAt(next, i)) = {}}
           taker == [i \in Private |-> CHOOSE s \in BoundTo(n, PortAt(next, i)) : TRUE]
<1>1. IsFiniteSet(Sockets) /\ Cardinality(Sockets) \in Nat /\ AutoPorts \in Nat
      /\ Cardinality(Sockets) < AutoPorts
  BY StackAssumption, FS_CardinalityType
<1>2. IsFiniteSet(Private) /\ Cardinality(Private) = AutoPorts
  BY <1>1, FS_Interval DEF Private
<1>3. \A i \in Private : PortAt(next, i) \in Private
  BY PortAtIs
<1>4. open # {}
  <2> SUFFICES ASSUME open = {} PROVE FALSE
    OBVIOUS
  <2>1. ASSUME NEW i \in Private
        PROVE  taker[i] \in Sockets /\ n.socks[taker[i]].port = PortAt(next, i)
    <3>1. BoundTo(n, PortAt(next, i)) # {}
      OBVIOUS
    <3> QED
      BY <3>1 DEF BoundTo
  <2>2. taker \in [Private -> Sockets]
    BY <2>1
  <2> HIDE DEF taker, open
  <2>3. PICK i, j \in Private : i # j /\ taker[i] = taker[j]
    BY <1>1, <1>2, <2>2, FS_PigeonHole
  <2>4. PortAt(next, i) = PortAt(next, j)
    BY <2>1, <2>3
  <2>5. PortAt(next, i) = IF next + i - 1 < AutoPorts THEN next + i ELSE next + i - AutoPorts
    BY PortAtIs
  <2>6. PortAt(next, j) = IF next + j - 1 < AutoPorts THEN next + j ELSE next + j - AutoPorts
    BY PortAtIs
  <2>7. next \in Private
    OBVIOUS
  <2> HIDE DEF next
  <2>8. AutoPorts \in Nat /\ next \in Nat /\ i \in 1 .. AutoPorts /\ j \in 1 .. AutoPorts
    BY <1>1, <2>7 DEF Private
  <2>9. (IF next + i - 1 < AutoPorts THEN next + i ELSE next + i - AutoPorts)
          = (IF next + j - 1 < AutoPorts THEN next + j ELSE next + j - AutoPorts)
    BY <2>4, <2>5, <2>6
  <2> QED
    BY <2>3, <2>8, <2>9
<1>5. open \subseteq Nat
  BY DEF Private
<1>6. PICK least \in open : \A i \in open : least <= i
  <2> HIDE DEF open
  <2> QED
    BY <1>4, <1>5, LeastNat
<1>7. Min(open) \in open
  <2>1. Min(open) = CHOOSE x \in open : \A y \in open : x <= y
    BY DEF Min
  <2> HIDE DEF open
  <2> QED
    BY <1>6, <2>1
<1>8. prvGetPrivatePortNumber(n) = PortAt(next, Min(open))
  BY DEF prvGetPrivatePortNumber, PortAt, Private
<1> QED
  BY <1>3, <1>7, <1>8

-----------------------------------------------------------------------------
(* What was right stays right while more is sent and more is asked.        *)

\* b has asked everything that a has asked.
Recalls(b, a) ==
    /\ a.id \in Nat /\ b.id \in Nat
    /\ b.id > a.id \/ (b.id = a.id /\ b.asks = a.asks)

LEMMA AskedLater ==
    ASSUME NEW a, NEW b, Recalls(b, a), NEW x, Asked(x, a)
    PROVE  Asked(x, b)
BY DEF Recalls, Asked

LEMMA FrameLater ==
    ASSUME NEW a, NEW b, Recalls(b, a), NEW out, NEW more, out \subseteq more,
           NEW f, FrameRight(f, out, a)
    PROVE  FrameRight(f, more, b)
<1>1. Answer(f.body, a) => Answer(f.body, b)
  BY AskedLater DEF Answer
<1>2. Granted(f.body, out) => Granted(f.body, more)
  BY DEF Granted
<1> QED
  BY <1>1, <1>2 DEF FrameRight

LEMMA QuestionLater ==
    ASSUME NEW a, NEW b, Recalls(b, a), NEW p, Question(p, a)
    PROVE  Question(p, b)
BY AskedLater DEF Question

LEMMA EventLater ==
    ASSUME NEW a, NEW b, Recalls(b, a), NEW out, NEW more, out \subseteq more,
           NEW x, EventRight(x, out, a)
    PROVE  EventRight(x, more, b)
BY FrameLater, QuestionLater DEF EventRight

LEMMA InTurnLater ==
    ASSUME NEW a, NEW b, Recalls(b, a), NEW out, NEW more, out \subseteq more,
           NEW pc, NEW e, InTurn(pc, e, out, a)
    PROVE  InTurn(pc, e, more, b)
BY EventLater DEF InTurn

\* Nothing that a lease is about changes.
Keeps(n, m) ==
    /\ n.out \subseteq m.out /\ m.dhcp = n.dhcp
    /\ m.ip = n.ip /\ m.gateway = n.gateway /\ m.dns = n.dns

LEMMA LeaseLater ==
    ASSUME NEW n, NEW m, LeaseKept(n), Keeps(n, m)
    PROVE  LeaseKept(m)
BY DEF LeaseKept, LeaseRight, Routed, Offered, Keeps, DhcpSent, SentTo

LEMMA KeepsOn ==
    ASSUME NEW n, NEW m, NEW k, Keeps(n, m), Keeps(m, k)
    PROVE  Keeps(n, k)
BY DEF Keeps

-----------------------------------------------------------------------------
(* Steps that change one thing.                                            *)

LEMMA SameSound ==
    ASSUME NEW n, NEW told, NEW a, NEW e, NEW h, Sound(n, told, a, e, h),
           NEW m, Changes(n, m, Flags \cup {"dhcp"}),
           DOMAIN m.dhcp = DhcpFields, m.dhcp.sock = n.dhcp.sock
    PROVE  Sound(m, told, a, e, h)
<1>1. DOMAIN n = NetFields
  BY DEF Sound, Formed
<1>2. /\ DOMAIN m = NetFields /\ m.arp = n.arp /\ m.names = n.names /\ m.out = n.out
      /\ m.socks = n.socks /\ m.evq = n.evq /\ m.free = n.free /\ m.nextPort = n.nextPort
  BY <1>1 DEF Changes, NetFields, Flags
<1>3. Formed(m)
  BY <1>2 DEF Sound, Formed
<1> QED
  BY <1>2, <1>3 DEF Sound

\* A buffer from hand to hand, or from and to the free ones.
LEMMA BufferSound ==
    ASSUME NEW n, NEW told, NEW a, NEW e, NEW h, Sound(n, told, a, e, h),
           NEW m, Changes(n, m, Flags \cup {"free"}),
           NEW k \in Nat, m.free \in Nat, m.free + k = n.free + h
    PROVE  Sound(m, told, a, e, k)
<1>1. DOMAIN n = NetFields
  BY DEF Sound, Formed
<1>2. /\ DOMAIN m = NetFields /\ m.arp = n.arp /\ m.names = n.names /\ m.out = n.out
      /\ m.socks = n.socks /\ m.evq = n.evq /\ m.dhcp = n.dhcp /\ m.nextPort = n.nextPort
  BY <1>1 DEF Changes, NetFields, Flags
<1>3. Formed(m)
  BY <1>2 DEF Sound, Formed
<1>4. Counted(m.free, m.evq, m.socks, k)
  <2>1. /\ h \in Nat /\ n.free \in Nat /\ IsFiniteSet(Waiting(n.socks)) /\ IsSeq(n.evq)
        /\ n.free + EventCount(n.evq) + h + Cardinality(Waiting(n.socks)) = Buffers
    BY DEF Sound, Formed, Counted
  <2>2. EventCount(n.evq) \in Nat /\ Cardinality(Waiting(n.socks)) \in Nat
    BY <2>1, HoldersFinite, FS_CardinalityType
  <2>3. m.free + EventCount(n.evq) + k + Cardinality(Waiting(n.socks)) = Buffers
    BY <2>1, <2>2
  <2> QED
    BY <1>2, <2>1, <2>3 DEF Counted
<1> QED
  BY <1>2, <1>3, <1>4 DEF Sound

LEMMA OutSound ==
    ASSUME NEW n, NEW told, NEW a, NEW e, NEW h, Sound(n, told, a, e, h), a.id \in Nat,
           NEW frames, \A f \in frames : Question(f, a),
           NEW m, Changes(n, m, {"out"}), m.out = n.out \cup frames
    PROVE  Sound(m, told, a, e, h) /\ Keeps(n, m)
<1>1. DOMAIN n = NetFields
  BY DEF Sound, Formed
<1>2. /\ DOMAIN m = NetFields /\ m.arp = n.arp /\ m.names = n.names /\ m.free = n.free
      /\ m.socks = n.socks /\ m.evq = n.evq /\ m.dhcp = n.dhcp /\ m.nextPort = n.nextPort
      /\ m.ip = n.ip /\ m.gateway = n.gateway /\ m.dns = n.dns
  BY <1>1 DEF Changes, NetFields
<1>3. Formed(m)
  BY <1>2 DEF Sound, Formed
<1>4. OutRight(m.out, a)
  BY DEF Sound, OutRight
<1>5. Recalls(a, a) /\ n.out \subseteq m.out
  BY DEF Recalls
<1>6. InboxRight(m.socks, m.out, a)
  BY <1>2, <1>5, FrameLater DEF Sound, InboxRight
<1>7. \A x \in Elems(m.evq) : EventRight(x, m.out, a)
  BY <1>2, <1>5, EventLater DEF Sound
<1>8. Sound(m, told, a, e, h)
  BY <1>2, <1>3, <1>4, <1>6, <1>7 DEF Sound
<1> QED
  BY <1>2, <1>5, <1>8 DEF Keeps

LEMMA ArpSound ==
    ASSUME NEW n, NEW told, NEW a, NEW e, NEW h, Sound(n, told, a, e, h),
           NEW m, Changes(n, m, {"arp"}), NEW heardNow, ArpKept(m.arp, heardNow)
    PROVE  Sound(m, heardNow, a, e, h) /\ Keeps(n, m)
<1>1. DOMAIN n = NetFields
  BY DEF Sound, Formed
<1>2. /\ DOMAIN m = NetFields /\ m.names = n.names /\ m.free = n.free /\ m.out = n.out
      /\ m.socks = n.socks /\ m.evq = n.evq /\ m.dhcp = n.dhcp /\ m.nextPort = n.nextPort
      /\ m.ip = n.ip /\ m.gateway = n.gateway /\ m.dns = n.dns
  BY <1>1 DEF Changes, NetFields
<1>3. Formed(m)
  BY <1>2 DEF Sound, Formed
<1>4. Sound(m, heardNow, a, e, h)
  BY <1>2, <1>3 DEF Sound
<1> QED
  BY <1>2, <1>4 DEF Keeps

LEMMA NamesSound ==
    ASSUME NEW n, NEW told, NEW a, NEW e, NEW h, Sound(n, told, a, e, h),
           NEW m, Changes(n, m, {"names"}), NamesKept(m.names, a)
    PROVE  Sound(m, told, a, e, h) /\ Keeps(n, m)
<1>1. DOMAIN n = NetFields
  BY DEF Sound, Formed
<1>2. /\ DOMAIN m = NetFields /\ m.arp = n.arp /\ m.free = n.free /\ m.out = n.out
      /\ m.socks = n.socks /\ m.evq = n.evq /\ m.dhcp = n.dhcp /\ m.nextPort = n.nextPort
      /\ m.ip = n.ip /\ m.gateway = n.gateway /\ m.dns = n.dns
  BY <1>1 DEF Changes, NetFields
<1>3. Formed(m)
  BY <1>2 DEF Sound, Formed
<1>4. Sound(m, told, a, e, h)
  BY <1>2, <1>3 DEF Sound
<1> QED
  BY <1>2, <1>4 DEF Keeps

\* The application moves on, and may leave the table of names changed.
LEMMA TableSound ==
    ASSUME NEW n, NEW told, NEW a, NEW e, NEW h, Sound(n, told, a, e, h),
           NEW b, Recalls(b, a), NEW m, Changes(n, m, {"names"}), NamesKept(m.names, b),
           Owned(n.socks, n.dhcp.sock, n.evq, b, e), Binding(n.socks, n.evq, b, e)
    PROVE  Sound(m, told, b, e, h) /\ Keeps(n, m)
<1>1. DOMAIN n = NetFields
  BY DEF Sound, Formed
<1>2. /\ DOMAIN m = NetFields /\ m.arp = n.arp /\ m.free = n.free /\ m.out = n.out
      /\ m.socks = n.socks /\ m.evq = n.evq /\ m.dhcp = n.dhcp /\ m.nextPort = n.nextPort
      /\ m.ip = n.ip /\ m.gateway = n.gateway /\ m.dns = n.dns
  BY <1>1 DEF Changes, NetFields
<1>3. Formed(m)
  BY <1>2 DEF Sound, Formed
<1>4. OutRight(m.out, b)
  BY <1>2, QuestionLater DEF Sound, OutRight
<1>5. InboxRight(m.socks, m.out, b)
  BY <1>2, FrameLater DEF Sound, InboxRight
<1>6. \A x \in Elems(m.evq) : EventRight(x, m.out, b)
  BY <1>2, EventLater DEF Sound
<1>7. Sound(m, told, b, e, h)
  BY <1>2, <1>3, <1>4, <1>5, <1>6 DEF Sound
<1> QED
  BY <1>2, <1>7 DEF Keeps

\* Away from the table nothing about it changes.
LEMMA NamesLater ==
    ASSUME NEW d, NEW a, NEW b, NamesKept(d, a), a.pc \notin TableSteps, b.pc \notin TableSteps,
           b.asks = a.asks, b.result = a.result
    PROVE  NamesKept(d, b)
<1>1. Finished(d, a) = d /\ Finished(d, b) = d /\ Searched(d, b)
  BY DEF Finished, Searched, TableSteps, InsertSteps
<1> QED
  BY <1>1 DEF NamesKept, Resolved, TableSteps

LEMMA AppSound ==
    ASSUME NEW n, NEW told, NEW a, NEW e, NEW h, Sound(n, told, a, e, h),
           NEW b, Recalls(b, a), a.pc \notin TableSteps, b.pc \notin TableSteps,
           b.asks = a.asks, b.result = a.result,
           Owned(n.socks, n.dhcp.sock, n.evq, b, e), Binding(n.socks, n.evq, b, e)
    PROVE  Sound(n, told, b, e, h)
<1>1. Changes(n, n, {"names"}) /\ NamesKept(n.names, b)
  BY NamesLater DEF Changes, Sound
<1> QED
  BY <1>1, TableSound

\* What an event about a socket needs to be the only one about it.
PendingFits(n, a, e, x) ==
    /\ x.type = "close" => /\ x.sock \in Sockets /\ n.socks[x.sock].used
                           /\ x.sock \notin Mine(a) /\ x.sock # n.dhcp.sock
    /\ x.type = "bind" => /\ a.pc = "bindWait" /\ x.sock = a.sock /\ ~n.socks[a.sock].bound
                          /\ "BOUND" \notin n.socks[a.sock].bits
    /\ Pending(x) => \A y \in Elems(n.evq) \cup {e} : Pending(y) => y.sock # x.sock

LEMMA PendingAppend ==
    ASSUME NEW q, IsSeq(q), NEW e, PendingOnce(q, e), NEW x,
           Pending(x) => \A y \in Elems(q) \cup {e} : Pending(y) => y.sock # x.sock
    PROVE  PendingOnce(Append(q, x), e)
<1> DEFINE r == Append(q, x)
<1>1. /\ Len(q) \in Nat /\ DOMAIN q = 1 .. Len(q) /\ DOMAIN r = 1 .. (Len(q) + 1)
      /\ \A i \in 1 .. Len(q) : r[i] = q[i]
      /\ r[Len(q) + 1] = x
  BY AppendSeq
<1> HIDE DEF r
<1>2. \A i \in DOMAIN r : (i \in DOMAIN q /\ r[i] = q[i]) \/ (i = Len(q) + 1 /\ r[i] = x)
  BY <1>1
<1>3. \A i \in DOMAIN q : q[i] \in Elems(q)
  BY DEF Elems
<1>4. ASSUME NEW i \in DOMAIN r, NEW j \in DOMAIN r,
             Pending(r[i]), Pending(r[j]), r[i].sock = r[j].sock
      PROVE  i = j
  BY <1>2, <1>3, <1>4 DEF PendingOnce
<1>5. ASSUME NEW i \in DOMAIN r, Pending(r[i]), Pending(e)
      PROVE  r[i].sock # e.sock
  <2>1. CASE i \in DOMAIN q /\ r[i] = q[i]
    BY <1>5, <2>1 DEF PendingOnce
  <2>2. CASE r[i] = x
    BY <1>5, <2>2
  <2> QED
    BY <1>2, <2>1, <2>2
<1>6. PendingOnce(r, e)
  BY <1>4, <1>5 DEF PendingOnce
<1> QED
  BY <1>6 DEF r

LEMMA PostedSound ==
    ASSUME NEW n, NEW told, NEW a, NEW e, NEW h, Sound(n, told, a, e, h),
           NEW x, EventRight(x, n.out, a), PendingFits(n, a, e, x),
           NEW m, Changes(n, m, Flags \cup {"evq", "free"}), m.evq = Append(n.evq, x),
           NEW k \in Nat, m.free \in Nat, m.free + k + EventHands(x) = n.free + h
    PROVE  Sound(m, told, a, e, k)
<1> DEFINE q == n.evq
           r == m.evq
<1>1. DOMAIN n = NetFields /\ IsSeq(q)
  BY DEF Sound, Formed
<1>2. /\ DOMAIN m = NetFields /\ m.arp = n.arp /\ m.names = n.names /\ m.out = n.out
      /\ m.socks = n.socks /\ m.dhcp = n.dhcp /\ m.nextPort = n.nextPort
  BY <1>1 DEF Changes, NetFields, Flags
<1>3. IsSeq(r) /\ Elems(r) = Elems(q) \cup {x}
  BY <1>1, AppendSeq
<1>4. Formed(m)
  BY <1>2, <1>3 DEF Sound, Formed
<1>5. \A y \in Elems(r) : EventRight(y, m.out, a)
  BY <1>2, <1>3 DEF Sound
<1>6. Counted(m.free, r, m.socks, k)
  <2>1. /\ h \in Nat /\ n.free \in Nat /\ IsFiniteSet(Waiting(n.socks))
        /\ n.free + EventCount(q) + h + Cardinality(Waiting(n.socks)) = Buffers
    BY DEF Sound, Formed, Counted
  <2>2. EventCount(q) \in Nat /\ Cardinality(Waiting(n.socks)) \in Nat
    BY <1>1, <2>1, HoldersFinite, FS_CardinalityType
  <2>3. EventCount(r) = EventCount(q) + EventHands(x) /\ EventHands(x) \in Nat
    BY <1>1, CountAppend DEF EventHands
  <2>4. m.free + (EventCount(q) + EventHands(x)) + k + Cardinality(Waiting(n.socks))
          = (m.free + k + EventHands(x)) + EventCount(q) + Cardinality(Waiting(n.socks))
    <3> HIDE DEF q, r
    <3> QED
      BY <2>2, <2>3
  <2>5. m.free + (EventCount(q) + EventHands(x)) + k + Cardinality(Waiting(n.socks)) = Buffers
    <3> HIDE DEF q, r
    <3>1. n.free + EventCount(q) + h + Cardinality(Waiting(n.socks))
            = (n.free + h) + EventCount(q) + Cardinality(Waiting(n.socks))
      BY <2>1, <2>2
    <3> QED
      BY <2>1, <2>4, <3>1
  <2> QED
    BY <1>2, <2>1, <2>3, <2>5 DEF Counted
<1>7. Owned(m.socks, m.dhcp.sock, r, a, e)
  <2>1. Owned(n.socks, n.dhcp.sock, q, a, e)
    BY DEF Sound
  <2>2. Closing(r, e) = Closing(q, e) \cup (IF x.type = "close" THEN {x.sock} ELSE {})
    BY <1>3 DEF Closing
  <2>3. PendingOnce(r, e)
    BY <1>1, <2>1, PendingAppend DEF Owned, PendingFits
  <2> HIDE DEF q, r
  <2> QED
    BY <1>2, <2>1, <2>2, <2>3 DEF Owned, PendingFits
<1>8. Binding(m.socks, r, a, e)
  BY <1>2, <1>3 DEF Sound, Binding, PendingFits
<1> QED
  BY <1>2, <1>4, <1>5, <1>6, <1>7, <1>8 DEF Sound

\* The IP task takes the next event.
LEMMA TakenSound ==
    ASSUME NEW n, NEW told, NEW a, NEW h, Sound(n, told, a, NoEvent, h), n.evq # <<>>,
           NEW m, Changes(n, m, {"evq"}), m.evq = Tail(n.evq)
    PROVE  /\ Sound(m, told, a, Head(n.evq), EventHands(Head(n.evq)) + h)
           /\ EventRight(Head(n.evq), n.out, a) /\ Keeps(n, m)
<1> DEFINE q == n.evq
           r == m.evq
           x == Head(n.evq)
<1>1. DOMAIN n = NetFields /\ IsSeq(q)
  BY DEF Sound, Formed
<1>2. /\ DOMAIN m = NetFields /\ m.arp = n.arp /\ m.names = n.names /\ m.out = n.out
      /\ m.socks = n.socks /\ m.dhcp = n.dhcp /\ m.nextPort = n.nextPort /\ m.free = n.free
      /\ m.ip = n.ip /\ m.gateway = n.gateway /\ m.dns = n.dns
  BY <1>1 DEF Changes, NetFields
<1>3. /\ IsSeq(r) /\ Elems(q) = Elems(r) \cup {x} /\ Len(q) \in Nat \ {0}
      /\ DOMAIN q = 1 .. Len(q) /\ DOMAIN r = 1 .. (Len(q) - 1)
      /\ \A i \in 1 .. (Len(q) - 1) : r[i] = q[i + 1]
      /\ x = q[1]
  BY <1>1, TailSeq
<1>4. Formed(m)
  BY <1>2, <1>3 DEF Sound, Formed
<1>5. (\A y \in Elems(r) : EventRight(y, m.out, a)) /\ EventRight(x, n.out, a)
  BY <1>2, <1>3 DEF Sound
<1>6. Counted(m.free, r, m.socks, EventHands(x) + h)
  <2>1. /\ h \in Nat /\ n.free \in Nat /\ IsFiniteSet(Waiting(n.socks))
        /\ n.free + EventCount(q) + h + Cardinality(Waiting(n.socks)) = Buffers
    BY DEF Sound, Formed, Counted
  <2>2. EventCount(r) \in Nat /\ Cardinality(Waiting(n.socks)) \in Nat
    BY <1>3, <2>1, HoldersFinite, FS_CardinalityType
  <2>3. EventCount(q) = EventCount(r) + EventHands(x) /\ EventHands(x) \in Nat
    BY <1>1, CountTail DEF EventHands
  <2>4. ASSUME NEW c \in Nat, NEW x1 \in Nat, NEW f1 \in Nat, NEW w \in Nat,
               f1 + (c + x1) + h + w = Buffers
        PROVE  f1 + c + (x1 + h) + w = Buffers /\ x1 + h \in Nat
    BY <2>1, <2>4
  <2>5. /\ m.free + EventCount(r) + (EventHands(x) + h) + Cardinality(Waiting(n.socks)) = Buffers
        /\ EventHands(x) + h \in Nat
    <3> HIDE DEF q, r, x
    <3> QED
      BY <1>2, <2>1, <2>2, <2>3, <2>4
  <2> HIDE DEF q, r, x
  <2> QED
    BY <1>2, <2>1, <2>5 DEF Counted
<1>7. Owned(m.socks, m.dhcp.sock, r, a, x)
  <2>1. Owned(n.socks, n.dhcp.sock, q, a, NoEvent)
    BY DEF Sound
  <2> HIDE DEF q, r, x
  <2>2. Closing(r, x) = Closing(q, NoEvent)
    BY <1>3 DEF Closing, NoEvent
  <2>3. PendingOnce(r, x)
    <3>1. \A i \in DOMAIN r : i + 1 \in DOMAIN q /\ r[i] = q[i + 1] /\ i \in Nat /\ i + 1 # 1
      BY <1>3
    <3>2. 1 \in DOMAIN q
      BY <1>3
    <3>3. \A i, j \in DOMAIN q : Pending(q[i]) /\ Pending(q[j]) /\ q[i].sock = q[j].sock => i = j
      BY <2>1 DEF Owned, PendingOnce
    <3>4. \A i, j \in DOMAIN r : Pending(r[i]) /\ Pending(r[j]) /\ r[i].sock = r[j].sock => i = j
      BY <3>1, <3>3
    <3>5. \A i \in DOMAIN r : Pending(r[i]) /\ Pending(x) => r[i].sock # x.sock
      BY <1>3, <3>1, <3>2, <3>3
    <3> QED
      BY <3>4, <3>5 DEF PendingOnce
  <2> QED
    BY <1>2, <2>1, <2>2, <2>3 DEF Owned
<1>8. Binding(m.socks, r, a, x)
  <2>1. Binding(n.socks, q, a, NoEvent)
    BY DEF Sound
  <2> HIDE DEF q, r, x
  <2> QED
    BY <1>2, <1>3, <2>1 DEF Binding
<1>9. Sound(m, told, a, x, EventHands(x) + h)
  <2> HIDE DEF q, x
  <2> QED
    BY <1>2, <1>4, <1>5, <1>6, <1>7, <1>8 DEF Sound
<1> QED
  BY <1>2, <1>5, <1>9 DEF Keeps

\* An event that is handled is about nothing any more.
LEMMA DropSound ==
    ASSUME NEW n, NEW told, NEW a, NEW e, NEW h, Sound(n, told, a, e, h)
    PROVE  Sound(n, told, a, NoEvent, h)
<1>1. Owned(n.socks, n.dhcp.sock, n.evq, a, NoEvent)
  <2>1. Owned(n.socks, n.dhcp.sock, n.evq, a, e)
    BY DEF Sound
  <2>2. Closing(n.evq, NoEvent) \subseteq Closing(n.evq, e)
    BY DEF Closing, NoEvent
  <2>3. PendingOnce(n.evq, NoEvent)
    BY <2>1 DEF Owned, PendingOnce, Pending, NoEvent
  <2> QED
    BY <2>1, <2>2, <2>3 DEF Owned
<1>2. Binding(n.socks, n.evq, a, NoEvent)
  BY DEF Sound, Binding, NoEvent
<1> QED
  BY <1>1, <1>2 DEF Sound

\* One socket changes.
OneSocket(n, m, s) ==
    /\ Changes(n, m, Flags \cup {"socks", "free", "nextPort", "dhcp"})
    /\ DOMAIN m.socks = Sockets /\ DOMAIN m.socks[s] = SockFields
    /\ \A t \in Sockets \ {s} : m.socks[t] = n.socks[t]
    /\ DOMAIN m.dhcp = DhcpFields /\ m.nextPort \in 1 .. AutoPorts
    /\ m.free \in Nat /\ IsSeq(m.socks[s].rx)
    /\ ~m.socks[s].used => m.socks[s] = Closed

\* The buffers that leave the socket come into hands or are free.
Passed(n, m, s, h, k) ==
    k \in Nat /\ m.free + k + Len(m.socks[s].rx) = n.free + h + Len(n.socks[s].rx)

SocketRight(n, w, s, a) ==
    /\ \A f \in Elems(w.rx) : /\ f.type = "udp" /\ FrameRight(f, n.out, a)
                              /\ w.bound /\ f.dport = w.port
    /\ w.bound => \A t \in Sockets \ {s} : n.socks[t].bound => n.socks[t].port # w.port

LEMMA SocketSound ==
    ASSUME NEW n, NEW told, NEW a, NEW e, NEW h, Sound(n, told, a, e, h),
           NEW s \in Sockets, NEW m, OneSocket(n, m, s), SocketRight(n, m.socks[s], s, a),
           NEW k, Passed(n, m, s, h, k),
           Owned(m.socks, m.dhcp.sock, n.evq, a, e), Binding(m.socks, n.evq, a, e),
           DhcpBound(m.socks, m.dhcp.sock)
    PROVE  Sound(m, told, a, e, k)
<1> DEFINE old == n.socks
           new == m.socks
<1>1. DOMAIN n = NetFields
  BY DEF Sound, Formed
<1>2. /\ DOMAIN m = NetFields /\ m.arp = n.arp /\ m.names = n.names /\ m.out = n.out
      /\ m.evq = n.evq
  BY <1>1 DEF OneSocket, Changes, NetFields, Flags
<1>3. Formed(m)
  BY <1>2 DEF Sound, Formed, OneSocket
<1>4. InboxRight(new, m.out, a)
  BY <1>2 DEF Sound, InboxRight, OneSocket, SocketRight
<1>5. PortsApart(new)
  BY DEF Sound, PortsApart, OneSocket, SocketRight
<1>6. Counted(m.free, m.evq, new, k)
  <2>1. /\ h \in Nat /\ n.free \in Nat /\ IsFiniteSet(Waiting(old)) /\ IsSeq(n.evq)
        /\ n.free + EventCount(n.evq) + h + Cardinality(Waiting(old)) = Buffers
        /\ IsSeq(old[s].rx) /\ IsSeq(new[s].rx)
    BY DEF Sound, Formed, Counted, OneSocket
  <2>2. EventCount(n.evq) \in Nat
    BY <2>1, HoldersFinite
  <2>3. \A t \in Sockets \ {s} : new[t].rx = old[t].rx
    BY DEF OneSocket
  <2>4. /\ IsFiniteSet(Waiting(new))
        /\ Len(old[s].rx) \in Nat /\ Len(new[s].rx) \in Nat
        /\ Cardinality(Waiting(old)) \in Nat /\ Cardinality(Waiting(new)) \in Nat
        /\ Cardinality(Waiting(new)) + Len(old[s].rx) = Cardinality(Waiting(old)) + Len(new[s].rx)
    BY <2>1, <2>3, WaitingOne
  <2>5. /\ m.free \in Nat /\ k \in Nat
        /\ m.free + k + Len(new[s].rx) = n.free + h + Len(old[s].rx)
    BY DEF OneSocket, Passed
  <2>6. m.free + EventCount(n.evq) + k + Cardinality(Waiting(new)) = Buffers
    <3> DEFINE lo == Len(old[s].rx)
               ln == Len(new[s].rx)
               wo == Cardinality(Waiting(old))
               wn == Cardinality(Waiting(new))
               ev == EventCount(n.evq)
    <3>1. /\ lo \in Nat /\ ln \in Nat /\ wo \in Nat /\ wn \in Nat /\ ev \in Nat
          /\ n.free \in Nat /\ m.free \in Nat /\ h \in Nat /\ k \in Nat
          /\ wn + lo = wo + ln /\ m.free + k + ln = n.free + h + lo
          /\ n.free + ev + h + wo = Buffers
      BY <2>1, <2>2, <2>4, <2>5
    <3> HIDE DEF lo, ln, wo, wn, ev
    <3>2. m.free + ev + k + wn = Buffers
      BY <3>1
    <3> QED
      BY <3>2 DEF wn, ev
  <2> QED
    BY <1>2, <2>4, <2>5, <2>6 DEF Counted
<1> QED
  BY <1>2, <1>3, <1>4, <1>5, <1>6 DEF Sound

\* Bits, and what a socket is about to be bound to, are only in Binding.
LEMMA BitsSound ==
    ASSUME NEW n, NEW told, NEW a, NEW e, NEW h, Sound(n, told, a, e, h),
           NEW s \in Sockets, NEW m, Changes(n, m, {"socks"}),
           DOMAIN m.socks = Sockets, \A t \in Sockets \ {s} : m.socks[t] = n.socks[t],
           n.socks[s].used, Changes(n.socks[s], m.socks[s], {"bits", "local"}),
           Binding(m.socks, n.evq, a, e)
    PROVE  Sound(m, told, a, e, h) /\ Keeps(n, m)
<1>1. DOMAIN n = NetFields /\ DOMAIN n.socks[s] = SockFields /\ Formed(n)
  BY DEF Sound, Formed
<1>2. /\ DOMAIN m = NetFields /\ m.out = n.out /\ m.dhcp = n.dhcp /\ m.nextPort = n.nextPort
      /\ m.free = n.free /\ m.ip = n.ip /\ m.gateway = n.gateway /\ m.dns = n.dns
  BY <1>1 DEF Changes, NetFields
<1>3. /\ DOMAIN m.socks[s] = SockFields /\ m.socks[s].used = n.socks[s].used
      /\ m.socks[s].rx = n.socks[s].rx /\ m.socks[s].bound = n.socks[s].bound
      /\ m.socks[s].port = n.socks[s].port
  BY <1>1 DEF Changes, SockFields
<1>4. OneSocket(n, m, s)
  <2>1. Changes(n, m, Flags \cup {"socks", "free", "nextPort", "dhcp"})
    BY DEF Changes
  <2> QED
    BY <1>1, <1>2, <1>3, <2>1 DEF OneSocket, Formed
<1>5. \A t \in Sockets : /\ m.socks[t].used = n.socks[t].used
                         /\ m.socks[t].bound = n.socks[t].bound
                         /\ m.socks[t].port = n.socks[t].port
  BY <1>3
<1>6. SocketRight(n, m.socks[s], s, a)
  BY <1>3 DEF Sound, InboxRight, PortsApart, SocketRight
<1>7. Owned(m.socks, m.dhcp.sock, n.evq, a, e)
  BY <1>2, <1>5 DEF Sound, Owned
<1>8. DhcpBound(m.socks, m.dhcp.sock)
  BY <1>2, <1>5 DEF Sound, DhcpBound, Owned
<1>9. Passed(n, m, s, h, h)
  BY <1>2, <1>3 DEF Sound, Counted, Passed
<1>10. Sound(m, told, a, e, h)
  BY <1>4, <1>6, <1>7, <1>8, <1>9, SocketSound
<1> QED
  BY <1>2, <1>10 DEF Keeps

\* A packet comes out of a socket into the hands of whoever takes it.
LEMMA TakePacketSound ==
    ASSUME NEW n, NEW told, NEW a, NEW e, NEW h, Sound(n, told, a, e, h),
           NEW s \in Sockets, n.socks[s].used, n.socks[s].rx # <<>>
    PROVE  /\ Sound(TakePacket(n, s), told, a, e, h + 1) /\ Keeps(n, TakePacket(n, s))
           /\ DOMAIN TakePacket(n, s) = NetFields
           /\ TakePacket(n, s).free = n.free
           /\ TakePacket(n, s).socks[s].used
           /\ Head(n.socks[s].rx).type = "udp" /\ FrameRight(Head(n.socks[s].rx), n.out, a)
           /\ n.socks[s].bound /\ Head(n.socks[s].rx).dport = n.socks[s].port
<1> DEFINE m == TakePacket(n, s)
           rx == n.socks[s].rx
<1>1. DOMAIN n = NetFields /\ DOMAIN n.socks = Sockets /\ DOMAIN n.socks[s] = SockFields
      /\ Formed(n) /\ IsSeq(rx)
  BY DEF Sound, Formed
<1>2. /\ IsSeq(Tail(rx)) /\ Elems(rx) = Elems(Tail(rx)) \cup {Head(rx)}
      /\ Len(Tail(rx)) = Len(rx) - 1 /\ Len(rx) \in Nat \ {0}
  BY <1>1, TailSeq
<1>3. /\ DOMAIN m = NetFields /\ m.out = n.out /\ m.dhcp = n.dhcp /\ m.nextPort = n.nextPort
      /\ m.free = n.free /\ m.ip = n.ip /\ m.gateway = n.gateway /\ m.dns = n.dns
      /\ Changes(n, m, {"socks"}) /\ DOMAIN m.socks = Sockets
      /\ \A t \in Sockets \ {s} : m.socks[t] = n.socks[t]
      /\ DOMAIN m.socks[s] = SockFields
      /\ m.socks[s].used = n.socks[s].used /\ m.socks[s].bound = n.socks[s].bound
      /\ m.socks[s].port = n.socks[s].port /\ m.socks[s].bits = n.socks[s].bits
      /\ m.socks[s].local = n.socks[s].local /\ m.socks[s].rx = Tail(rx)
  BY <1>1 DEF TakePacket, Changes, NetFields, SockFields
<1> HIDE DEF m
<1>4. OneSocket(n, m, s)
  <2>1. Changes(n, m, Flags \cup {"socks", "free", "nextPort", "dhcp"})
    BY <1>3 DEF Changes
  <2> QED
    BY <1>1, <1>2, <1>3, <2>1 DEF OneSocket, Formed
<1>5. \A t \in Sockets : /\ m.socks[t].used = n.socks[t].used
                         /\ m.socks[t].bound = n.socks[t].bound
                         /\ m.socks[t].port = n.socks[t].port
                         /\ m.socks[t].bits = n.socks[t].bits
                         /\ m.socks[t].local = n.socks[t].local
  BY <1>3
<1>6. SocketRight(n, m.socks[s], s, a)
  BY <1>2, <1>3 DEF Sound, InboxRight, PortsApart, SocketRight
<1>7. Owned(m.socks, m.dhcp.sock, n.evq, a, e)
  BY <1>3, <1>5 DEF Sound, Owned
<1>8. DhcpBound(m.socks, m.dhcp.sock)
  BY <1>3, <1>5 DEF Sound, DhcpBound, Owned
<1>9. Binding(m.socks, n.evq, a, e)
  <2>1. Binding(n.socks, n.evq, a, e) /\ Mine(a) \subseteq Sockets
    BY DEF Sound, Owned
  <2>2. Resolving(a) => a.sock \in Mine(a)
    BY DEF Mine
  <2> QED
    BY <1>5, <2>1, <2>2 DEF Binding
<1>10. Passed(n, m, s, h, h + 1)
  <2>1. h \in Nat /\ n.free \in Nat
    BY DEF Sound, Counted, Formed
  <2>2. Len(rx) \in Nat \ {0} /\ Len(m.socks[s].rx) = Len(rx) - 1
    BY <1>2, <1>3
  <2> HIDE DEF rx
  <2>3. n.free + (h + 1) + (Len(rx) - 1) = n.free + h + Len(rx)
    BY <2>1, <2>2
  <2> QED
    BY <1>3, <2>1, <2>2, <2>3 DEF rx, Passed
<1>11. Sound(m, told, a, e, h + 1)
  BY <1>4, <1>6, <1>7, <1>8, <1>9, <1>10, SocketSound
<1>12. Head(rx) \in Elems(rx)
  BY <1>2
<1>13. /\ Head(rx).type = "udp" /\ FrameRight(Head(rx), n.out, a)
       /\ n.socks[s].bound /\ Head(rx).dport = n.socks[s].port
  BY <1>12 DEF Sound, InboxRight
<1> QED
  BY <1>3, <1>11, <1>13 DEF Keeps, m

\* What is not used is nobody's.
LEMMA UnusedIs ==
    ASSUME NEW n, NEW told, NEW a, NEW e, NEW h, Sound(n, told, a, e, h),
           NEW s \in Sockets, ~n.socks[s].used
    PROVE  /\ n.socks[s] = Closed /\ s \notin Mine(a) /\ s \notin Closing(n.evq, e)
           /\ s # n.dhcp.sock
BY DEF Sound, Formed, Owned

LEMMA ClosedIs ==
    /\ DOMAIN Closed = SockFields /\ IsSeq(Closed.rx) /\ Len(Closed.rx) = 0
    /\ Elems(Closed.rx) = {} /\ ~Closed.used /\ ~Closed.bound /\ Closed.bits = {}
    /\ Closed.local = NoPort
<1>1. Closed = [used |-> FALSE, bound |-> FALSE, port |-> NoPort, local |-> NoPort,
                rx |-> <<>>, bits |-> {}]
  BY DEF Closed
<1>2. DOMAIN Closed = SockFields /\ Closed.rx = <<>> /\ ~Closed.used /\ ~Closed.bound
      /\ Closed.bits = {} /\ Closed.local = NoPort
  BY <1>1 DEF SockFields
<1>3. Len(<<>>) = 0
  OBVIOUS
<1> QED
  BY <1>2, <1>3, NothingQueued

LEMMA CreateSound ==
    ASSUME NEW n, NEW told, NEW a, NEW e, NEW h, Sound(n, told, a, e, h),
           NEW s \in Sockets, ~n.socks[s].used, NEW m, m = FreeRTOS_socket(n, s)
    PROVE  /\ Sound(m, told, a, e, h) /\ Keeps(n, m) /\ m.evq = n.evq /\ m.free = n.free
           /\ m.socks[s].used /\ ~m.socks[s].bound /\ m.socks[s].local = NoPort
           /\ DOMAIN m.socks[s] = SockFields /\ m.socks[s].rx = Closed.rx
           /\ m.socks = [n.socks EXCEPT ![s] = [Closed EXCEPT !.used = TRUE]]
           /\ Changes(n, m, {"socks"})
<1>1. DOMAIN n = NetFields /\ DOMAIN n.socks = Sockets /\ s # NoSocket /\ Formed(n)
  BY StackAssumption DEF Sound, Formed
<1>2. n.socks[s] = Closed /\ s \notin Mine(a) /\ s \notin Closing(n.evq, e) /\ s # n.dhcp.sock
  BY UnusedIs
<1> DEFINE w == [Closed EXCEPT !.used = TRUE]
<1>3. /\ DOMAIN w = SockFields /\ w.used /\ ~w.bound /\ w.rx = Closed.rx /\ w.bits = {}
      /\ w.local = NoPort
  BY ClosedIs DEF SockFields
<1> HIDE DEF w
<1>4. /\ DOMAIN m = NetFields /\ m.out = n.out /\ m.dhcp = n.dhcp /\ m.nextPort = n.nextPort
      /\ m.free = n.free /\ m.ip = n.ip /\ m.gateway = n.gateway /\ m.dns = n.dns
      /\ m.evq = n.evq /\ Changes(n, m, {"socks"}) /\ m.socks = [n.socks EXCEPT ![s] = w]
  BY <1>1 DEF FreeRTOS_socket, Changes, NetFields, w
<1>5. /\ DOMAIN m.socks = Sockets /\ m.socks[s] = w
      /\ \A t \in Sockets \ {s} : m.socks[t] = n.socks[t]
  BY <1>1, <1>4
<1>6. OneSocket(n, m, s)
  <2>1. Changes(n, m, Flags \cup {"socks", "free", "nextPort", "dhcp"})
    BY <1>4 DEF Changes
  <2> QED
    BY <1>1, <1>3, <1>4, <1>5, <2>1, ClosedIs DEF OneSocket, Formed
<1>7. SocketRight(n, m.socks[s], s, a)
  BY <1>3, <1>5, ClosedIs DEF SocketRight
<1>8. Owned(m.socks, m.dhcp.sock, n.evq, a, e)
  BY <1>2, <1>3, <1>4, <1>5 DEF Sound, Owned
<1>9. DhcpBound(m.socks, m.dhcp.sock)
  BY <1>2, <1>4, <1>5 DEF Sound, DhcpBound, Owned
<1>10. Binding(m.socks, n.evq, a, e)
  <2>1. Binding(n.socks, n.evq, a, e) /\ Mine(a) \subseteq Sockets
    BY DEF Sound, Owned
  <2>2. Resolving(a) \/ a.pc \in {"bindPost", "bindWait"} => a.sock \in Sockets \ {s}
    BY <1>2, <2>1 DEF Mine, Binding
  <2>3. "BOUND" \notin m.socks[s].bits
    BY <1>3, <1>5
  <2> QED
    BY <1>5, <2>1, <2>2, <2>3 DEF Binding
<1>11. Passed(n, m, s, h, h)
  BY <1>2, <1>3, <1>4, <1>5 DEF Sound, Counted, Passed
<1>12. Sound(m, told, a, e, h)
  BY <1>6, <1>7, <1>8, <1>9, <1>10, <1>11, SocketSound
<1> QED
  BY <1>3, <1>4, <1>5, <1>12 DEF Keeps, w

\* The same of the call itself, for the callers who hold the new socket in a variable.
LEMMA CreatedSound ==
    ASSUME NEW n, NEW told, NEW a, NEW e, NEW h, Sound(n, told, a, e, h),
           NEW s \in Sockets, ~n.socks[s].used
    PROVE  /\ Sound(FreeRTOS_socket(n, s), told, a, e, h)
           /\ Keeps(n, FreeRTOS_socket(n, s)) /\ FreeRTOS_socket(n, s).evq = n.evq
           /\ FreeRTOS_socket(n, s).socks[s].used /\ ~FreeRTOS_socket(n, s).socks[s].bound
           /\ FreeRTOS_socket(n, s).socks[s].local = NoPort
<1> DEFINE c == FreeRTOS_socket(n, s)
<1>1. /\ Sound(c, told, a, e, h) /\ Keeps(n, c) /\ c.evq = n.evq /\ c.free = n.free
      /\ c.socks[s].used /\ ~c.socks[s].bound /\ c.socks[s].local = NoPort
      /\ DOMAIN c.socks[s] = SockFields /\ c.socks[s].rx = Closed.rx
      /\ c.socks = [n.socks EXCEPT ![s] = [Closed EXCEPT !.used = TRUE]]
      /\ Changes(n, c, {"socks"})
  BY CreateSound
<1> QED
  BY <1>1

\* Packets that wait in a socket when it is closed are free again.
LEMMA CloseSound ==
    ASSUME NEW n, NEW told, NEW a, NEW e, NEW h, Sound(n, told, a, e, h),
           NEW s \in Sockets, s \notin Mine(a), s \notin Closing(n.evq, e),
           NEW m, Changes(n, m, Flags \cup {"socks", "free", "dhcp"}),
           m.socks = [n.socks EXCEPT ![s] = Closed],
           m.free = n.free + Len(n.socks[s].rx),
           DOMAIN m.dhcp = DhcpFields,
           m.dhcp.sock \in {n.dhcp.sock, NoSocket}, m.dhcp.sock # s
    PROVE  Sound(m, told, a, e, h)
<1>1. DOMAIN n = NetFields /\ DOMAIN n.socks = Sockets /\ Formed(n) /\ IsSeq(n.socks[s].rx)
  BY DEF Sound, Formed
<1>2. DOMAIN m = NetFields /\ m.nextPort = n.nextPort /\ m.evq = n.evq
  BY <1>1 DEF Changes, NetFields, Flags
<1>3. /\ DOMAIN m.socks = Sockets /\ m.socks[s] = Closed
      /\ \A t \in Sockets \ {s} : m.socks[t] = n.socks[t]
  BY <1>1
<1>4. Len(n.socks[s].rx) \in Nat /\ n.free \in Nat /\ h \in Nat
  BY <1>1 DEF Sound, Formed, Counted, IsSeq
<1>5. OneSocket(n, m, s)
  <2>1. Changes(n, m, Flags \cup {"socks", "free", "nextPort", "dhcp"})
    BY DEF Changes
  <2> QED
    BY <1>1, <1>2, <1>3, <1>4, <2>1, ClosedIs DEF OneSocket, Formed
<1>6. SocketRight(n, m.socks[s], s, a)
  BY <1>3, ClosedIs DEF SocketRight
<1>7. Owned(m.socks, m.dhcp.sock, n.evq, a, e)
  BY <1>3, StackAssumption DEF Sound, Owned
<1>8. DhcpBound(m.socks, m.dhcp.sock)
  BY <1>3, StackAssumption DEF Sound, DhcpBound, Owned
<1>9. Binding(m.socks, n.evq, a, e)
  <2>1. Binding(n.socks, n.evq, a, e) /\ Mine(a) \subseteq Sockets
    BY DEF Sound, Owned
  <2>2. Resolving(a) \/ a.pc \in {"bindPost", "bindWait"} => a.sock \in Sockets \ {s}
    BY <2>1 DEF Mine, Binding
  <2>3. "BOUND" \notin m.socks[s].bits
    BY <1>3, ClosedIs
  <2> QED
    BY <1>3, <2>1, <2>2, <2>3 DEF Binding
<1>10. Passed(n, m, s, h, h)
  <2>1. Len(m.socks[s].rx) = 0
    BY <1>3, ClosedIs
  <2>2. n.free + Len(n.socks[s].rx) + h + 0 = n.free + h + Len(n.socks[s].rx)
    BY <1>4
  <2> QED
    BY <1>4, <2>1, <2>2 DEF Passed
<1> QED
  BY <1>5, <1>6, <1>7, <1>8, <1>9, <1>10, SocketSound

\* What vSocketBind does to a socket and to nothing else.
\* m: n with s bound to the port, which no socket was bound to.
BoundAt(n, m, s, port) ==
    /\ \A t \in Sockets : n.socks[t].bound => n.socks[t].port # port
    /\ DOMAIN m.socks = Sockets /\ DOMAIN m.socks[s] = SockFields
    /\ \A t \in Sockets \ {s} : m.socks[t] = n.socks[t]
    /\ m.socks[s].bound /\ m.socks[s].port = port /\ m.socks[s].local = port
    /\ m.socks[s].used = n.socks[s].used /\ m.socks[s].rx = n.socks[s].rx
    /\ m.socks[s].bits = n.socks[s].bits

LEMMA BindIs ==
    ASSUME NEW n, Formed(n), NEW s \in Sockets, NEW wanted, NEW m, m = vSocketBind(n, s, wanted)
    PROVE  /\ Changes(n, m, {"socks", "nextPort"}) /\ DOMAIN m = NetFields
           /\ m.nextPort \in 1 .. AutoPorts
           /\ \/ m.socks = n.socks
              \/ \E port : /\ wanted = NoPort => port \in Private
                           /\ wanted # NoPort => port = wanted
                           /\ BoundAt(n, m, s, port)
<1> DEFINE port == IF wanted = NoPort THEN prvGetPrivatePortNumber(n) ELSE wanted
           moved == [n EXCEPT !.nextPort = IF wanted = NoPort THEN port ELSE @]
<1>1. DOMAIN n = NetFields /\ DOMAIN n.socks = Sockets /\ DOMAIN n.socks[s] = SockFields
      /\ n.nextPort \in Private
  BY DEF Formed, Private
<1>2. wanted = NoPort => port \in Private
  BY <1>1, PrivatePort
<1>3. wanted # NoPort => port = wanted
  OBVIOUS
<1>4. m = IF BoundTo(n, port) # {} THEN moved
          ELSE [moved EXCEPT !.socks[s].bound = TRUE, !.socks[s].port = port,
                             !.socks[s].local = port]
  BY DEF vSocketBind
<1> HIDE DEF port
<1>5. /\ DOMAIN moved = NetFields /\ moved.socks = n.socks /\ moved.nextPort \in Private
      /\ Changes(n, moved, {"nextPort"})
  BY <1>1, <1>2 DEF Changes, NetFields
<1>6. CASE BoundTo(n, port) # {}
  <2>1. m = moved
    BY <1>4, <1>6
  <2> HIDE DEF moved
  <2> QED
    BY <1>5, <2>1 DEF Changes, Private
<1>7. CASE BoundTo(n, port) = {}
  <2>1. m = [moved EXCEPT !.socks[s].bound = TRUE, !.socks[s].port = port,
                          !.socks[s].local = port]
    BY <1>4, <1>7
  <2>2. \A t \in Sockets : n.socks[t].bound => n.socks[t].port # port
    BY <1>7 DEF BoundTo
  <2> HIDE DEF moved
  <2>3. DOMAIN m = NetFields /\ Changes(moved, m, {"socks"}) /\ m.nextPort = moved.nextPort
    BY <1>5, <2>1 DEF Changes, NetFields
  <2>4. m.socks = [moved EXCEPT !.socks[s].bound = TRUE, !.socks[s].port = port,
                                !.socks[s].local = port].socks
    BY <2>1
  <2>5. /\ DOMAIN m.socks = Sockets
        /\ \A t \in Sockets \ {s} : m.socks[t] = n.socks[t]
    BY <1>1, <1>5, <2>4 DEF NetFields
  <2>6. /\ DOMAIN m.socks[s] = SockFields /\ m.socks[s].bound /\ m.socks[s].port = port
        /\ m.socks[s].local = port /\ m.socks[s].used = n.socks[s].used
        /\ m.socks[s].rx = n.socks[s].rx /\ m.socks[s].bits = n.socks[s].bits
    BY <1>1, <1>5, <2>4 DEF NetFields, SockFields
  <2>7. Changes(n, m, {"socks", "nextPort"})
    BY <1>5, <2>3 DEF Changes
  <2>8. BoundAt(n, m, s, port)
    BY <2>2, <2>5, <2>6 DEF BoundAt
  <2> QED
    BY <1>2, <1>3, <1>5, <2>3, <2>7, <2>8 DEF Private
<1> QED
  BY <1>6, <1>7

\* The bind that an application waits for.
LEMMA BindEventSound ==
    ASSUME NEW n, NEW told, NEW a, NEW e, NEW h, Sound(n, told, a, e, h), e.type = "bind",
           NEW m, m = SocketBindEvent(n, e.sock)
    PROVE  Sound(m, told, a, NoEvent, h) /\ Keeps(n, m)
<1> DEFINE s == e.sock
           wanted == n.socks[s].local
           asked == [n EXCEPT !.socks[s].local = NoPort]
           b == vSocketBind(asked, s, wanted)
<1>1. /\ a.pc = "bindWait" /\ s = a.sock /\ ~n.socks[s].bound /\ "BOUND" \notin n.socks[s].bits
      /\ s \in Mine(a)
  BY DEF Sound, Binding
<1>2. s \in Sockets /\ n.socks[s].used /\ s # n.dhcp.sock
  BY <1>1 DEF Sound, Owned
<1>3. DOMAIN n = NetFields /\ DOMAIN n.socks = Sockets /\ DOMAIN n.socks[s] = SockFields
      /\ Formed(n)
  BY <1>2 DEF Sound, Formed
<1>4. Sound(n, told, a, NoEvent, h)
  BY DropSound
<1>5. \A x \in Elems(n.evq) : x.type # "bind"
  BY DEF Sound, Binding, Owned, PendingOnce, Pending, Elems
<1>6. Resolving(a) => wanted = NoPort
  BY <1>1 DEF Sound, Binding
<1> HIDE DEF s
<1>7. /\ DOMAIN asked = NetFields /\ DOMAIN asked.socks = Sockets
      /\ Changes(n, asked, {"socks"})
      /\ \A t \in Sockets \ {s} : asked.socks[t] = n.socks[t]
      /\ DOMAIN asked.socks[s] = SockFields
      /\ asked.socks[s].used = n.socks[s].used /\ asked.socks[s].bound = n.socks[s].bound
      /\ asked.socks[s].port = n.socks[s].port /\ asked.socks[s].rx = n.socks[s].rx
      /\ asked.socks[s].bits = n.socks[s].bits /\ asked.socks[s].local = NoPort
      /\ asked.evq = n.evq /\ asked.nextPort = n.nextPort /\ asked.free = n.free
      /\ asked.dhcp = n.dhcp
  BY <1>2, <1>3 DEF Changes, NetFields, SockFields
<1> HIDE DEF asked
<1>8. Formed(asked)
  BY <1>2, <1>3, <1>7 DEF Formed
<1>9. /\ Changes(asked, b, {"socks", "nextPort"}) /\ DOMAIN b = NetFields
      /\ b.nextPort \in 1 .. AutoPorts
      /\ \/ b.socks = asked.socks
         \/ \E port : /\ wanted = NoPort => port \in Private
                      /\ wanted # NoPort => port = wanted
                      /\ BoundAt(asked, b, s, port)
  BY <1>2, <1>8, BindIs
<1>10. m = [b EXCEPT !.socks[s].bits = @ \cup {"BOUND"}]
  BY DEF SocketBindEvent, asked, s
<1> HIDE DEF b
<1>11. /\ DOMAIN b.socks = Sockets /\ DOMAIN b.socks[s] = SockFields
       /\ \A t \in Sockets \ {s} : b.socks[t] = n.socks[t]
       /\ b.socks[s].used /\ b.socks[s].rx = n.socks[s].rx
       /\ b.socks[s].bits = n.socks[s].bits
       /\ IF b.socks[s].bound
          THEN /\ wanted = NoPort => b.socks[s].port \in Private
               /\ \A t \in Sockets \ {s} : n.socks[t].bound => n.socks[t].port # b.socks[s].port
          ELSE b.socks[s].local = NoPort
  <2> HIDE DEF wanted
  <2>1. CASE b.socks = asked.socks
    BY <1>1, <1>2, <1>7, <2>1
  <2>2. ASSUME NEW port, wanted = NoPort => port \in Private, BoundAt(asked, b, s, port)
        PROVE  <1>11!:
    <3>1. \A t \in Sockets \ {s} : b.socks[t] = n.socks[t]
      BY <1>7, <2>2 DEF BoundAt
    <3>2. \A t \in Sockets \ {s} : n.socks[t].bound => n.socks[t].port # b.socks[s].port
      BY <1>7, <2>2 DEF BoundAt
    <3> QED
      BY <1>2, <1>7, <2>2, <3>1, <3>2 DEF BoundAt
  <2> QED
    BY <1>9, <2>1, <2>2
<1>12. /\ DOMAIN m = NetFields /\ Changes(b, m, {"socks"}) /\ m.nextPort = b.nextPort
       /\ DOMAIN m.socks = Sockets
       /\ \A t \in Sockets \ {s} : m.socks[t] = b.socks[t]
       /\ DOMAIN m.socks[s] = SockFields /\ m.socks[s].used = b.socks[s].used /\ m.socks[s].rx = b.socks[s].rx
       /\ m.socks[s].bound = b.socks[s].bound /\ m.socks[s].port = b.socks[s].port
       /\ m.socks[s].local = b.socks[s].local
  <2>1. DOMAIN m = NetFields /\ Changes(b, m, {"socks"}) /\ m.nextPort = b.nextPort
    BY <1>9, <1>10 DEF Changes, NetFields
  <2> DEFINE more == b.socks[s].bits \cup {"BOUND"}
             g == [b EXCEPT !.socks[s].bits = more]
  <2>2. m = g
    BY <1>10
  <2> HIDE DEF more
  <2>3. /\ DOMAIN g.socks = Sockets /\ \A t \in Sockets \ {s} : g.socks[t] = b.socks[t]
        /\ DOMAIN g.socks[s] = SockFields /\ g.socks[s].used = b.socks[s].used
        /\ g.socks[s].rx = b.socks[s].rx
        /\ g.socks[s].bound = b.socks[s].bound /\ g.socks[s].port = b.socks[s].port
        /\ g.socks[s].local = b.socks[s].local
    BY <1>2, <1>9, <1>11 DEF NetFields, SockFields
  <2> HIDE DEF g
  <2> QED
    BY <2>1, <2>2, <2>3
<1>13. Changes(n, m, {"socks", "nextPort"})
  BY <1>7, <1>9, <1>12 DEF Changes
<1>14. /\ m.out = n.out /\ m.dhcp = n.dhcp /\ m.free = n.free /\ m.ip = n.ip
       /\ m.gateway = n.gateway /\ m.dns = n.dns /\ m.evq = n.evq
  BY <1>3, <1>13 DEF Changes, NetFields
<1>15. OneSocket(n, m, s)
  <2>1. Changes(n, m, Flags \cup {"socks", "free", "nextPort", "dhcp"})
    BY <1>13 DEF Changes
  <2> QED
    <3>1. DOMAIN n.dhcp = DhcpFields /\ n.free \in Nat /\ IsSeq(n.socks[s].rx)
      BY <1>2, <1>3 DEF Formed
    <3>2. /\ DOMAIN m.dhcp = DhcpFields /\ m.nextPort \in 1 .. AutoPorts
          /\ m.free \in Nat /\ IsSeq(m.socks[s].rx) /\ m.socks[s].used
      BY <1>9, <1>11, <1>12, <1>14, <3>1
    <3>3. \A t \in Sockets \ {s} : m.socks[t] = n.socks[t]
      BY <1>11, <1>12
    <3> QED
      BY <1>12, <2>1, <3>2, <3>3 DEF OneSocket
<1>16. SocketRight(n, m.socks[s], s, a)
  <2>1. \A f \in Elems(n.socks[s].rx) : n.socks[s].bound
    BY <1>2 DEF Sound, InboxRight
  <2>2. Elems(m.socks[s].rx) = {}
    BY <1>1, <1>11, <1>12, <2>1
  <2>3. m.socks[s].bound =>
          \A t \in Sockets \ {s} : n.socks[t].bound => n.socks[t].port # m.socks[s].port
    BY <1>11, <1>12
  <2> QED
    BY <2>2, <2>3 DEF SocketRight
<1>17. \A t \in Sockets : m.socks[t].used <=> n.socks[t].used
  BY <1>2, <1>11, <1>12
<1>18. Owned(m.socks, m.dhcp.sock, n.evq, a, NoEvent)
  <2>1. Owned(n.socks, n.dhcp.sock, n.evq, a, NoEvent)
    BY <1>4 DEF Sound
  <2> QED
    BY <1>14, <1>17, <2>1 DEF Owned
<1>19. DhcpBound(m.socks, m.dhcp.sock)
  BY <1>2, <1>11, <1>12, <1>14 DEF Sound, DhcpBound, Owned
<1>20. Binding(m.socks, n.evq, a, NoEvent)
  <2>1. \A x \in Elems(n.evq) \cup {NoEvent} : x.type # "bind"
    BY <1>5 DEF NoEvent
  <2>2. \A t \in Sockets : "BOUND" \in m.socks[t].bits => t = s
    BY <1>1, <1>11, <1>12 DEF Sound, Binding, s
  <2>3. Resolving(a) => IF m.socks[s].bound THEN m.socks[s].port \in Private
                        ELSE m.socks[s].local = NoPort
    BY <1>6, <1>11, <1>12
  <2> QED
    BY <1>1, <2>1, <2>2, <2>3 DEF Binding, s
<1>21. Passed(n, m, s, h, h)
  BY <1>11, <1>12, <1>14 DEF Sound, Counted, Passed
<1>22. Sound(m, told, a, NoEvent, h)
  BY <1>2, <1>4, <1>15, <1>16, <1>18, <1>19, <1>20, <1>21, SocketSound
<1> QED
  BY <1>14, <1>22 DEF Keeps

\* A datagram goes into the list of the socket that is bound to its port.
Queued(n, s, f) == [[n EXCEPT !.socks[s].rx = Append(@, f)]
                        EXCEPT !.socks[s].bits = @ \cup {"RECEIVE"}]

LEMMA RxSound ==
    ASSUME NEW n, NEW told, NEW a, NEW e, NEW k \in Nat, Sound(n, told, a, e, k + 1),
           NEW f, f.type = "udp", FrameRight(f, n.out, a),
           NEW s \in Sockets, n.socks[s].bound, n.socks[s].port = f.dport,
           NEW m, m = Queued(n, s, f)
    PROVE  Sound(m, told, a, e, k) /\ Keeps(n, m) /\ DOMAIN m = NetFields
<1>1. DOMAIN n = NetFields /\ DOMAIN n.socks = Sockets /\ DOMAIN n.socks[s] = SockFields
      /\ Formed(n) /\ IsSeq(n.socks[s].rx)
  BY DEF Sound, Formed
<1> DEFINE rx == n.socks[s].rx
           longer == Append(rx, f)
<1>2. /\ IsSeq(longer) /\ Elems(longer) = Elems(rx) \cup {f}
      /\ Len(rx) \in Nat /\ Len(longer) = Len(rx) + 1
  <2>1. /\ IsSeq(longer) /\ Elems(longer) = Elems(rx) \cup {f}
        /\ Len(rx) \in Nat /\ DOMAIN longer = 1 .. (Len(rx) + 1)
    BY <1>1, AppendSeq
  <2>2. DOMAIN longer = 1 .. Len(longer) /\ Len(longer) \in Nat
    <3> HIDE DEF longer
    <3> QED
      BY <2>1 DEF IsSeq
  <2>3. Len(longer) = Len(rx) + 1
    <3>1. Len(rx) \in Nat /\ Len(longer) \in Nat /\ 1 .. Len(longer) = 1 .. (Len(rx) + 1)
      BY <2>1, <2>2
    <3> HIDE DEF longer, rx
    <3> QED
      BY <3>1
  <2> QED
    BY <2>1, <2>3
<1> HIDE DEF longer
<1> DEFINE first == [n EXCEPT !.socks[s].rx = longer]
           more == n.socks[s].bits \cup {"RECEIVE"}
<1>3. /\ DOMAIN first = NetFields /\ Changes(n, first, {"socks"})
      /\ DOMAIN first.socks = Sockets /\ \A t \in Sockets \ {s} : first.socks[t] = n.socks[t]
      /\ DOMAIN first.socks[s] = SockFields
      /\ first.socks[s].used = n.socks[s].used /\ first.socks[s].bound = n.socks[s].bound
      /\ first.socks[s].port = n.socks[s].port /\ first.socks[s].local = n.socks[s].local
      /\ first.socks[s].rx = longer /\ first.socks[s].bits = n.socks[s].bits
  BY <1>1 DEF Changes, NetFields, SockFields
<1>4. m = [first EXCEPT !.socks[s].bits = @ \cup {"RECEIVE"}]
  BY DEF Queued, longer
<1> HIDE DEF first
<1>5. m = [first EXCEPT !.socks[s].bits = more]
  BY <1>3, <1>4 DEF NetFields
<1> HIDE DEF more
<1>6. /\ DOMAIN m = NetFields /\ Changes(first, m, {"socks"})
      /\ DOMAIN m.socks = Sockets /\ \A t \in Sockets \ {s} : m.socks[t] = first.socks[t]
      /\ DOMAIN m.socks[s] = SockFields
      /\ m.socks[s].used = first.socks[s].used /\ m.socks[s].bound = first.socks[s].bound
      /\ m.socks[s].port = first.socks[s].port /\ m.socks[s].local = first.socks[s].local
      /\ m.socks[s].rx = first.socks[s].rx /\ m.socks[s].bits = more
  <2> DEFINE g == [first EXCEPT !.socks[s].bits = more]
  <2>1. /\ DOMAIN g = NetFields /\ Changes(first, g, {"socks"})
        /\ DOMAIN g.socks = Sockets /\ \A t \in Sockets \ {s} : g.socks[t] = first.socks[t]
        /\ DOMAIN g.socks[s] = SockFields
        /\ g.socks[s].used = first.socks[s].used /\ g.socks[s].bound = first.socks[s].bound
        /\ g.socks[s].port = first.socks[s].port /\ g.socks[s].local = first.socks[s].local
        /\ g.socks[s].rx = first.socks[s].rx /\ g.socks[s].bits = more
    BY <1>3 DEF Changes, NetFields, SockFields
  <2>2. m = g
    BY <1>5
  <2> HIDE DEF g
  <2> QED
    BY <2>1, <2>2
<1>7. Changes(n, m, {"socks"})
  BY <1>3, <1>6 DEF Changes
<1>8. more = n.socks[s].bits \cup {"RECEIVE"}
  BY DEF more
<1>9. /\ DOMAIN m = NetFields /\ m.out = n.out /\ m.dhcp = n.dhcp /\ m.nextPort = n.nextPort
      /\ m.free = n.free /\ m.ip = n.ip /\ m.gateway = n.gateway /\ m.dns = n.dns
      /\ Changes(n, m, {"socks"}) /\ DOMAIN m.socks = Sockets
      /\ \A t \in Sockets \ {s} : m.socks[t] = n.socks[t]
      /\ DOMAIN m.socks[s] = SockFields
      /\ m.socks[s].used = n.socks[s].used /\ m.socks[s].bound = n.socks[s].bound
      /\ m.socks[s].port = n.socks[s].port /\ m.socks[s].local = n.socks[s].local
      /\ m.socks[s].rx = longer /\ m.socks[s].bits = more
  BY <1>1, <1>3, <1>6, <1>7 DEF Changes, NetFields
<1>10. n.socks[s].used
  BY <1>1, ClosedIs DEF Formed
<1>11. OneSocket(n, m, s)
  <2>1. Changes(n, m, Flags \cup {"socks", "free", "nextPort", "dhcp"})
    BY <1>9 DEF Changes
  <2> QED
    BY <1>1, <1>2, <1>9, <1>10, <2>1 DEF OneSocket, Formed
<1>12. \A t \in Sockets : /\ m.socks[t].used = n.socks[t].used
                          /\ m.socks[t].bound = n.socks[t].bound
                          /\ m.socks[t].port = n.socks[t].port
                          /\ "BOUND" \in m.socks[t].bits <=> "BOUND" \in n.socks[t].bits
                          /\ m.socks[t].local = n.socks[t].local
  <2>1. "BOUND" \in more <=> "BOUND" \in n.socks[s].bits
    BY <1>8
  <2> TAKE t \in Sockets
  <2>2. CASE t = s
    BY <1>9, <2>1, <2>2
  <2>3. CASE t # s
    BY <1>9, <2>3
  <2> QED
    BY <2>2, <2>3
<1>13. SocketRight(n, m.socks[s], s, a)
  BY <1>2, <1>9 DEF Sound, InboxRight, PortsApart, SocketRight
<1>14. Owned(m.socks, m.dhcp.sock, n.evq, a, e)
  BY <1>9, <1>12 DEF Sound, Owned
<1>15. DhcpBound(m.socks, m.dhcp.sock)
  BY <1>9, <1>12 DEF Sound, DhcpBound, Owned
<1>16. Binding(m.socks, n.evq, a, e)
  <2>1. Binding(n.socks, n.evq, a, e) /\ Mine(a) \subseteq Sockets
    BY DEF Sound, Owned
  <2>2. Resolving(a) => a.sock \in Mine(a)
    BY DEF Mine
  <2> QED
    BY <1>12, <2>1, <2>2 DEF Binding
<1>17. Passed(n, m, s, k + 1, k)
  <2>1. n.free \in Nat
    BY <1>1 DEF Formed
  <2>2. n.free + k + (Len(rx) + 1) = n.free + (k + 1) + Len(rx)
    <3> HIDE DEF rx
    <3> QED
      BY <1>2, <2>1
  <2> QED
    BY <1>2, <1>9, <2>2 DEF Passed
<1>18. Sound(m, told, a, e, k)
  BY <1>11, <1>13, <1>14, <1>15, <1>16, <1>17, SocketSound
<1> QED
  BY <1>9, <1>18 DEF Keeps

-----------------------------------------------------------------------------
(* Events without a buffer, and frames out.                                *)

Sent(n, x) == [n EXCEPT !.evq = Append(@, x)]

LEMMA SentIs ==
    ASSUME NEW n, DOMAIN n = NetFields, NEW x
    PROVE  /\ DOMAIN Sent(n, x) = NetFields /\ Changes(n, Sent(n, x), {"evq"})
           /\ Sent(n, x).evq = Append(n.evq, x) /\ Sent(n, x).free = n.free
           /\ Keeps(n, Sent(n, x)) /\ Sent(n, x).socks = n.socks
BY DEF Sent, Changes, NetFields, Keeps

LEMMA SignalSound ==
    ASSUME NEW n, NEW told, NEW a, NEW e, NEW h, Sound(n, told, a, e, h),
           NEW type \in {"down", "arp", "dhcp"}, NEW m, m = xSendEventToIPTask(n, type)
    PROVE  Sound(m, told, a, e, h) /\ Keeps(n, m) /\ Changes(n, m, {"evq"}) /\ m.socks = n.socks
<1> DEFINE x == [type |-> type]
<1>1. DOMAIN n = NetFields /\ n.free \in Nat /\ h \in Nat
  BY DEF Sound, Formed, Counted
<1>2. x.type = type
  OBVIOUS
<1>3. m = n \/ m = Sent(n, x)
  BY DEF xSendEventToIPTask, xSendEventStructToIPTask, Sent
<1> HIDE DEF x
<1>4. CASE m = n
  BY <1>1, <1>4 DEF Keeps, Changes
<1>5. CASE m = Sent(n, x)
  <2>1. /\ Changes(n, m, {"evq"}) /\ m.evq = Append(n.evq, x) /\ m.free = n.free /\ Keeps(n, m)
        /\ m.socks = n.socks
    BY <1>1, <1>5, SentIs
  <2>2. EventRight(x, n.out, a)
    BY <1>2 DEF EventRight, EventTypes
  <2>3. PendingFits(n, a, e, x)
    BY <1>2 DEF PendingFits, Pending
  <2>4. EventHands(x) = 0
    BY <1>2 DEF EventHands, HasBuffer
  <2>5. Changes(n, m, Flags \cup {"evq", "free"})
    BY <2>1 DEF Changes
  <2>6. m.free + h + EventHands(x) = n.free + h
    BY <1>1, <2>1, <2>4
  <2> QED
    BY <1>1, <2>1, <2>2, <2>3, <2>5, <2>6, PostedSound
<1> QED
  BY <1>3, <1>4, <1>5

LEMMA NetworkDownSound ==
    ASSUME NEW n, NEW told, NEW a, NEW e, NEW h, Sound(n, told, a, e, h)
    PROVE  Sound(FreeRTOS_NetworkDown(n), told, a, e, h) /\ Keeps(n, FreeRTOS_NetworkDown(n))
<1> DEFINE m == xSendEventToIPTask(n, "down")
           d == FreeRTOS_NetworkDown(n)
<1>1. Sound(m, told, a, e, h) /\ Keeps(n, m)
  BY SignalSound
<1>2. DOMAIN m = NetFields /\ DOMAIN m.dhcp = DhcpFields
  BY <1>1 DEF Sound, Formed
<1>3. d = [m EXCEPT !.downPending = ~CanPost(n, [type |-> "down"])]
  BY DEF FreeRTOS_NetworkDown
<1> HIDE DEF m
<1>4. Changes(m, d, Flags \cup {"dhcp"}) /\ d.dhcp = m.dhcp /\ Keeps(m, d)
  BY <1>2, <1>3 DEF Changes, NetFields, Flags, Keeps
<1>5. Sound(d, told, a, e, h)
  BY <1>1, <1>2, <1>4, SameSound
<1> QED
  BY <1>1, <1>4, <1>5, KeepsOn

LEMMA RetryDownSound ==
    ASSUME NEW n, NEW told, NEW a, NEW e, NEW h, Sound(n, told, a, e, h)
    PROVE  Sound(RetryDown(n), told, a, e, h) /\ Keeps(n, RetryDown(n))
BY NetworkDownSound DEF RetryDown, Keeps

LEMMA ReleaseSound ==
    ASSUME NEW n, NEW told, NEW a, NEW e, NEW k \in Nat, Sound(n, told, a, e, k + 1)
    PROVE  Sound(Release(n), told, a, e, k) /\ Keeps(n, Release(n))
<1> DEFINE m == Release(n)
<1>1. DOMAIN n = NetFields /\ n.free \in Nat
  BY DEF Sound, Formed
<1>2. Changes(n, m, {"free"}) /\ m.free = n.free + 1 /\ Keeps(n, m)
  BY <1>1 DEF Release, Changes, NetFields, Keeps
<1> HIDE DEF m
<1>3. Changes(n, m, Flags \cup {"free"})
  BY <1>2 DEF Changes
<1>4. m.free \in Nat /\ m.free + k = n.free + (k + 1)
  BY <1>1, <1>2
<1>5. Sound(m, told, a, e, k)
  BY <1>3, <1>4, BufferSound
<1> QED
  BY <1>2, <1>5 DEF m

LEMMA OutputSound ==
    ASSUME NEW n, NEW told, NEW a, NEW e, NEW h, Sound(n, told, a, e, h), a.id \in Nat,
           NEW frames, \A f \in frames : Question(f, a)
    PROVE  Sound(Output(n, frames), told, a, e, h) /\ Keeps(n, Output(n, frames))
<1> DEFINE m == Output(n, frames)
<1>1. DOMAIN n = NetFields
  BY DEF Sound, Formed
<1>2. Changes(n, m, {"out"}) /\ m.out = n.out \cup frames
  BY <1>1 DEF Output, Changes, NetFields
<1> QED
  BY <1>2, OutSound

LEMMA RequestsSound ==
    ASSUME NEW n, NEW told, NEW a, NEW e, NEW h, Sound(n, told, a, e, h), a.id \in Nat,
           NEW frames, \A f \in frames : f.type = "arp"
    PROVE  Sound(OutputRequests(n, frames), told, a, e, h) /\ Keeps(n, OutputRequests(n, frames))
<1>1. \A f \in frames : Question(f, a)
  BY DEF Question
<1> QED
  BY <1>1, OutputSound DEF OutputRequests, Keeps

-----------------------------------------------------------------------------
(* The handlers of events.                                                 *)

LEMMA ArpTimerSound ==
    ASSUME NEW n, NEW told, NEW a, NEW e, NEW h, Sound(n, told, a, e, h), a.id \in Nat, NEW due
    PROVE  Sound(ArpTimerEvent(n, due), told, a, e, h) /\ Keeps(n, ArpTimerEvent(n, due))
<1> DEFINE aged == vARPAgeCache(n.arp, n.ip)
           older == [n EXCEPT !.arp = aged.arp]
           asked == OutputRequests(older, aged.out)
           again == FreeRTOS_OutputARPRequest(asked, n.ip)
           quiet == [again EXCEPT !.announce = FALSE]
<1>1. DOMAIN n = NetFields /\ ArpKept(n.arp, told)
  BY DEF Sound, Formed
<1>2. ArpKept(aged.arp, told)
  BY <1>1, AgeKeeps
<1>3. \A f \in aged.out : f.type = "arp"
  BY DEF vARPAgeCache, vARPGenerateRequestPacket
<1> HIDE DEF aged
<1>4. Changes(n, older, {"arp"}) /\ older.arp = aged.arp
  BY <1>1 DEF Changes, NetFields
<1> HIDE DEF older
<1>5. Sound(older, told, a, e, h) /\ Keeps(n, older)
  BY <1>2, <1>4, ArpSound
<1>6. Sound(asked, told, a, e, h) /\ Keeps(older, asked)
  BY <1>3, <1>5, RequestsSound
<1> HIDE DEF asked
<1>7. Sound(again, told, a, e, h) /\ Keeps(asked, again)
  <2>1. \A f \in {vARPGenerateRequestPacket(asked.ip, n.ip)} : f.type = "arp"
    BY DEF vARPGenerateRequestPacket
  <2> QED
    BY <1>6, <2>1, RequestsSound DEF FreeRTOS_OutputARPRequest
<1> HIDE DEF again
<1>8. DOMAIN again = NetFields /\ DOMAIN again.dhcp = DhcpFields
  BY <1>7 DEF Sound, Formed
<1>9. Changes(again, quiet, Flags \cup {"dhcp"}) /\ quiet.dhcp = again.dhcp /\ Keeps(again, quiet)
  BY <1>8 DEF Changes, NetFields, Flags, Keeps
<1> HIDE DEF quiet
<1>10. Sound(quiet, told, a, e, h)
  BY <1>7, <1>8, <1>9, SameSound
<1>11. Keeps(n, asked) /\ Keeps(n, quiet)
  BY <1>5, <1>6, <1>7, <1>9, KeepsOn
<1>12. ArpTimerEvent(n, due) = IF n.announce \/ due THEN quiet ELSE asked
  BY DEF ArpTimerEvent, quiet, again, asked, older, aged
<1> QED
  BY <1>6, <1>10, <1>11, <1>12

\* A datagram or a ping of this host goes out, or waits for an address in vain.
LEMMA GeneratedSound ==
    ASSUME NEW n, NEW told, NEW a, NEW e, NEW k \in Nat, Sound(n, told, a, e, k + 1),
           a.id \in Nat, NEW packet, Question(packet, a)
    PROVE  /\ Sound(vProcessGeneratedUDPPacket(n, packet), told, a, e, k)
           /\ Keeps(n, vProcessGeneratedUDPPacket(n, packet))
<1> DEFINE found == eARPGetCacheEntry(n.arp, n.ip, n.gateway, packet.dip)
           frame == [type |-> packet.type, dmac |-> found.mac, smac |-> MyMac, sip |-> n.ip,
                     dip |-> packet.dip, sport |-> packet.sport, dport |-> packet.dport,
                     body |-> packet.body]
           asked == [n EXCEPT !.arp = vARPRefreshCacheEntry(@, n.ip, NoMac, found.ip)]
           request == vARPGenerateRequestPacket(n.ip, found.ip)
<1>1. DOMAIN n = NetFields /\ ArpKept(n.arp, told)
  BY DEF Sound, Formed
<1>2. vProcessGeneratedUDPPacket(n, packet) =
         CASE found.result = "hit" -> Release(Output(n, {frame}))
           [] found.result = "miss" -> Release(Output(asked, {request}))
           [] OTHER -> Release(n)
  BY DEF vProcessGeneratedUDPPacket
<1>3. Question(frame, a)
  BY DEF Question
<1>4. Question(request, a)
  BY DEF Question, vARPGenerateRequestPacket
<1> HIDE DEF found, frame, request
<1>5. Sound(Output(n, {frame}), told, a, e, k + 1) /\ Keeps(n, Output(n, {frame}))
  BY <1>3, OutputSound
<1>6. Sound(asked, told, a, e, k + 1) /\ Keeps(n, asked)
  <2>1. ArpKept(vARPRefreshCacheEntry(n.arp, n.ip, NoMac, found.ip), told)
    BY <1>1, RefreshAsked
  <2>2. Changes(n, asked, {"arp"})
        /\ asked.arp = vARPRefreshCacheEntry(n.arp, n.ip, NoMac, found.ip)
    BY <1>1 DEF Changes, NetFields
  <2> HIDE DEF asked
  <2> QED
    BY <2>1, <2>2, ArpSound
<1> HIDE DEF asked
<1>7. Sound(Output(asked, {request}), told, a, e, k + 1) /\ Keeps(asked, Output(asked, {request}))
  BY <1>4, <1>6, OutputSound
<1>8. Keeps(n, Output(asked, {request}))
  BY <1>6, <1>7, KeepsOn
<1>9. /\ Sound(Release(n), told, a, e, k) /\ Keeps(n, Release(n))
      /\ Sound(Release(Output(n, {frame})), told, a, e, k)
      /\ Keeps(n, Release(Output(n, {frame})))
      /\ Sound(Release(Output(asked, {request})), told, a, e, k)
      /\ Keeps(n, Release(Output(asked, {request})))
  BY <1>5, <1>7, <1>8, ReleaseSound, KeepsOn
<1> QED
  BY <1>2, <1>9

\* What is heard when a frame comes in.
Told(n, told, frame) ==
    IF Tells(n, frame) THEN [told EXCEPT ![frame.sip] = frame.smac] ELSE told

LEMMA HeardSound ==
    ASSUME NEW n, NEW told, NEW a, NEW e, NEW h, Sound(n, told, a, e, h),
           NEW frame, FrameRight(frame, n.out, a)
    PROVE  /\ Sound(Heard(n, frame), [told EXCEPT ![frame.sip] = frame.smac], a, e, h)
           /\ Keeps(n, Heard(n, frame)) /\ Heard(n, frame).socks = n.socks
           /\ Heard(n, frame).names = n.names
<1> DEFINE m == Heard(n, frame)
           now == [told EXCEPT ![frame.sip] = frame.smac]
<1>1. DOMAIN n = NetFields /\ ArpKept(n.arp, told)
  BY DEF Sound, Formed
<1>2. frame.sip \in Others /\ frame.smac # NoMac
  BY DEF FrameRight
<1>3. Changes(n, m, {"arp"}) /\ m.socks = n.socks /\ m.names = n.names
      /\ m.arp = vARPRefreshCacheEntry(n.arp, n.ip, frame.smac, frame.sip)
  BY <1>1 DEF Heard, Changes, NetFields
<1>4. ArpKept(m.arp, now)
  BY <1>1, <1>2, <1>3, RefreshHeard
<1> HIDE DEF m, now
<1>5. Sound(m, now, a, e, h) /\ Keeps(n, m)
  BY <1>3, <1>4, ArpSound
<1> QED
  BY <1>3, <1>5 DEF m, now

LEMMA DatagramSound ==
    ASSUME NEW n, NEW told, NEW a, NEW e, NEW k \in Nat, Sound(n, told, a, e, k + 1),
           NEW frame, FrameRight(frame, n.out, a), frame.type = "udp",
           frame.dmac \in {MyMac, MacBroadcast}, prvAllowIPPacket(n, frame),
           NEW got, got = xProcessReceivedUDPPacket(n, frame)
    PROVE  /\ Sound(got.net, Told(n, told, frame), a, e, IF got.consumed THEN k ELSE k + 1)
           /\ Keeps(n, got.net)
<1> DEFINE s == pxUDPSocketLookup(n, frame.dport)
           heardNow == [told EXCEPT ![frame.sip] = frame.smac]
           n1 == Heard(n, frame)
           queued == Queued(n1, s, frame)
           named == [n1 EXCEPT !.names = ulDNSHandlePacket(@, frame.body)]
<1>1. /\ Sound(n1, heardNow, a, e, k + 1) /\ Keeps(n, n1) /\ n1.socks = n.socks
      /\ n1.names = n.names
  BY HeardSound
<1>2. frame.sip \in OnLink
  BY IpAssumption DEF FrameRight
<1>3. got = IF s # NoSocket
            THEN [net |-> IF s = n.dhcp.sock THEN xSendEventToIPTask(queued, "dhcp") ELSE queued,
                  consumed |-> TRUE]
            ELSE IF frame.sport = DnsPort THEN [net |-> named, consumed |-> FALSE]
            ELSE [net |-> n, consumed |-> FALSE]
  BY Zenon DEF xProcessReceivedUDPPacket, Queued
<1>4. s # NoSocket => s \in Sockets /\ n.socks[s].bound /\ n.socks[s].port = frame.dport
  BY DEF pxUDPSocketLookup, BoundTo
<1>5. s = NoSocket => BoundTo(n, frame.dport) = {}
  BY StackAssumption DEF pxUDPSocketLookup, BoundTo
<1>6. Tells(n, frame) <=> s # NoSocket \/ frame.sport = DnsPort
  <2>1. s # NoSocket <=> \E t \in Sockets : n.socks[t].bound /\ n.socks[t].port = frame.dport
    BY <1>4, <1>5 DEF BoundTo
  <2> HIDE DEF s
  <2>2. frame.dip \in {n.ip, Broadcast} \/ n.ip = NoAddress
    BY DEF prvAllowIPPacket
  <2> QED
    BY <1>2, <2>1, <2>2 DEF Tells
<1>7. DOMAIN n1 = NetFields
  BY <1>1 DEF Sound, Formed
<1>8. FrameRight(frame, n1.out, a)
  <2>1. a.id \in Nat => Recalls(a, a)
    BY DEF Recalls
  <2>2. n.out \subseteq n1.out
    BY <1>1 DEF Keeps
  <2>3. n1.out = n.out
    <3>1. DOMAIN n = NetFields
      BY DEF Sound, Formed
    <3> QED
      BY <3>1 DEF Heard, NetFields
  <2> QED
    BY <2>3
<1> HIDE DEF s, n1
<1>9. CASE s # NoSocket
  <2>1. Sound(queued, heardNow, a, e, k) /\ Keeps(n1, queued)
    BY <1>1, <1>4, <1>8, <1>9, RxSound
  <2>2. Keeps(n, queued)
    BY <1>1, <2>1, KeepsOn
  <2> HIDE DEF queued, heardNow
  <2>3. Sound(xSendEventToIPTask(queued, "dhcp"), heardNow, a, e, k)
        /\ Keeps(queued, xSendEventToIPTask(queued, "dhcp"))
    BY <2>1, SignalSound
  <2>4. Keeps(n, xSendEventToIPTask(queued, "dhcp"))
    BY <2>2, <2>3, KeepsOn
  <2>5. Told(n, told, frame) = heardNow
    BY <1>6, <1>9 DEF Told, heardNow
  <2>6. got.consumed /\ got.net \in {queued, xSendEventToIPTask(queued, "dhcp")}
    BY <1>3, <1>9
  <2> QED
    BY <2>1, <2>2, <2>3, <2>4, <2>5, <2>6
<1>10. CASE s = NoSocket /\ frame.sport = DnsPort
  <2>1. Answer(frame.body, a)
    BY <1>10, StackAssumption, IpAssumption DEF FrameRight, ServerPort
  <2>2. NamesKept(ulDNSHandlePacket(n1.names, frame.body), a)
    <3>1. NamesKept(n1.names, a)
      BY <1>1 DEF Sound
    <3> QED
      BY <2>1, <3>1, HandledRight
  <2>3. Changes(n1, named, {"names"}) /\ named.names = ulDNSHandlePacket(n1.names, frame.body)
    BY <1>7 DEF Changes, NetFields
  <2> HIDE DEF named
  <2>4. Sound(named, heardNow, a, e, k + 1) /\ Keeps(n1, named)
    BY <1>1, <2>2, <2>3, NamesSound
  <2>5. Keeps(n, named)
    BY <1>1, <2>4, KeepsOn
  <2>6. Told(n, told, frame) = heardNow
    BY <1>6, <1>10 DEF Told
  <2> HIDE DEF heardNow
  <2>7. ~got.consumed /\ got.net = named
    BY <1>3, <1>10
  <2> QED
    BY <2>4, <2>5, <2>6, <2>7
<1>11. CASE s = NoSocket /\ frame.sport # DnsPort
  <2>1. Told(n, told, frame) = told
    BY <1>6, <1>11 DEF Told
  <2>2. ~got.consumed /\ got.net = n
    BY <1>3, <1>11
  <2> QED
    BY <2>1, <2>2 DEF Keeps
<1> QED
  BY <1>9, <1>10, <1>11

LEMMA PingSound ==
    ASSUME NEW n, NEW told, NEW a, NEW e, NEW h, Sound(n, told, a, e, h), a.id \in Nat,
           NEW frame, "type" \in DOMAIN frame, frame.type = "icmp"
    PROVE  /\ Sound(prvProcessICMPPacket(n, frame), told, a, e, h)
           /\ Keeps(n, prvProcessICMPPacket(n, frame))
<1> DEFINE answer == [frame EXCEPT !.body = "echo reply", !.dip = frame.sip, !.sip = n.ip,
                                   !.dmac = frame.smac, !.smac = MyMac]
<1>1. answer.type = "icmp"
  OBVIOUS
<1>2. prvProcessICMPPacket(n, frame) = n
      \/ prvProcessICMPPacket(n, frame) = Output(n, {answer})
  BY DEF prvProcessICMPPacket
<1> HIDE DEF answer
<1>3. Question(answer, a)
  BY <1>1 DEF Question
<1>4. Sound(Output(n, {answer}), told, a, e, h) /\ Keeps(n, Output(n, {answer}))
  BY <1>3, OutputSound
<1> QED
  BY <1>2, <1>4 DEF Keeps

LEMMA PacketSound ==
    ASSUME NEW n, NEW told, NEW a, NEW e, NEW k \in Nat, Sound(n, told, a, e, k + 1),
           a.id \in Nat,
           NEW frame, FrameRight(frame, n.out, a), frame.type # "arp",
           frame.dmac \in {MyMac, MacBroadcast},
           NEW got, got = prvProcessIPPacket(n, frame)
    PROVE  /\ Sound(got.net, Told(n, told, frame), a, e, IF got.consumed THEN k ELSE k + 1)
           /\ Keeps(n, got.net)
<1>1. frame.sip \in OnLink /\ frame.type \in {"udp", "icmp"} /\ "type" \in DOMAIN frame
  BY IpAssumption DEF FrameRight
<1>2. CASE ~prvAllowIPPacket(n, frame)
  <2>1. got = [net |-> n, consumed |-> FALSE]
    BY <1>2 DEF prvProcessIPPacket
  <2>2. ~Tells(n, frame)
    BY <1>2 DEF Tells, prvAllowIPPacket
  <2> QED
    BY <2>1, <2>2 DEF Told, Keeps
<1>3. CASE prvAllowIPPacket(n, frame) /\ frame.type = "udp"
  <2>1. got = xProcessReceivedUDPPacket(n, frame)
    BY <1>3 DEF prvProcessIPPacket
  <2> QED
    BY <1>3, <2>1, DatagramSound
<1>4. CASE prvAllowIPPacket(n, frame) /\ frame.type = "icmp"
  <2> DEFINE n1 == Heard(n, frame)
             now == [told EXCEPT ![frame.sip] = frame.smac]
  <2>1. Tells(n, frame)
    BY <1>1, <1>4 DEF Tells, prvAllowIPPacket
  <2>2. Told(n, told, frame) = now
    BY <2>1 DEF Told
  <2>3. got.consumed = FALSE /\ got.net \in {n1, prvProcessICMPPacket(n1, frame)}
    BY <1>4 DEF prvProcessIPPacket
  <2>4. Sound(n1, now, a, e, k + 1) /\ Keeps(n, n1)
    BY HeardSound
  <2> HIDE DEF n1, now
  <2>5. Sound(prvProcessICMPPacket(n1, frame), now, a, e, k + 1)
        /\ Keeps(n1, prvProcessICMPPacket(n1, frame))
    BY <1>1, <1>4, <2>4, PingSound
  <2>6. Keeps(n, prvProcessICMPPacket(n1, frame))
    BY <2>4, <2>5, KeepsOn
  <2> QED
    BY <2>2, <2>3, <2>4, <2>5, <2>6
<1> QED
  BY <1>1, <1>2, <1>3, <1>4

LEMMA EthernetSound ==
    ASSUME NEW n, NEW told, NEW a, NEW e, NEW k \in Nat, Sound(n, told, a, e, k + 1),
           a.id \in Nat, NEW frame, FrameRight(frame, n.out, a)
    PROVE  /\ Sound(prvProcessEthernetPacket(n, frame), Told(n, told, frame), a, e, k)
           /\ Keeps(n, prvProcessEthernetPacket(n, frame))
<1> DEFINE now == [told EXCEPT ![frame.sip] = frame.smac]
           arp == eARPProcessPacket(n.arp, n.ip, frame)
           ip == prvProcessIPPacket(n, frame)
           learnt == [n EXCEPT !.arp = arp.arp]
<1>1. prvProcessEthernetPacket(n, frame) =
        IF frame.dmac \notin {MyMac, MacBroadcast} THEN Release(n)
        ELSE IF frame.type = "arp" THEN Release(Output(learnt, arp.out))
        ELSE IF ip.consumed THEN ip.net ELSE Release(ip.net)
  BY DEF prvProcessEthernetPacket, eConsiderFrameForProcessing
<1>2. /\ frame.sip \in OnLink /\ frame.sip \in Others /\ frame.smac # NoMac
      /\ (frame.type = "arp" => frame.op \in {"request", "reply"})
  BY IpAssumption DEF FrameRight
<1>3. DOMAIN n = NetFields /\ ArpKept(n.arp, told)
  BY DEF Sound, Formed
<1>4. CASE frame.dmac \notin {MyMac, MacBroadcast}
  <2>1. ~Tells(n, frame)
    BY <1>4 DEF Tells
  <2> QED
    BY <1>1, <1>4, <2>1, ReleaseSound DEF Told
<1>5. CASE frame.dmac \in {MyMac, MacBroadcast} /\ frame.type = "arp"
  <2>1. Tells(n, frame) <=> n.ip # NoAddress /\ (frame.op = "reply" \/ frame.tip = n.ip)
    BY <1>2, <1>5 DEF Tells
  <2>2. ArpKept(arp.arp, Told(n, told, frame))
    <3>1. CASE Tells(n, frame)
      <4>1. arp.arp = vARPRefreshCacheEntry(n.arp, n.ip, frame.smac, frame.sip)
        BY <1>2, <1>5, <2>1, <3>1 DEF eARPProcessPacket
      <4> HIDE DEF arp
      <4> QED
        BY <1>2, <1>3, <3>1, <4>1, RefreshHeard DEF Told
    <3>2. CASE ~Tells(n, frame)
      <4>1. arp.arp = n.arp
        BY <1>2, <1>5, <2>1, <3>2 DEF eARPProcessPacket
      <4> HIDE DEF arp
      <4> QED
        BY <1>3, <3>2, <4>1 DEF Told
    <3> QED
      BY <3>1, <3>2
  <2>3. \A f \in arp.out : f.type = "arp"
    BY DEF eARPProcessPacket, ArpReply
  <2> HIDE DEF arp
  <2>4. Changes(n, learnt, {"arp"}) /\ learnt.arp = arp.arp
    BY <1>3 DEF Changes, NetFields
  <2> HIDE DEF learnt
  <2>5. Sound(learnt, Told(n, told, frame), a, e, k + 1) /\ Keeps(n, learnt)
    BY <2>2, <2>4, ArpSound
  <2>6. \A f \in arp.out : Question(f, a)
    BY <2>3 DEF Question
  <2>7. /\ Sound(Output(learnt, arp.out), Told(n, told, frame), a, e, k + 1)
        /\ Keeps(learnt, Output(learnt, arp.out))
    BY <2>5, <2>6, OutputSound
  <2>8. /\ Sound(Release(Output(learnt, arp.out)), Told(n, told, frame), a, e, k)
        /\ Keeps(Output(learnt, arp.out), Release(Output(learnt, arp.out)))
    BY <2>7, ReleaseSound
  <2>9. Keeps(n, Release(Output(learnt, arp.out)))
    BY <2>5, <2>7, <2>8, KeepsOn
  <2> QED
    BY <1>1, <1>5, <2>8, <2>9
<1>6. CASE frame.dmac \in {MyMac, MacBroadcast} /\ frame.type # "arp"
  <2>1. /\ Sound(ip.net, Told(n, told, frame), a, e, IF ip.consumed THEN k ELSE k + 1)
        /\ Keeps(n, ip.net)
    BY <1>6, PacketSound
  <2>2. prvProcessEthernetPacket(n, frame) = IF ip.consumed THEN ip.net ELSE Release(ip.net)
    BY <1>1, <1>6
  <2> HIDE DEF ip
  <2>3. CASE ip.consumed
    BY <2>1, <2>2, <2>3
  <2>4. CASE ~ip.consumed
    <3>1. Sound(Release(ip.net), Told(n, told, frame), a, e, k) /\ Keeps(ip.net, Release(ip.net))
      BY <2>1, <2>4, ReleaseSound
    <3> QED
      BY <2>1, <2>2, <2>4, <3>1, KeepsOn
  <2> QED
    BY <2>3, <2>4
<1> QED
  BY <1>4, <1>5, <1>6

-----------------------------------------------------------------------------
(* Sockets are closed.                                                     *)

LEMMA CloseIs ==
    ASSUME NEW n, DOMAIN n = NetFields, DOMAIN n.socks = Sockets, NEW s \in Sockets
    PROVE  /\ DOMAIN vSocketClose(n, s) = NetFields
           /\ Changes(n, vSocketClose(n, s), {"socks", "free"})
           /\ vSocketClose(n, s).socks = [n.socks EXCEPT ![s] = Closed]
           /\ vSocketClose(n, s).free = n.free + Len(n.socks[s].rx)
           /\ Keeps(n, vSocketClose(n, s))
BY DEF vSocketClose, Changes, NetFields, Keeps

LEMMA CloseEventSound ==
    ASSUME NEW n, NEW told, NEW a, NEW e, NEW h, Sound(n, told, a, e, h), e.type = "close"
    PROVE  /\ Sound(vSocketClose(n, e.sock), told, a, NoEvent, h)
           /\ Keeps(n, vSocketClose(n, e.sock))
<1> DEFINE s == e.sock
           m == vSocketClose(n, s)
<1>1. DOMAIN n = NetFields /\ DOMAIN n.socks = Sockets /\ DOMAIN n.dhcp = DhcpFields
  BY DEF Sound, Formed
<1>2. s \in Closing(n.evq, e)
  BY DEF Closing
<1>3. s \in Sockets /\ s \notin Mine(a) /\ s # n.dhcp.sock
  BY <1>2 DEF Sound, Owned
<1>4. s \notin Closing(n.evq, NoEvent)
  <2>1. PendingOnce(n.evq, e)
    BY DEF Sound, Owned
  <2>2. ASSUME NEW y \in Elems(n.evq), y.type = "close" PROVE y.sock # s
    BY <2>1, <2>2 DEF PendingOnce, Pending, Elems
  <2> QED
    BY <2>2 DEF Closing, NoEvent
<1>5. Sound(n, told, a, NoEvent, h)
  BY DropSound
<1> HIDE DEF s
<1>6. /\ DOMAIN m = NetFields /\ Changes(n, m, {"socks", "free"})
      /\ m.socks = [n.socks EXCEPT ![s] = Closed]
      /\ m.free = n.free + Len(n.socks[s].rx) /\ Keeps(n, m)
  BY <1>1, <1>3, CloseIs
<1> HIDE DEF m
<1>7. Changes(n, m, Flags \cup {"socks", "free", "dhcp"}) /\ m.dhcp = n.dhcp
  BY <1>6 DEF Changes, Keeps
<1>8. Sound(m, told, a, NoEvent, h)
  BY <1>1, <1>3, <1>4, <1>5, <1>6, <1>7, CloseSound
<1> QED
  BY <1>6, <1>8 DEF m, s

-----------------------------------------------------------------------------
(* The DHCP client.                                                        *)

\* As Keeps, but for the fields F of the client.
Leaves(n, m, F) ==
    /\ m.out = n.out /\ m.ip = n.ip /\ m.gateway = n.gateway /\ m.dns = n.dns
    /\ DOMAIN m.dhcp = DhcpFields /\ \A x \in DhcpFields \ F : m.dhcp[x] = n.dhcp[x]

\* The servers' addresses and the offered one are as they were.
LEMMA LeavesRight ==
    ASSUME NEW n, NEW m, NEW F \in SUBSET {"state", "xid", "period", "sock"}, Leaves(n, m, F)
    PROVE  (Routed(n) => Routed(m)) /\ (Offered(n) => Offered(m))
BY DEF Leaves, DhcpFields, Routed, Offered

LEMMA SendDhcpSound ==
    ASSUME NEW n, NEW told, NEW a, NEW e, NEW h, Sound(n, told, a, e, h), NEW op,
           op = "request" => Offered(n)
    PROVE  /\ Sound(SendDhcp(n, op), told, a, e, h) /\ DOMAIN SendDhcp(n, op) = NetFields
           /\ Leaves(n, SendDhcp(n, op), {})
<1> DEFINE packet == [type |-> "udp", dip |-> Broadcast, sport |-> DhcpPort,
                      dport |-> ServerPort, body |-> DhcpMessage(n, op)]
           x == [type |-> "tx", packet |-> packet]
           held == [n EXCEPT !.blocked = TRUE]
           posted == [Sent(n, x) EXCEPT !.free = @ - 1]
<1>1. DOMAIN n = NetFields /\ DOMAIN n.dhcp = DhcpFields /\ n.free \in Nat /\ h \in Nat
  BY DEF Sound, Formed, Counted
<1>2. SendDhcp(n, op) = IF n.free = 0 THEN held ELSE IF CanPost(n, x) THEN posted ELSE n
  BY DEF SendDhcp, xSendEventStructToIPTask, Sent
<1>3. Sound(held, told, a, e, h) /\ Leaves(n, held, {}) /\ DOMAIN held = NetFields
  <2>1. /\ Changes(n, held, Flags \cup {"dhcp"}) /\ held.dhcp = n.dhcp /\ Leaves(n, held, {})
        /\ DOMAIN held = NetFields
    BY <1>1 DEF Changes, Flags, NetFields, Leaves
  <2> HIDE DEF held
  <2> QED
    BY <1>1, <2>1, SameSound
<1>4. CASE n.free # 0
  <2>1. EventRight(x, n.out, a) /\ PendingFits(n, a, e, x) /\ EventHands(x) = 1
    <3>1. packet.dport # DnsPort
      BY StackAssumption DEF ServerPort
    <3>2. packet.body.op = "request" => packet.body.ip \in Pool[packet.body.server]
      BY DEF DhcpMessage, Offered
    <3> HIDE DEF packet
    <3>3. Question(packet, a)
      BY <3>1, <3>2 DEF Question
    <3> QED
      BY <3>3 DEF EventRight, EventTypes, PendingFits, Pending, EventHands, HasBuffer
  <2> HIDE DEF x
  <2>2. /\ DOMAIN Sent(n, x) = NetFields /\ Changes(n, Sent(n, x), {"evq"})
        /\ Sent(n, x).evq = Append(n.evq, x) /\ Sent(n, x).free = n.free
        /\ Keeps(n, Sent(n, x))
    BY <1>1, SentIs
  <2>3. Sent(n, x).out = n.out
    BY <1>1, <2>2 DEF Changes, NetFields
  <2>4. /\ DOMAIN posted = NetFields /\ Changes(n, posted, Flags \cup {"evq", "free"})
        /\ posted.evq = Append(n.evq, x) /\ posted.free = n.free - 1
        /\ Leaves(n, posted, {})
    BY <1>1, <2>2, <2>3 DEF Changes, NetFields, Leaves, Keeps
  <2> HIDE DEF posted
  <2>5. posted.free \in Nat /\ posted.free + h + EventHands(x) = n.free + h
    BY <1>1, <1>4, <2>1, <2>4
  <2>6. Sound(posted, told, a, e, h)
    BY <1>1, <2>1, <2>4, <2>5, PostedSound
  <2>7. Leaves(n, n, {})
    BY <1>1 DEF Leaves
  <2> HIDE DEF held
  <2> QED
    BY <1>1, <1>2, <1>4, <2>4, <2>6, <2>7
<1> HIDE DEF held, posted
<1> QED
  BY <1>2, <1>3, <1>4

LEMMA CloseDhcpSound ==
    ASSUME NEW n, NEW told, NEW a, NEW e, NEW h, Sound(n, told, a, e, h), n.dhcp.sock # NoSocket
    PROVE  /\ Sound(CloseDhcpSocket(n), told, a, e, h) /\ DOMAIN CloseDhcpSocket(n) = NetFields
           /\ Leaves(n, CloseDhcpSocket(n), {"sock"}) /\ CloseDhcpSocket(n).dhcp.sock = NoSocket
<1> DEFINE s == n.dhcp.sock
           c == vSocketClose(n, s)
           m == CloseDhcpSocket(n)
<1>1. DOMAIN n = NetFields /\ DOMAIN n.socks = Sockets /\ DOMAIN n.dhcp = DhcpFields
  BY DEF Sound, Formed
<1>2. s \in Sockets /\ s \notin Mine(a) /\ s \notin Closing(n.evq, e)
  BY DEF Sound, Owned
<1> HIDE DEF s
<1>3. /\ DOMAIN c = NetFields /\ Changes(n, c, {"socks", "free"})
      /\ c.socks = [n.socks EXCEPT ![s] = Closed]
      /\ c.free = n.free + Len(n.socks[s].rx) /\ Keeps(n, c)
  BY <1>1, <1>2, CloseIs
<1>4. c.dhcp = n.dhcp /\ c.out = n.out
  BY <1>1, <1>3 DEF Keeps, Changes, NetFields
<1>5. m = [c EXCEPT !.dhcp.sock = NoSocket]
  BY DEF CloseDhcpSocket, s
<1> HIDE DEF c
<1>6. /\ DOMAIN m = NetFields /\ Changes(n, m, Flags \cup {"socks", "free", "dhcp"})
      /\ m.socks = c.socks /\ m.free = c.free
      /\ m.dhcp = [c.dhcp EXCEPT !.sock = NoSocket]
      /\ m.out = c.out /\ m.ip = c.ip /\ m.gateway = c.gateway /\ m.dns = c.dns
  BY <1>1, <1>3, <1>5 DEF Changes, NetFields, Flags
<1> HIDE DEF m
<1>7. DOMAIN m.dhcp = DhcpFields /\ m.dhcp.sock = NoSocket
      /\ \A x \in DhcpFields \ {"sock"} : m.dhcp[x] = n.dhcp[x]
  BY <1>1, <1>4, <1>6 DEF DhcpFields
<1>8. Sound(m, told, a, e, h)
  <2>1. m.dhcp.sock \in {n.dhcp.sock, NoSocket} /\ m.dhcp.sock # s
    BY <1>2, <1>7, StackAssumption
  <2>2. m.socks = [n.socks EXCEPT ![s] = Closed] /\ m.free = n.free + Len(n.socks[s].rx)
    BY <1>3, <1>6
  <2> QED
    BY <1>2, <1>6, <1>7, <2>1, <2>2, CloseSound
<1>9. Leaves(n, m, {"sock"})
  BY <1>3, <1>4, <1>6, <1>7 DEF Leaves, Keeps
<1> QED
  BY <1>6, <1>7, <1>8, <1>9 DEF m

\* The client's socket: bound to the client's port, or given back.
LEMMA DhcpSocketSound ==
    ASSUME NEW n, NEW told, NEW a, NEW e, NEW h, Sound(n, told, a, e, h),
           NEW s \in FreeSockets(n)
    PROVE  /\ Sound(prvCreateDHCPSocket(n, s), told, a, e, h)
           /\ DOMAIN prvCreateDHCPSocket(n, s) = NetFields
           /\ Leaves(n, prvCreateDHCPSocket(n, s), {"sock"})
<1> DEFINE c == FreeRTOS_socket(n, s)
           b == vSocketBind(c, s, DhcpPort)
           m == [b EXCEPT !.dhcp.sock = s]
           g == vSocketClose(b, s)
<1>1. DOMAIN n = NetFields /\ DOMAIN n.dhcp = DhcpFields
  BY DEF Sound, Formed
<1>2. prvCreateDHCPSocket(n, s) = IF n.dhcp.sock # NoSocket \/ s = NoSocket THEN n
                                  ELSE IF b.socks[s].bound THEN m ELSE g
  BY DEF prvCreateDHCPSocket
<1>3. CASE n.dhcp.sock # NoSocket \/ s = NoSocket
  BY <1>1, <1>2, <1>3 DEF Leaves
<1>4. CASE n.dhcp.sock = NoSocket /\ s # NoSocket
  <2>1. s \in Sockets /\ ~n.socks[s].used
    BY <1>4 DEF FreeSockets
  <2>2. s \notin Mine(a) /\ s \notin Closing(n.evq, e)
    BY <2>1, UnusedIs
  <2>3. /\ Sound(c, told, a, e, h) /\ Keeps(n, c) /\ c.evq = n.evq /\ c.free = n.free
        /\ c.socks[s].used /\ ~c.socks[s].bound /\ c.socks[s].local = NoPort
        /\ DOMAIN c.socks[s] = SockFields /\ c.socks[s].rx = Closed.rx
        /\ c.socks = [n.socks EXCEPT ![s] = [Closed EXCEPT !.used = TRUE]]
        /\ Changes(n, c, {"socks"})
    BY <2>1, CreateSound
  <2>4. c.out = n.out /\ c.socks[s].bits = {} /\ DOMAIN c.socks = Sockets /\ DOMAIN c = NetFields
        /\ c.dhcp = n.dhcp
    <3>1. DOMAIN n.socks = Sockets
      BY DEF Sound, Formed
    <3>2. c.socks[s] = [Closed EXCEPT !.used = TRUE]
      BY <2>1, <2>3, <3>1
    <3> HIDE DEF c
    <3> QED
      BY <1>1, <2>3, <3>1, <3>2, ClosedIs DEF Changes, NetFields, Keeps, SockFields
  <2> HIDE DEF c
  <2>5. Formed(c) /\ c.free \in Nat /\ h \in Nat /\ DhcpPort # NoPort
    BY <2>3, StackAssumption DEF Sound, Formed, Counted, NoPort
  <2>6. /\ Changes(c, b, {"socks", "nextPort"}) /\ DOMAIN b = NetFields
        /\ b.nextPort \in 1 .. AutoPorts
        /\ \/ b.socks = c.socks
           \/ BoundAt(c, b, s, DhcpPort)
    BY <2>1, <2>5, BindIs
  <2> HIDE DEF b
  <2>7. /\ b.evq = c.evq /\ b.free = c.free /\ b.dhcp = n.dhcp /\ b.out = n.out
        /\ b.ip = n.ip /\ b.gateway = n.gateway /\ b.dns = n.dns
    BY <2>3, <2>4, <2>6 DEF Changes, NetFields, Keeps
  <2>8. CASE b.socks[s].bound
    <3>1. /\ b.socks # c.socks
          /\ \A t \in Sockets : c.socks[t].bound => c.socks[t].port # DhcpPort
          /\ DOMAIN b.socks = Sockets /\ DOMAIN b.socks[s] = SockFields
          /\ \A t \in Sockets \ {s} : b.socks[t] = c.socks[t]
          /\ b.socks[s].bound /\ b.socks[s].port = DhcpPort
          /\ b.socks[s].used = c.socks[s].used /\ b.socks[s].rx = c.socks[s].rx
          /\ b.socks[s].bits = c.socks[s].bits
      BY <2>3, <2>6, <2>8 DEF BoundAt
    <3>2. /\ DOMAIN m = NetFields /\ m.socks = b.socks /\ m.free = b.free
          /\ m.nextPort = b.nextPort /\ m.dhcp = [b.dhcp EXCEPT !.sock = s]
          /\ m.out = b.out /\ m.ip = b.ip /\ m.gateway = b.gateway /\ m.dns = b.dns
          /\ Changes(b, m, {"dhcp"})
      BY <2>6 DEF NetFields, Changes
    <3> HIDE DEF m
    <3>3. DOMAIN m.dhcp = DhcpFields /\ m.dhcp.sock = s
          /\ \A x \in DhcpFields \ {"sock"} : m.dhcp[x] = n.dhcp[x]
      BY <1>1, <2>7, <3>2 DEF DhcpFields
    <3>4. OneSocket(c, m, s)
      <4>1. Changes(c, m, Flags \cup {"socks", "free", "nextPort", "dhcp"})
        BY <2>6, <3>2 DEF Changes
      <4>2. IsSeq(m.socks[s].rx) /\ m.socks[s].used
        BY <2>3, <2>6, <3>1, <3>2, ClosedIs
      <4>3. /\ DOMAIN m.socks = Sockets /\ DOMAIN m.socks[s] = SockFields
            /\ \A t \in Sockets \ {s} : m.socks[t] = c.socks[t]
        BY <2>6, <3>1, <3>2
      <4>4. m.free \in Nat /\ m.nextPort \in 1 .. AutoPorts
        BY <2>5, <2>6, <2>7, <3>2
      <4> QED
        BY <3>3, <4>1, <4>2, <4>3, <4>4 DEF OneSocket
    <3>5. SocketRight(c, m.socks[s], s, a)
      <4>1. Elems(m.socks[s].rx) = {} /\ m.socks[s].port = DhcpPort
        BY <2>3, <2>6, <3>1, <3>2, ClosedIs
      <4>2. \A t \in Sockets : c.socks[t].bound => c.socks[t].port # DhcpPort
        BY <2>6, <3>1
      <4> QED
        BY <4>1, <4>2 DEF SocketRight
    <3>6. Passed(c, m, s, h, h)
      BY <2>5, <2>6, <2>7, <3>1, <3>2 DEF Passed
    <3>7. Owned(m.socks, m.dhcp.sock, c.evq, a, e)
      <4>1. Owned(c.socks, c.dhcp.sock, c.evq, a, e)
        BY <2>3 DEF Sound
      <4>2. \A t \in Sockets : m.socks[t].used = c.socks[t].used
        BY <2>6, <3>1, <3>2
      <4> QED
        BY <2>1, <2>2, <2>3, <3>3, <4>1, <4>2 DEF Owned
    <3>8. DhcpBound(m.socks, m.dhcp.sock)
      BY <2>6, <3>1, <3>2, <3>3 DEF DhcpBound
    <3>9. Binding(m.socks, c.evq, a, e)
      <4>1. Binding(c.socks, c.evq, a, e) /\ Mine(a) \subseteq Sockets
        BY <2>3 DEF Sound, Owned
      <4>2. Resolving(a) \/ a.pc \in {"bindPost", "bindWait"} => a.sock \in Sockets \ {s}
        BY <2>2, <4>1 DEF Mine, Binding
      <4>3. m.socks[s].bits = {} /\ \A t \in Sockets \ {s} : m.socks[t] = c.socks[t]
        BY <2>4, <2>6, <3>1, <3>2
      <4> QED
        BY <4>1, <4>2, <4>3 DEF Binding
    <3>10. Sound(m, told, a, e, h)
      BY <2>1, <2>3, <3>4, <3>5, <3>6, <3>7, <3>8, <3>9, SocketSound
    <3>11. Leaves(n, m, {"sock"})
      BY <2>7, <3>2, <3>3 DEF Leaves
    <3> QED
      BY <1>2, <1>4, <2>8, <3>2, <3>10, <3>11
  <2>9. CASE ~b.socks[s].bound
    <3>1. b.socks = c.socks
      BY <2>6, <2>9 DEF BoundAt
    <3>2. OneSocket(c, b, s)
      <4>1. Changes(c, b, Flags \cup {"socks", "free", "nextPort", "dhcp"})
        BY <2>6 DEF Changes
      <4> QED
        BY <1>1, <2>3, <2>4, <2>5, <2>6, <2>7, <3>1, <4>1, ClosedIs DEF OneSocket
    <3>3. SocketRight(c, b.socks[s], s, a)
      BY <2>3, <3>1, ClosedIs DEF SocketRight
    <3>4. Passed(c, b, s, h, h)
      BY <2>5, <2>7, <3>1 DEF Passed
    <3>5. Sound(b, told, a, e, h)
      <4>1. /\ Owned(b.socks, b.dhcp.sock, c.evq, a, e) /\ Binding(b.socks, c.evq, a, e)
            /\ DhcpBound(b.socks, b.dhcp.sock)
        BY <2>3, <2>4, <2>7, <3>1 DEF Sound
      <4> QED
        BY <2>1, <2>3, <3>2, <3>3, <3>4, <4>1, SocketSound
    <3>6. /\ DOMAIN g = NetFields /\ Changes(b, g, {"socks", "free"})
          /\ g.socks = [b.socks EXCEPT ![s] = Closed]
          /\ g.free = b.free + Len(b.socks[s].rx) /\ Keeps(b, g)
      BY <2>1, <2>4, <2>6, <3>1, CloseIs
    <3> HIDE DEF g
    <3>7. g.dhcp = b.dhcp /\ g.out = b.out /\ Changes(b, g, Flags \cup {"socks", "free", "dhcp"})
      BY <2>6, <3>6 DEF Changes, NetFields, Keeps
    <3>8. s \notin Closing(b.evq, e) /\ g.dhcp.sock = b.dhcp.sock /\ g.dhcp.sock # s
          /\ DOMAIN g.dhcp = DhcpFields
      BY <1>1, <1>4, <2>2, <2>3, <2>7, <3>7
    <3>9. Sound(g, told, a, e, h)
      BY <2>1, <2>2, <3>5, <3>6, <3>7, <3>8, CloseSound
    <3>10. Leaves(n, g, {"sock"})
      BY <1>1, <2>7, <3>6, <3>7 DEF Leaves, Keeps
    <3> QED
      BY <1>2, <1>4, <2>9, <3>6, <3>9, <3>10
  <2> QED
    BY <2>8, <2>9
<1> QED
  BY <1>3, <1>4

\* Only flags and addresses change.
LEMMA FlagSound ==
    ASSUME NEW n, NEW told, NEW a, NEW e, NEW h, Sound(n, told, a, e, h),
           NEW m, Changes(n, m, Flags)
    PROVE  /\ Sound(m, told, a, e, h) /\ DOMAIN m = NetFields
           /\ m.dhcp = n.dhcp /\ m.out = n.out /\ m.evq = n.evq
<1>1. DOMAIN n = NetFields /\ DOMAIN n.dhcp = DhcpFields
  BY DEF Sound, Formed
<1>2. DOMAIN m = NetFields /\ m.dhcp = n.dhcp /\ m.out = n.out /\ m.evq = n.evq
  BY <1>1 DEF Changes, NetFields, Flags
<1>3. Changes(n, m, Flags \cup {"dhcp"})
  BY DEF Changes
<1> QED
  BY <1>1, <1>2, <1>3, SameSound

LEMMA UpCallsSound ==
    ASSUME NEW n, NEW told, NEW a, NEW e, NEW h, Sound(n, told, a, e, h)
    PROVE  /\ Sound(vIPNetworkUpCalls(n), told, a, e, h) /\ DOMAIN vIPNetworkUpCalls(n) = NetFields
           /\ Leaves(n, vIPNetworkUpCalls(n), {})
<1> DEFINE m == vIPNetworkUpCalls(n)
<1>1. DOMAIN n = NetFields /\ DOMAIN n.dhcp = DhcpFields
  BY DEF Sound, Formed
<1>2. /\ Changes(n, m, Flags) /\ m.ip = n.ip /\ m.gateway = n.gateway /\ m.dns = n.dns
  BY <1>1 DEF vIPNetworkUpCalls, vApplicationIPNetworkEventHook, Changes, NetFields, Flags
<1> HIDE DEF m
<1>3. Sound(m, told, a, e, h) /\ DOMAIN m = NetFields /\ m.dhcp = n.dhcp /\ m.out = n.out
  BY <1>2, FlagSound
<1> QED
  BY <1>1, <1>2, <1>3 DEF Leaves, m

LEMMA DhcpTimerSound ==
    ASSUME NEW n, NEW told, NEW a, NEW e, NEW h, Sound(n, told, a, e, h), NEW on
    PROVE  /\ Sound(vIPSetDHCPTimerEnableState(n, on), told, a, e, h)
           /\ DOMAIN vIPSetDHCPTimerEnableState(n, on) = NetFields
           /\ Leaves(n, vIPSetDHCPTimerEnableState(n, on), {})
           /\ vIPReloadDHCPTimer(n) = vIPSetDHCPTimerEnableState(n, TRUE)
<1> DEFINE m == vIPSetDHCPTimerEnableState(n, on)
<1>1. DOMAIN n = NetFields /\ DOMAIN n.dhcp = DhcpFields
  BY DEF Sound, Formed
<1>2. /\ Changes(n, m, Flags) /\ m.ip = n.ip /\ m.gateway = n.gateway /\ m.dns = n.dns
  BY <1>1 DEF vIPSetDHCPTimerEnableState, Changes, NetFields, Flags
<1> HIDE DEF m
<1>3. Sound(m, told, a, e, h) /\ DOMAIN m = NetFields /\ m.dhcp = n.dhcp /\ m.out = n.out
  BY <1>2, FlagSound
<1>4. Leaves(n, m, {})
  BY <1>1, <1>2, <1>3 DEF Leaves
<1> QED
  BY <1>3, <1>4 DEF m, vIPReloadDHCPTimer, vIPSetDHCPTimerEnableState

\* The reply that counts: the request it answers was sent, to the server chosen.
Agreed(n) ==
    \E f \in DhcpSent(n, "request") :
        /\ f.body.xid = n.dhcp.xid /\ f.body.ip = n.dhcp.offered
        /\ f.body.server = n.dhcp.server

LEMMA RepliesSound ==
    ASSUME NEW n, NEW told, NEW a, NEW e, NEW h, Sound(n, told, a, e, h),
           n.dhcp.sock # NoSocket, Routed(n), NEW expected \in {"offer", "ack"},
           NEW got, got = prvProcessDHCPReplies(n, expected)
    PROVE  /\ Sound(got.net, told, a, e, h) /\ DOMAIN got.net = NetFields
           /\ DOMAIN got.net.dhcp = DhcpFields /\ got.net.dhcp.sock = n.dhcp.sock
           /\ \/ got.net.dhcp.state = n.dhcp.state
              \/ expected = "ack" /\ got.net.dhcp.state = "FirstDiscover"
           /\ Routed(got.net) /\ (got.ok => Offered(got.net))
           /\ expected = "ack" => IF got.ok THEN Agreed(got.net)
                                  ELSE /\ got.net.dhcp.offered = n.dhcp.offered
                                       /\ got.net.dhcp.server = n.dhcp.server
<1> DEFINE s == n.dhcp.sock
           f == Head(n.socks[s].rx)
           m == f.body
           t == TakePacket(n, s)
           taken == Release(t)
           read == DhcpOptions(taken, m, expected)
           last == [read EXCEPT !.dhcp.offered = m.ip]
<1>1. DOMAIN n = NetFields /\ DOMAIN n.dhcp = DhcpFields /\ h \in Nat
  BY DEF Sound, Formed, Counted
<1>2. got = IF n.socks[s].rx = <<>> THEN [net |-> n, ok |-> FALSE]
            ELSE IF ~IsOurs(n, m) THEN [net |-> taken, ok |-> FALSE]
            ELSE IF m.op = expected /\ (expected = "ack" => m.server = n.dhcp.server)
            THEN [net |-> last, ok |-> TRUE]
            ELSE [net |-> read, ok |-> FALSE]
  BY DEF prvProcessDHCPReplies
<1>3. CASE n.socks[s].rx = <<>>
  BY <1>1, <1>2, <1>3
<1>4. CASE n.socks[s].rx # <<>>
  <2>1. s \in Sockets /\ n.socks[s].used /\ n.socks[s].bound /\ n.socks[s].port = DhcpPort
    BY DEF Sound, Owned, DhcpBound
  <2>2. /\ Sound(t, told, a, e, h + 1) /\ Keeps(n, t)
        /\ f.type = "udp" /\ FrameRight(f, n.out, a) /\ f.dport = DhcpPort
    BY <1>4, <2>1, TakePacketSound
  <2> HIDE DEF s
  <2>3. Granted(m, n.out)
    <3>1. DhcpPort \notin Private /\ DhcpPort \notin {UserPort, UserPort + 1}
      BY StackAssumption, IpAssumption DEF Private
    <3> HIDE DEF f
    <3> QED
      BY <2>2, <3>1 DEF FrameRight
  <2> HIDE DEF t, f
  <2>4. Sound(taken, told, a, e, h) /\ Keeps(t, taken)
    BY <1>1, <2>2, ReleaseSound
  <2> HIDE DEF taken
  <2>5. /\ DOMAIN taken = NetFields /\ DOMAIN taken.dhcp = DhcpFields /\ taken.dhcp = n.dhcp
        /\ n.out \subseteq taken.out /\ taken.gateway = n.gateway /\ taken.dns = n.dns
    BY <2>2, <2>4 DEF Keeps, Sound, Formed
  <2> HIDE DEF m
  <2>6. /\ Changes(taken, read, Flags \cup {"dhcp"}) /\ DOMAIN read = NetFields
        /\ read.out = taken.out
        /\ DOMAIN read.dhcp = DhcpFields /\ read.dhcp.sock = taken.dhcp.sock
        /\ read.dhcp.xid = taken.dhcp.xid /\ read.dhcp.offered = taken.dhcp.offered
        /\ read.dhcp.server = IF expected = "offer" THEN m.server ELSE taken.dhcp.server
        /\ read.dhcp.state = IF m.op = "nack" /\ expected = "ack" THEN "FirstDiscover"
                             ELSE taken.dhcp.state
        /\ read.gateway = IF m.gateway = NoAddress THEN taken.gateway ELSE m.gateway
        /\ read.dns = IF m.dns = NoAddress THEN taken.dns ELSE m.dns
    BY <2>5 DEF DhcpOptions, Changes, NetFields, Flags, DhcpFields
  <2>7. Sound(read, told, a, e, h)
    <3> HIDE DEF read
    <3> QED
      BY <2>4, <2>6, SameSound
  <2> HIDE DEF read
  <2>8. /\ Changes(read, last, Flags \cup {"dhcp"}) /\ DOMAIN last = NetFields
        /\ last.out = read.out /\ last.gateway = read.gateway /\ last.dns = read.dns
        /\ DOMAIN last.dhcp = DhcpFields /\ last.dhcp.sock = read.dhcp.sock
        /\ last.dhcp.xid = read.dhcp.xid /\ last.dhcp.state = read.dhcp.state
        /\ last.dhcp.offered = m.ip /\ last.dhcp.server = read.dhcp.server
    BY <2>6 DEF Changes, NetFields, Flags, DhcpFields
  <2> HIDE DEF last
  <2>9. Sound(last, told, a, e, h)
    BY <2>7, <2>8, SameSound
  <2>10. ASSUME IsOurs(n, m), m.op = "ack", expected = "ack", m.server = n.dhcp.server
         PROVE  Agreed(last) /\ Offered(last)
    <3>1. PICK r \in n.out : /\ r.type = "udp" /\ r.dport = ServerPort
                             /\ r.body.op = "request" /\ r.body.xid = m.xid
                             /\ r.body.ip = m.ip /\ r.body.server = m.server
      BY <2>3, <2>10 DEF Granted
    <3>2. r.body.ip \in Pool[r.body.server]
      BY <3>1 DEF Sound, OutRight, Question
    <3>3. /\ r \in last.out /\ last.dhcp.server = m.server /\ last.dhcp.xid = m.xid
          /\ last.dhcp.offered = m.ip
      BY <2>5, <2>6, <2>8, <2>10 DEF IsOurs
    <3> QED
      BY <3>1, <3>2, <3>3 DEF Agreed, Offered, DhcpSent, SentTo
  <2>11. m.op = "offer" /\ expected = "offer" => Offered(last)
    BY <2>3, <2>6, <2>8 DEF Granted, Offered
  <2>12. Routed(taken) /\ Routed(read) /\ Routed(last)
    BY <2>3, <2>5, <2>6, <2>8 DEF Granted, Routed
  <2>13. taken.dhcp.state = n.dhcp.state /\ taken.dhcp.sock = n.dhcp.sock
    BY <2>5
  <2>14. CASE ~IsOurs(n, m)
    <3>1. got.net = taken /\ ~got.ok
      BY <1>2, <1>4, <2>14
    <3> QED
      BY <2>4, <2>5, <2>12, <2>13, <3>1
  <2>15. CASE IsOurs(n, m) /\ m.op = expected /\ (expected = "ack" => m.server = n.dhcp.server)
    <3>1. got.net = last /\ got.ok
      BY <1>2, <1>4, <2>15
    <3> QED
      BY <2>6, <2>8, <2>9, <2>10, <2>11, <2>12, <2>13, <2>15, <3>1
  <2>16. CASE IsOurs(n, m) /\ ~(m.op = expected /\ (expected = "ack" => m.server = n.dhcp.server))
    <3>1. got.net = read /\ ~got.ok
      BY <1>2, <1>4, <2>16
    <3> QED
      BY <2>5, <2>6, <2>7, <2>12, <2>13, <3>1
  <2> QED
    BY <2>14, <2>15, <2>16
<1> QED
  BY <1>3, <1>4

\* One field of the client, but not its socket.
DhcpWith(n, x, v) == [n EXCEPT !.dhcp = [@ EXCEPT ![x] = v]]

LEMMA WithSound ==
    ASSUME NEW n, NEW told, NEW a, NEW e, NEW h, Sound(n, told, a, e, h),
           NEW x \in DhcpFields \ {"sock"}, NEW v
    PROVE  /\ Sound(DhcpWith(n, x, v), told, a, e, h) /\ DOMAIN DhcpWith(n, x, v) = NetFields
           /\ Leaves(n, DhcpWith(n, x, v), {x}) /\ DhcpWith(n, x, v).dhcp[x] = v
           /\ DhcpWith(n, x, v).dhcp.sock = n.dhcp.sock
<1> DEFINE m == DhcpWith(n, x, v)
<1>1. DOMAIN n = NetFields /\ DOMAIN n.dhcp = DhcpFields
  BY DEF Sound, Formed
<1>2. /\ Changes(n, m, Flags \cup {"dhcp"}) /\ DOMAIN m = NetFields
      /\ m.dhcp = [n.dhcp EXCEPT ![x] = v]
      /\ m.out = n.out /\ m.ip = n.ip /\ m.gateway = n.gateway /\ m.dns = n.dns
  BY <1>1 DEF DhcpWith, Changes, NetFields, Flags
<1> HIDE DEF m
<1>3. DOMAIN m.dhcp = DhcpFields /\ m.dhcp.sock = n.dhcp.sock /\ m.dhcp[x] = v
      /\ \A y \in DhcpFields \ {x} : m.dhcp[y] = n.dhcp[y]
  BY <1>1, <1>2 DEF DhcpFields
<1>4. Sound(m, told, a, e, h) /\ Leaves(n, m, {x})
  BY <1>2, <1>3, SameSound DEF Leaves
<1> QED
  BY <1>2, <1>3, <1>4 DEF m

LEMMA WithIs ==
    ASSUME NEW n, DOMAIN n = NetFields, DOMAIN n.dhcp = DhcpFields
    PROVE  /\ \A v : [n EXCEPT !.dhcp.state = v] = DhcpWith(n, "state", v)
           /\ \A v : [n EXCEPT !.dhcp.period = v] = DhcpWith(n, "period", v)
           /\ [n EXCEPT !.dhcp.period = 2 * @] = DhcpWith(n, "period", 2 * n.dhcp.period)
           /\ [n EXCEPT !.dhcp.xid = @ + 1] = DhcpWith(n, "xid", n.dhcp.xid + 1)
BY DEF DhcpWith

\* The fields that the client writes in this way.
LEMMA SetSound ==
    ASSUME NEW n, NEW told, NEW a, NEW e, NEW h, Sound(n, told, a, e, h), NEW v
    PROVE  /\ /\ Sound(DhcpWith(n, "state", v), told, a, e, h)
              /\ DOMAIN DhcpWith(n, "state", v) = NetFields
              /\ Leaves(n, DhcpWith(n, "state", v), {"state"})
              /\ DhcpWith(n, "state", v).dhcp.state = v
              /\ DhcpWith(n, "state", v).dhcp.sock = n.dhcp.sock
           /\ /\ Sound(DhcpWith(n, "period", v), told, a, e, h)
              /\ DOMAIN DhcpWith(n, "period", v) = NetFields
              /\ Leaves(n, DhcpWith(n, "period", v), {"period"})
              /\ DhcpWith(n, "period", v).dhcp.state = n.dhcp.state
              /\ DhcpWith(n, "period", v).dhcp.sock = n.dhcp.sock
           /\ /\ Sound(DhcpWith(n, "xid", v), told, a, e, h)
              /\ DOMAIN DhcpWith(n, "xid", v) = NetFields
              /\ Leaves(n, DhcpWith(n, "xid", v), {"xid"})
              /\ DhcpWith(n, "xid", v).dhcp.state = n.dhcp.state
              /\ DhcpWith(n, "xid", v).dhcp.sock = n.dhcp.sock
<1>1. "state" \in DhcpFields \ {"sock"} /\ "period" \in DhcpFields \ {"sock"}
      /\ "xid" \in DhcpFields \ {"sock"}
  BY DEF DhcpFields
<1>2. /\ Sound(DhcpWith(n, "state", v), told, a, e, h)
      /\ DOMAIN DhcpWith(n, "state", v) = NetFields
      /\ Leaves(n, DhcpWith(n, "state", v), {"state"})
      /\ DhcpWith(n, "state", v).dhcp.sock = n.dhcp.sock
  BY <1>1, WithSound
<1>3. /\ Sound(DhcpWith(n, "period", v), told, a, e, h)
      /\ DOMAIN DhcpWith(n, "period", v) = NetFields
      /\ Leaves(n, DhcpWith(n, "period", v), {"period"})
      /\ DhcpWith(n, "period", v).dhcp.sock = n.dhcp.sock
  BY <1>1, WithSound
<1>4. /\ Sound(DhcpWith(n, "xid", v), told, a, e, h)
      /\ DOMAIN DhcpWith(n, "xid", v) = NetFields
      /\ Leaves(n, DhcpWith(n, "xid", v), {"xid"})
      /\ DhcpWith(n, "xid", v).dhcp.sock = n.dhcp.sock
  BY <1>1, WithSound
<1>5. DOMAIN n = NetFields /\ DOMAIN n.dhcp = DhcpFields
  BY DEF Sound, Formed
<1>6. DhcpWith(n, "state", v).dhcp.state = v
  BY <1>5 DEF DhcpWith, NetFields, DhcpFields
<1> QED
  BY <1>2, <1>3, <1>4, <1>6 DEF Leaves, DhcpFields

LEMMA GivingUpSound ==
    ASSUME NEW n, NEW told, NEW a, NEW e, NEW h, Sound(n, told, a, e, h), Routed(n)
    PROVE  Sound(GivingUp(n), told, a, e, h) /\ LeaseKept(GivingUp(n))
<1> DEFINE default == [n EXCEPT !.ip = DefaultAddress, !.dhcp.state = "NotUsingLeasedAddress"]
           timed == vIPSetDHCPTimerEnableState(default, FALSE)
           up == vIPNetworkUpCalls(timed)
<1>1. DOMAIN n = NetFields /\ DOMAIN n.dhcp = DhcpFields
  BY DEF Sound, Formed
<1>2. /\ Changes(n, default, Flags \cup {"dhcp"}) /\ DOMAIN default.dhcp = DhcpFields
      /\ default.dhcp.sock = n.dhcp.sock /\ default.dhcp.state = "NotUsingLeasedAddress"
      /\ default.gateway = n.gateway /\ default.dns = n.dns
  BY <1>1 DEF Changes, NetFields, Flags, DhcpFields
<1>3. GivingUp(n) = IF n.dhcp.sock = NoSocket THEN up ELSE CloseDhcpSocket(up)
  BY DEF GivingUp
<1> HIDE DEF default
<1>4. Sound(default, told, a, e, h)
  BY <1>2, SameSound
<1>5. Sound(timed, told, a, e, h) /\ Leaves(default, timed, {})
  BY <1>4, DhcpTimerSound
<1> HIDE DEF timed
<1>6. Sound(up, told, a, e, h) /\ Leaves(timed, up, {})
  BY <1>5, UpCallsSound
<1> HIDE DEF up
<1>7. up.dhcp.sock = n.dhcp.sock /\ up.dhcp.state = "NotUsingLeasedAddress" /\ Routed(up)
  BY <1>2, <1>5, <1>6 DEF Leaves, DhcpFields, Routed
<1>8. CASE n.dhcp.sock = NoSocket
  BY <1>3, <1>6, <1>7, <1>8 DEF LeaseKept, LeaseRight
<1>9. CASE n.dhcp.sock # NoSocket
  <2>1. Sound(CloseDhcpSocket(up), told, a, e, h) /\ Leaves(up, CloseDhcpSocket(up), {"sock"})
    BY <1>6, <1>7, <1>9, CloseDhcpSound
  <2>2. CloseDhcpSocket(up).dhcp.state = "NotUsingLeasedAddress" /\ Routed(CloseDhcpSocket(up))
    BY <1>7, <2>1 DEF Leaves, DhcpFields, Routed
  <2> QED
    BY <1>3, <1>9, <2>1, <2>2 DEF LeaseKept, LeaseRight
<1> QED
  BY <1>8, <1>9

LEMMA FirstDiscoverSound ==
    ASSUME NEW n, NEW told, NEW a, NEW e, NEW h, Sound(n, told, a, e, h), Routed(n),
           NEW s \in FreeSockets(n)
    PROVE  /\ Sound(WaitingSendFirstDiscover(n, s), told, a, e, h)
           /\ LeaseKept(WaitingSendFirstDiscover(n, s))
<1> DEFINE fresh == [n EXCEPT !.dhcp.xid = @ + 1, !.dhcp.offered = NoAddress,
                              !.dhcp.server = NoAddress, !.dhcp.period = 1]
           opened == prvCreateDHCPSocket(fresh, s)
           started == vIPReloadDHCPTimer(opened)
           bare == [started EXCEPT !.ip = NoAddress]
           asked == SendDhcp(bare, "discover")
           waits == [asked EXCEPT !.dhcp.state = "WaitingOffer"]
<1>1. DOMAIN n = NetFields /\ DOMAIN n.dhcp = DhcpFields
  BY DEF Sound, Formed
<1>2. WaitingSendFirstDiscover(n, s) = IF started.dhcp.sock = NoSocket THEN GivingUp(started)
                                       ELSE waits
  BY DEF WaitingSendFirstDiscover, prvInitialiseDHCP, prvSendDHCPDiscover
<1>3. /\ Changes(n, fresh, Flags \cup {"dhcp"}) /\ DOMAIN fresh.dhcp = DhcpFields
      /\ fresh.dhcp.sock = n.dhcp.sock /\ fresh.socks = n.socks /\ fresh.ready = n.ready
      /\ fresh.gateway = n.gateway /\ fresh.dns = n.dns
  BY <1>1 DEF Changes, NetFields, Flags, DhcpFields
<1> HIDE DEF fresh
<1>4. Sound(fresh, told, a, e, h) /\ s \in FreeSockets(fresh)
  BY <1>3, SameSound DEF FreeSockets
<1>5. Sound(opened, told, a, e, h) /\ Leaves(fresh, opened, {"sock"})
  BY <1>4, DhcpSocketSound
<1> HIDE DEF opened
<1>6. Sound(started, told, a, e, h) /\ Leaves(opened, started, {})
  BY <1>5, DhcpTimerSound
<1> HIDE DEF started
<1>7. Routed(started)
  BY <1>3, <1>5, <1>6 DEF Leaves, Routed
<1>8. CASE started.dhcp.sock = NoSocket
  BY <1>2, <1>6, <1>7, <1>8, GivingUpSound
<1>9. CASE started.dhcp.sock # NoSocket
  <2>1. DOMAIN started = NetFields /\ DOMAIN started.dhcp = DhcpFields
    BY <1>6 DEF Sound, Formed
  <2>2. Changes(started, bare, Flags) /\ bare.dhcp = started.dhcp
        /\ bare.gateway = started.gateway /\ bare.dns = started.dns
    BY <2>1 DEF Changes, NetFields, Flags
  <2> HIDE DEF bare
  <2>3. Sound(bare, told, a, e, h)
    BY <1>6, <2>2, FlagSound
  <2>4. Sound(asked, told, a, e, h) /\ Leaves(bare, asked, {}) /\ DOMAIN asked = NetFields
    BY <2>3, SendDhcpSound
  <2> HIDE DEF asked
  <2>5. asked.dhcp.sock # NoSocket /\ DOMAIN asked.dhcp = DhcpFields
    BY <1>9, <2>2, <2>4 DEF Leaves, DhcpFields
  <2>6. waits = DhcpWith(asked, "state", "WaitingOffer")
    BY <2>4, <2>5, WithIs
  <2> HIDE DEF waits
  <2>7. /\ Sound(waits, told, a, e, h) /\ waits.dhcp.sock = asked.dhcp.sock
        /\ waits.dhcp.state = "WaitingOffer" /\ Leaves(asked, waits, {"state"})
    BY <2>4, <2>6, SetSound
  <2>8. Routed(waits)
    BY <1>7, <2>2, <2>4, <2>7 DEF Leaves, Routed
  <2> QED
    BY <1>2, <1>9, <2>5, <2>7, <2>8 DEF LeaseKept, LeaseRight
<1> QED
  BY <1>8, <1>9

LEMMA OfferSound ==
    ASSUME NEW n, NEW told, NEW a, NEW e, NEW h, Sound(n, told, a, e, h), NEW late,
           n.dhcp.state = "WaitingOffer", n.dhcp.sock # NoSocket, Routed(n)
    PROVE  Sound(WaitingOffer(n, late), told, a, e, h) /\ LeaseKept(WaitingOffer(n, late))
<1> DEFINE got == prvProcessDHCPReplies(n, "offer")
           r == got.net
           tried == [r EXCEPT !.dhcp.period = 2 * @]
           later == [tried EXCEPT !.dhcp.xid = @ + 1]
           first == [r EXCEPT !.dhcp.period = 1]
           asked == SendDhcp(first, "request")
           waits == [asked EXCEPT !.dhcp.state = "WaitingAcknowledge"]
<1>1. WaitingOffer(n, late) =
        IF got.ok THEN waits
        ELSE IF ~late THEN r
        ELSE IF tried.dhcp.period <= MaxPeriod THEN SendDhcp(later, "discover")
        ELSE GivingUp(tried)
  BY DEF WaitingOffer, prvSendDHCPDiscover, prvSendDHCPRequest
<1>2. /\ Sound(r, told, a, e, h) /\ DOMAIN r = NetFields /\ DOMAIN r.dhcp = DhcpFields
      /\ r.dhcp.sock = n.dhcp.sock /\ r.dhcp.state = n.dhcp.state
      /\ Routed(r) /\ (got.ok => Offered(r))
  BY RepliesSound
<1> HIDE DEF got
<1>3. CASE got.ok
  <2>1. first = DhcpWith(r, "period", 1)
    BY <1>2, WithIs
  <2> HIDE DEF first
  <2>2. /\ Sound(first, told, a, e, h) /\ first.dhcp.sock = r.dhcp.sock
        /\ Leaves(r, first, {"period"})
    BY <1>2, <2>1, SetSound
  <2>3. Routed(first) /\ Offered(first)
    BY <1>2, <1>3, <2>2, LeavesRight
  <2>4. Sound(asked, told, a, e, h) /\ Leaves(first, asked, {}) /\ DOMAIN asked = NetFields
    BY <2>2, <2>3, SendDhcpSound
  <2> HIDE DEF asked
  <2>5. asked.dhcp.sock = first.dhcp.sock /\ DOMAIN asked.dhcp = DhcpFields
    BY <2>4 DEF Leaves, DhcpFields
  <2>6. waits = DhcpWith(asked, "state", "WaitingAcknowledge")
    BY <2>4, <2>5, WithIs
  <2> HIDE DEF waits
  <2>7. /\ Sound(waits, told, a, e, h) /\ waits.dhcp.sock = asked.dhcp.sock
        /\ waits.dhcp.state = "WaitingAcknowledge" /\ Leaves(asked, waits, {"state"})
    BY <2>4, <2>6, SetSound
  <2>8. Routed(waits) /\ Offered(waits)
    BY <2>3, <2>4, <2>7, LeavesRight
  <2> QED
    BY <1>1, <1>2, <1>3, <2>2, <2>5, <2>7, <2>8 DEF LeaseKept, LeaseRight
<1>4. CASE ~got.ok
  <2>1. tried = DhcpWith(r, "period", 2 * r.dhcp.period)
    BY <1>2, WithIs
  <2> HIDE DEF tried
  <2>2. /\ Sound(tried, told, a, e, h) /\ tried.dhcp.sock = r.dhcp.sock
        /\ DOMAIN tried = NetFields /\ tried.dhcp.state = r.dhcp.state
        /\ Leaves(r, tried, {"period"})
    BY <1>2, <2>1, SetSound
  <2>3. tried.dhcp.state = "WaitingOffer" /\ DOMAIN tried.dhcp = DhcpFields
    BY <1>2, <2>2 DEF Sound, Formed
  <2>4. later = DhcpWith(tried, "xid", tried.dhcp.xid + 1)
    BY <2>2, <2>3, WithIs
  <2> HIDE DEF later
  <2>5. /\ Sound(later, told, a, e, h) /\ later.dhcp.sock = tried.dhcp.sock
        /\ later.dhcp.state = tried.dhcp.state /\ Leaves(tried, later, {"xid"})
    BY <2>2, <2>4, SetSound
  <2>6. /\ Sound(SendDhcp(later, "discover"), told, a, e, h)
        /\ Leaves(later, SendDhcp(later, "discover"), {})
    BY <2>5, SendDhcpSound
  <2>7. /\ SendDhcp(later, "discover").dhcp.state = "WaitingOffer"
        /\ SendDhcp(later, "discover").dhcp.sock # NoSocket
    BY <1>2, <2>2, <2>3, <2>5, <2>6 DEF Leaves, DhcpFields
  <2>8. Routed(tried) /\ Routed(later) /\ Routed(SendDhcp(later, "discover"))
    BY <1>2, <2>2, <2>5, <2>6, LeavesRight
  <2>9. Sound(GivingUp(tried), told, a, e, h) /\ LeaseKept(GivingUp(tried))
    BY <2>2, <2>8, GivingUpSound
  <2>10. LeaseKept(r) /\ LeaseKept(SendDhcp(later, "discover"))
    BY <1>2, <2>7, <2>8 DEF LeaseKept, LeaseRight
  <2> QED
    BY <1>1, <1>2, <1>4, <2>6, <2>9, <2>10
<1> QED
  BY <1>3, <1>4

\* The address is the client's from here on.
LEMMA LeasedSound ==
    ASSUME NEW n, NEW told, NEW a, NEW e, NEW h, Sound(n, told, a, e, h),
           n.dhcp.sock # NoSocket, Agreed(n), Routed(n), Offered(n)
    PROVE  Sound(Leased(n), told, a, e, h) /\ LeaseKept(Leased(n))
<1> DEFINE taken == [n EXCEPT !.ip = n.dhcp.offered, !.dhcp.state = "LeasedAddress"]
           up == vIPNetworkUpCalls(taken)
           shut == CloseDhcpSocket(up)
           told2 == [shut EXCEPT !.announce = TRUE]
           sent == xSendEventToIPTask(told2, "arp")
           m == vIPReloadDHCPTimer(sent)
<1>1. DOMAIN n = NetFields /\ DOMAIN n.dhcp = DhcpFields
  BY DEF Sound, Formed
<1>2. Leased(n) = m
  BY DEF Leased, vARPSendGratuitous
<1>3. /\ Changes(n, taken, Flags \cup {"dhcp"}) /\ DOMAIN taken.dhcp = DhcpFields
      /\ taken.dhcp.sock = n.dhcp.sock /\ taken.dhcp.state = "LeasedAddress"
      /\ taken.dhcp.xid = n.dhcp.xid /\ taken.dhcp.offered = n.dhcp.offered
      /\ taken.dhcp.server = n.dhcp.server
      /\ taken.ip = n.dhcp.offered /\ taken.gateway = n.gateway /\ taken.dns = n.dns
      /\ taken.out = n.out
  BY <1>1 DEF Changes, NetFields, Flags, DhcpFields
<1> HIDE DEF taken
<1>4. Sound(taken, told, a, e, h)
  BY <1>3, SameSound
<1>5. Sound(up, told, a, e, h) /\ Leaves(taken, up, {})
  BY <1>4, UpCallsSound
<1> HIDE DEF up
<1>6. up.dhcp.sock # NoSocket
  BY <1>3, <1>5 DEF Leaves, DhcpFields
<1>7. /\ Sound(shut, told, a, e, h) /\ Leaves(up, shut, {"sock"}) /\ DOMAIN shut = NetFields
  BY <1>5, <1>6, CloseDhcpSound
<1> HIDE DEF shut
<1>8. /\ Changes(shut, told2, Flags) /\ told2.dhcp = shut.dhcp /\ told2.out = shut.out
      /\ told2.ip = shut.ip /\ told2.gateway = shut.gateway /\ told2.dns = shut.dns
  BY <1>7 DEF Changes, NetFields, Flags
<1> HIDE DEF told2
<1>9. Sound(told2, told, a, e, h)
  BY <1>7, <1>8, FlagSound
<1>10. Sound(sent, told, a, e, h) /\ Keeps(told2, sent)
  BY <1>9, SignalSound
<1> HIDE DEF sent
<1>11. Sound(m, told, a, e, h) /\ Leaves(sent, m, {})
  BY <1>10, DhcpTimerSound
<1> HIDE DEF m
<1>12. /\ n.out \subseteq m.out /\ m.ip = n.dhcp.offered /\ m.gateway = n.gateway
       /\ m.dns = n.dns /\ m.dhcp.state = "LeasedAddress" /\ m.dhcp.xid = n.dhcp.xid
       /\ m.dhcp.offered = n.dhcp.offered /\ m.dhcp.server = n.dhcp.server
  BY <1>3, <1>5, <1>7, <1>8, <1>10, <1>11 DEF Leaves, Keeps, DhcpFields
<1>13. LeaseKept(m)
  BY <1>12 DEF LeaseKept, LeaseRight, Routed, Offered, Agreed, DhcpSent, SentTo
<1> QED
  BY <1>2, <1>11, <1>13

LEMMA AcknowledgeSound ==
    ASSUME NEW n, NEW told, NEW a, NEW e, NEW h, Sound(n, told, a, e, h), NEW late,
           n.dhcp.state = "WaitingAcknowledge", LeaseKept(n)
    PROVE  Sound(WaitingAcknowledge(n, late), told, a, e, h) /\ LeaseKept(WaitingAcknowledge(n, late))
<1> DEFINE got == prvProcessDHCPReplies(n, "ack")
           r == got.net
           tried == [r EXCEPT !.dhcp.period = 2 * @]
           again == SendDhcp(tried, "request")
           over == [tried EXCEPT !.dhcp.state = "FirstDiscover"]
<1>1. WaitingAcknowledge(n, late) =
        IF got.ok THEN Leased(r)
        ELSE IF ~late THEN r
        ELSE IF tried.dhcp.period <= MaxPeriod THEN again
        ELSE over
  BY DEF WaitingAcknowledge, prvSendDHCPRequest
<1>2. /\ Sound(r, told, a, e, h) /\ DOMAIN r = NetFields /\ DOMAIN r.dhcp = DhcpFields
      /\ r.dhcp.sock # NoSocket /\ r.dhcp.state \in {"WaitingAcknowledge", "FirstDiscover"}
      /\ Routed(r) /\ Offered(r) /\ (got.ok => Agreed(r))
  <2>1. Routed(n) /\ Offered(n) /\ n.dhcp.sock # NoSocket
    BY DEF LeaseKept
  <2> QED
    BY <2>1, RepliesSound DEF Offered
<1> HIDE DEF got
<1>3. CASE got.ok
  BY <1>1, <1>2, <1>3, LeasedSound
<1>4. CASE ~got.ok
  <2>1. tried = DhcpWith(r, "period", 2 * r.dhcp.period)
    BY <1>2, WithIs
  <2> HIDE DEF tried
  <2>2. /\ Sound(tried, told, a, e, h) /\ tried.dhcp.sock = r.dhcp.sock
        /\ DOMAIN tried = NetFields /\ tried.dhcp.state = r.dhcp.state
        /\ Leaves(r, tried, {"period"})
    BY <1>2, <2>1, SetSound
  <2>3. Routed(tried) /\ Offered(tried)
    BY <1>2, <2>2, LeavesRight
  <2>4. DOMAIN tried.dhcp = DhcpFields
    BY <2>2 DEF Sound, Formed
  <2>5. Sound(again, told, a, e, h) /\ Leaves(tried, again, {})
    BY <2>2, <2>3, SendDhcpSound
  <2> HIDE DEF again
  <2>6. again.dhcp.state = r.dhcp.state /\ again.dhcp.sock # NoSocket
    BY <1>2, <2>2, <2>4, <2>5 DEF Leaves, DhcpFields
  <2>7. over = DhcpWith(tried, "state", "FirstDiscover")
    BY <2>2, <2>4, WithIs
  <2> HIDE DEF over
  <2>8. /\ Sound(over, told, a, e, h) /\ over.dhcp.state = "FirstDiscover"
        /\ Leaves(tried, over, {"state"})
    BY <2>2, <2>7, SetSound
  <2>9. Routed(again) /\ Offered(again) /\ Routed(over)
    BY <2>3, <2>5, <2>8, LeavesRight
  <2>10. LeaseKept(r) /\ LeaseKept(again) /\ LeaseKept(over)
    BY <1>2, <2>6, <2>8, <2>9 DEF LeaseKept, LeaseRight
  <2> QED
    BY <1>1, <1>2, <1>4, <2>5, <2>8, <2>10
<1> QED
  BY <1>3, <1>4

\* Renewal, or another try when no socket was to be had.
LEMMA RenewalSound ==
    ASSUME NEW n, NEW told, NEW a, NEW e, NEW h, Sound(n, told, a, e, h), LeaseKept(n),
           n.dhcp.state = "LeasedAddress", NEW s \in FreeSockets(n)
    PROVE  Sound(LeasedAddress(n, s), told, a, e, h) /\ LeaseKept(LeasedAddress(n, s))
<1> DEFINE opened == prvCreateDHCPSocket(n, s)
           first == [opened EXCEPT !.dhcp.period = 1]
           asked == SendDhcp(first, "request")
           waits == [asked EXCEPT !.dhcp.state = "WaitingAcknowledge"]
           m == vIPReloadDHCPTimer(waits)
<1>1. LeasedAddress(n, s) = IF opened.dhcp.sock = NoSocket THEN opened ELSE m
  BY DEF LeasedAddress, prvSendDHCPRequest
<1>2. /\ Sound(opened, told, a, e, h) /\ DOMAIN opened = NetFields
      /\ Leaves(n, opened, {"sock"})
  BY DhcpSocketSound
<1>3. Routed(opened) /\ Offered(opened)
  BY <1>2, LeavesRight DEF LeaseKept
<1> HIDE DEF opened
<1>4. CASE opened.dhcp.sock = NoSocket
  <2>1. /\ opened.out = n.out /\ opened.ip = n.ip /\ opened.gateway = n.gateway
        /\ opened.dns = n.dns /\ opened.dhcp.state = n.dhcp.state
        /\ opened.dhcp.xid = n.dhcp.xid /\ opened.dhcp.offered = n.dhcp.offered
        /\ opened.dhcp.server = n.dhcp.server
    BY <1>2 DEF Leaves, DhcpFields
  <2>2. LeaseKept(opened)
    BY <1>3, <2>1 DEF LeaseKept, LeaseRight, DhcpSent, SentTo
  <2> QED
    BY <1>1, <1>2, <1>4, <2>2
<1>5. CASE opened.dhcp.sock # NoSocket
  <2>1. first = DhcpWith(opened, "period", 1)
    BY <1>2, WithIs DEF Leaves
  <2> HIDE DEF first
  <2>2. /\ Sound(first, told, a, e, h) /\ first.dhcp.sock = opened.dhcp.sock
        /\ Leaves(opened, first, {"period"})
    BY <1>2, <2>1, SetSound
  <2>3. Routed(first) /\ Offered(first)
    BY <1>3, <2>2, LeavesRight
  <2>4. Sound(asked, told, a, e, h) /\ Leaves(first, asked, {}) /\ DOMAIN asked = NetFields
    BY <2>2, <2>3, SendDhcpSound
  <2> HIDE DEF asked
  <2>5. asked.dhcp.sock = first.dhcp.sock /\ DOMAIN asked.dhcp = DhcpFields
    BY <2>4 DEF Leaves, DhcpFields
  <2>6. waits = DhcpWith(asked, "state", "WaitingAcknowledge")
    BY <2>4, <2>5, WithIs
  <2> HIDE DEF waits
  <2>7. /\ Sound(waits, told, a, e, h) /\ waits.dhcp.sock = asked.dhcp.sock
        /\ waits.dhcp.state = "WaitingAcknowledge" /\ Leaves(asked, waits, {"state"})
    BY <2>4, <2>6, SetSound
  <2>8. Sound(m, told, a, e, h) /\ Leaves(waits, m, {})
    BY <2>7, DhcpTimerSound
  <2> HIDE DEF m
  <2>9. m.dhcp.sock # NoSocket /\ m.dhcp.state = "WaitingAcknowledge"
    BY <1>5, <2>2, <2>5, <2>7, <2>8 DEF Leaves, DhcpFields
  <2>10. Routed(m) /\ Offered(m)
    BY <2>3, <2>4, <2>7, <2>8, LeavesRight
  <2> QED
    BY <1>1, <1>5, <2>8, <2>9, <2>10 DEF LeaseKept, LeaseRight
<1> QED
  BY <1>4, <1>5

LEMMA DhcpProcessSound ==
    ASSUME NEW n, NEW told, NEW a, NEW e, NEW h, Sound(n, told, a, e, h), LeaseKept(n),
           NEW reset \in BOOLEAN, NEW late, NEW s \in FreeSockets(n)
    PROVE  /\ Sound(vDHCPProcess(n, reset, late, s), told, a, e, h)
           /\ LeaseKept(vDHCPProcess(n, reset, late, s))
<1> DEFINE m == vDHCPProcess(n, reset, late, s)
           off == vIPSetDHCPTimerEnableState(n, FALSE)
           st == n.dhcp.state
<1>1. CASE reset \/ st = "FirstDiscover"
  <2>1. m = WaitingSendFirstDiscover(n, s)
    BY <1>1 DEF vDHCPProcess
  <2> QED
    BY <2>1, FirstDiscoverSound DEF LeaseKept
<1>2. CASE ~reset /\ st = "WaitingOffer"
  <2>1. m = WaitingOffer(n, late)
    BY <1>2 DEF vDHCPProcess
  <2> QED
    BY <1>2, <2>1, OfferSound DEF LeaseKept
<1>3. CASE ~reset /\ st = "WaitingAcknowledge"
  <2>1. m = WaitingAcknowledge(n, late)
    BY <1>3 DEF vDHCPProcess
  <2> QED
    BY <1>3, <2>1, AcknowledgeSound
<1>4. CASE ~reset /\ st = "LeasedAddress"
  <2>1. m = LeasedAddress(n, s)
    BY <1>4 DEF vDHCPProcess
  <2> QED
    BY <1>4, <2>1, RenewalSound
<1>5. CASE ~reset /\ st \notin {"FirstDiscover", "WaitingOffer", "WaitingAcknowledge",
                                "LeasedAddress"}
  <2>1. m = off
    BY <1>5 DEF vDHCPProcess
  <2>2. Sound(off, told, a, e, h) /\ Leaves(n, off, {})
    BY DhcpTimerSound
  <2> HIDE DEF off
  <2>3. off.dhcp.state = n.dhcp.state
    BY <2>2 DEF Leaves, DhcpFields
  <2>4. LeaseKept(off)
    BY <1>5, <2>2, <2>3, LeavesRight DEF LeaseKept, LeaseRight
  <2> HIDE DEF m
  <2> QED
    BY <2>1, <2>2, <2>4 DEF m
<1> QED
  BY <1>1, <1>2, <1>3, <1>4, <1>5

LEMMA DownEventSound ==
    ASSUME NEW n, NEW told, NEW a, NEW e, NEW h, Sound(n, told, a, e, h), LeaseKept(n),
           NEW initialised, NEW s \in FreeSockets(n)
    PROVE  /\ Sound(prvProcessNetworkDownEvent(n, initialised, s), told, a, e, h)
           /\ LeaseKept(prvProcessNetworkDownEvent(n, initialised, s))
<1> DEFINE down == [n EXCEPT !.up = FALSE, !.arpTimer = FALSE]
           begun == vDHCPProcess(down, TRUE, FALSE, s)
           sent == xSendEventToIPTask(begun, "dhcp")
           again == FreeRTOS_NetworkDown(down)
<1>1. prvProcessNetworkDownEvent(n, initialised, s) = IF initialised THEN sent ELSE again
  BY DEF prvProcessNetworkDownEvent
<1>2. DOMAIN n = NetFields
  BY DEF Sound, Formed
<1>3. /\ Changes(n, down, Flags) /\ down.ip = n.ip /\ down.gateway = n.gateway
      /\ down.dns = n.dns /\ down.ready = n.ready /\ down.socks = n.socks
  BY <1>2 DEF Changes, NetFields, Flags
<1> HIDE DEF down
<1>4. Sound(down, told, a, e, h) /\ down.dhcp = n.dhcp /\ down.out = n.out
  BY <1>3, FlagSound
<1>5. LeaseKept(down) /\ s \in FreeSockets(down)
  BY <1>3, <1>4, LeaseLater DEF Keeps, FreeSockets
<1>6. Sound(begun, told, a, e, h) /\ LeaseKept(begun)
  BY <1>4, <1>5, DhcpProcessSound
<1> HIDE DEF begun
<1>7. Sound(sent, told, a, e, h) /\ Keeps(begun, sent)
  BY <1>6, SignalSound
<1>8. LeaseKept(sent)
  BY <1>6, <1>7, LeaseLater
<1>9. Sound(again, told, a, e, h) /\ Keeps(down, again)
  BY <1>4, NetworkDownSound
<1>10. LeaseKept(again)
  BY <1>5, <1>9, LeaseLater
<1> HIDE DEF sent, again
<1> QED
  BY <1>1, <1>7, <1>8, <1>9, <1>10

-----------------------------------------------------------------------------
(* The steps of the IP task.                                               *)

LEMMA HandsAre ==
    /\ EventHands(NoEvent) = 0 /\ \A a : AppHands(a) \in {0, 1}
    /\ \A e : EventHands(e) = IF e.type \in {"rx", "tx"} THEN 1 ELSE 0
BY DEF EventHands, NoEvent, HasBuffer, AppHands

LEMMA HandleSound ==
    ASSUME NEW n, NEW told, NEW a, NEW e, NEW k \in Nat, Sound(n, told, a, e, EventHands(e) + k),
           a.id \in Nat, EventRight(e, n.out, a), LeaseKept(n),
           NEW c, e.type \in {"dhcp", "down"} => c.sock \in FreeSockets(n)
    PROVE  /\ Sound(Handle(n, e, c), IF e.type = "rx" THEN Told(n, told, e.frame) ELSE told,
                    a, NoEvent, k)
           /\ LeaseKept(Handle(n, e, c))
<1>1. Sound(n, told, a, NoEvent, EventHands(e) + k)
  BY DropSound
<1>2. e.type \in EventTypes
  BY DEF EventRight
<1>3. EventHands(e) = IF e.type \in {"rx", "tx"} THEN 1 ELSE 0
  BY HandsAre
<1>4. e.type \in {"rx", "tx"} => EventHands(e) + k = k + 1
  BY <1>3
<1>5. e.type \notin {"rx", "tx"} => EventHands(e) + k = k
  BY <1>3
<1>6. CASE e.type = "down"
  <2>1. Handle(n, e, c) = prvProcessNetworkDownEvent(n, c.initialised, c.sock)
    BY <1>6 DEF Handle
  <2>2. Sound(n, told, a, NoEvent, k) /\ c.sock \in FreeSockets(n)
    BY <1>1, <1>5, <1>6
  <2>3. /\ Sound(prvProcessNetworkDownEvent(n, c.initialised, c.sock), told, a, NoEvent, k)
        /\ LeaseKept(prvProcessNetworkDownEvent(n, c.initialised, c.sock))
    BY <2>2, DownEventSound
  <2> QED
    BY <1>6, <2>1, <2>3
<1>7. CASE e.type = "rx"
  <2>1. Handle(n, e, c) = prvProcessEthernetPacket(n, e.frame)
    BY <1>7 DEF Handle
  <2>2. Sound(n, told, a, NoEvent, k + 1) /\ FrameRight(e.frame, n.out, a)
    BY <1>1, <1>4, <1>7 DEF EventRight
  <2>3. /\ Sound(prvProcessEthernetPacket(n, e.frame), Told(n, told, e.frame), a, NoEvent, k)
        /\ Keeps(n, prvProcessEthernetPacket(n, e.frame))
    BY <2>2, EthernetSound
  <2> QED
    BY <1>7, <2>1, <2>3, LeaseLater
<1>8. CASE e.type = "tx"
  <2>1. Handle(n, e, c) = vProcessGeneratedUDPPacket(n, e.packet)
    BY <1>8 DEF Handle
  <2>2. Sound(n, told, a, NoEvent, k + 1) /\ Question(e.packet, a)
    BY <1>1, <1>4, <1>8 DEF EventRight
  <2>3. /\ Sound(vProcessGeneratedUDPPacket(n, e.packet), told, a, NoEvent, k)
        /\ Keeps(n, vProcessGeneratedUDPPacket(n, e.packet))
    BY <2>2, GeneratedSound
  <2> QED
    BY <1>8, <2>1, <2>3, LeaseLater
<1>9. CASE e.type = "arp"
  <2>1. Handle(n, e, c) = ArpTimerEvent(n, c.due)
    BY <1>9 DEF Handle
  <2>2. Sound(n, told, a, NoEvent, k)
    BY <1>1, <1>5, <1>9
  <2>3. /\ Sound(ArpTimerEvent(n, c.due), told, a, NoEvent, k)
        /\ Keeps(n, ArpTimerEvent(n, c.due))
    BY <2>2, ArpTimerSound
  <2> QED
    BY <1>9, <2>1, <2>3, LeaseLater
<1>10. CASE e.type = "bind"
  <2>1. Handle(n, e, c) = SocketBindEvent(n, e.sock)
    BY <1>10 DEF Handle
  <2>2. Sound(n, told, a, e, k)
    BY <1>5, <1>10
  <2>3. Sound(SocketBindEvent(n, e.sock), told, a, NoEvent, k) /\ Keeps(n, SocketBindEvent(n, e.sock))
    BY <1>10, <2>2, BindEventSound
  <2> QED
    BY <1>10, <2>1, <2>3, LeaseLater
<1>11. CASE e.type = "close"
  <2>1. Handle(n, e, c) = vSocketClose(n, e.sock)
    BY <1>11 DEF Handle
  <2>2. Sound(n, told, a, e, k)
    BY <1>5, <1>11
  <2>3. Sound(vSocketClose(n, e.sock), told, a, NoEvent, k) /\ Keeps(n, vSocketClose(n, e.sock))
    BY <1>11, <2>2, CloseEventSound
  <2> QED
    BY <1>11, <2>1, <2>3, LeaseLater
<1>12. CASE e.type = "dhcp"
  <2>1. Handle(n, e, c) = vDHCPProcess(n, FALSE, c.late, c.sock)
    BY <1>12 DEF Handle
  <2>2. Sound(n, told, a, NoEvent, k) /\ c.sock \in FreeSockets(n)
    BY <1>1, <1>5, <1>12
  <2>3. /\ Sound(vDHCPProcess(n, FALSE, c.late, c.sock), told, a, NoEvent, k)
        /\ LeaseKept(vDHCPProcess(n, FALSE, c.late, c.sock))
    BY <2>2, DhcpProcessSound
  <2> QED
    BY <1>12, <2>1, <2>3
<1> QED
  BY <1>2, <1>6, <1>7, <1>8, <1>9, <1>10, <1>11, <1>12 DEF EventTypes

\* The IP task at its loop has no event and no buffer in hand.
LEMMA AtLoop ==
    ASSUME StackRight, ipPc \in {"start", "loop"}
    PROVE  /\ event = NoEvent /\ Sound(net, heard, app, NoEvent, AppHands(app))
           /\ AppHands(app) \in Nat
<1>1. event = NoEvent
  BY DEF StackRight, InTurn
<1>2. EventHands(event) + AppHands(app) = AppHands(app) /\ AppHands(app) \in Nat
  BY <1>1, HandsAre
<1> QED
  BY <1>1, <1>2 DEF StackRight

LEMMA IpStartsKeeps ==
    ASSUME StackRight, IpStarts
    PROVE  StackRight'
<1> DEFINE down == FreeRTOS_NetworkDown(net)
           m == [down EXCEPT !.ready = TRUE]
<1>1. /\ net' = m /\ plan' = plan /\ event' = event /\ app' = app /\ heard' = heard
      /\ ipPc = "start" /\ ipPc' = "loop"
  BY DEF IpStarts
<1>2. event = NoEvent /\ Sound(net, heard, app, NoEvent, AppHands(app)) /\ AppHands(app) \in Nat
  BY <1>1, AtLoop
<1>3. Sound(down, heard, app, NoEvent, AppHands(app)) /\ Keeps(net, down)
  BY <1>2, NetworkDownSound
<1> HIDE DEF down
<1>4. DOMAIN down = NetFields
  BY <1>3 DEF Sound, Formed
<1>5. /\ Changes(down, m, Flags) /\ m.ip = down.ip /\ m.gateway = down.gateway
      /\ m.dns = down.dns
  BY <1>4 DEF Changes, NetFields, Flags
<1> HIDE DEF m
<1>6. Sound(m, heard, app, NoEvent, AppHands(app)) /\ m.dhcp = down.dhcp /\ m.out = down.out
  BY <1>3, <1>5, FlagSound
<1>7. Keeps(net, m)
  BY <1>3, <1>5, <1>6 DEF Keeps
<1>8. LeaseKept(m)
  BY <1>7, LeaseLater DEF StackRight
<1>9. EventHands(NoEvent) + AppHands(app) = AppHands(app)
  BY <1>2, HandsAre
<1>10. Sound(net', heard', app', event', EventHands(event') + AppHands(app'))
  BY <1>1, <1>2, <1>6, <1>9
<1> QED
  BY <1>1, <1>2, <1>8, <1>10 DEF StackRight, AppRight, PlanRight, InTurn

LEMMA IpLoopsKeeps ==
    ASSUME StackRight, NEW expired, IpLoops(expired)
    PROVE  StackRight'
<1> DEFINE h == AppHands(app)
           arp == IF "arp" \in expired THEN xSendEventToIPTask(net, "arp") ELSE net
           p == prvCheckNetworkTimers(net, expired)
           idle == RetryDown(p)
           took == [p EXCEPT !.evq = Tail(@)]
<1>1. /\ plan' = plan /\ app' = app /\ heard' = heard /\ ipPc = "loop"
  BY DEF IpLoops
<1>2. event = NoEvent /\ Sound(net, heard, app, NoEvent, h) /\ h \in Nat
  BY <1>1, AtLoop
<1>3. p = IF "dhcp" \in expired THEN xSendEventToIPTask(arp, "dhcp") ELSE arp
  BY DEF prvCheckNetworkTimers
<1>4. Sound(arp, heard, app, NoEvent, h) /\ Keeps(net, arp)
  <2>1. Keeps(net, net)
    BY DEF Keeps
  <2> QED
    BY <1>2, <2>1, SignalSound
<1> HIDE DEF arp, p
<1>5. Sound(p, heard, app, NoEvent, h) /\ Keeps(net, p)
  BY <1>3, <1>4, SignalSound, KeepsOn
<1>6. EventHands(NoEvent) + h = h
  BY <1>2, HandsAre
<1>7. CASE p.evq = <<>>
  <2>1. net' = idle /\ ipPc' = ipPc /\ event' = event
    BY <1>7 DEF IpLoops, p
  <2>2. Sound(idle, heard, app, NoEvent, h) /\ Keeps(net, idle)
    BY <1>5, RetryDownSound, KeepsOn
  <2> HIDE DEF idle
  <2>3. LeaseKept(idle)
    BY <2>2, LeaseLater DEF StackRight
  <2>4. Sound(net', heard', app', event', EventHands(event') + AppHands(app'))
    BY <1>1, <1>2, <1>6, <2>1, <2>2
  <2> QED
    BY <1>1, <1>2, <2>1, <2>3, <2>4 DEF StackRight, AppRight, PlanRight, InTurn
<1>8. CASE p.evq # <<>>
  <2>1. net' = took /\ ipPc' = "handle" /\ event' = Head(p.evq)
    BY <1>8 DEF IpLoops, p
  <2>2. DOMAIN p = NetFields
    BY <1>5 DEF Sound, Formed
  <2>3. Changes(p, took, {"evq"}) /\ took.evq = Tail(p.evq) /\ took.out = p.out
    BY <2>2 DEF Changes, NetFields
  <2> HIDE DEF took
  <2>4. /\ Sound(took, heard, app, Head(p.evq), EventHands(Head(p.evq)) + h)
        /\ EventRight(Head(p.evq), p.out, app) /\ Keeps(p, took)
    BY <1>5, <1>8, <2>3, TakenSound
  <2>5. LeaseKept(took)
    BY <1>5, <2>4, KeepsOn, LeaseLater DEF StackRight
  <2>6. Sound(net', heard', app', event', EventHands(event') + AppHands(app'))
    BY <1>1, <2>1, <2>4
  <2>7. InTurn(ipPc', event', net'.out, app')
    BY <1>1, <2>1, <2>3, <2>4 DEF InTurn
  <2> QED
    BY <1>1, <2>1, <2>5, <2>6, <2>7 DEF StackRight, AppRight, PlanRight
<1> QED
  BY <1>7, <1>8

LEMMA IpHandlesKeeps ==
    ASSUME StackRight, NEW c \in ChoicesNow, IpHandles(c)
    PROVE  StackRight'
<1> DEFINE h == AppHands(app)
           done == Handle(net, event, c)
           m == RetryDown(done)
           now == IF event.type = "rx" THEN Told(net, heard, event.frame) ELSE heard
<1>1. /\ plan' = plan /\ app' = app /\ net' = m /\ ipPc = "handle" /\ ipPc' = "loop"
      /\ event' = NoEvent
  BY DEF IpHandles
<1>2. heard' = now
  BY DEF IpHandles, Told
<1>3. /\ Sound(net, heard, app, event, EventHands(event) + h) /\ EventRight(event, net.out, app)
      /\ LeaseKept(net) /\ app.id \in Nat /\ h \in Nat
  BY <1>1, HandsAre DEF StackRight, InTurn, AppRight
<1>4. event.type \in {"dhcp", "down"} => c.sock \in FreeSockets(net)
  BY DEF ChoicesNow
<1>5. Sound(done, now, app, NoEvent, h) /\ LeaseKept(done)
  BY <1>3, <1>4, HandleSound
<1> HIDE DEF done, now
<1>6. Sound(m, now, app, NoEvent, h) /\ Keeps(done, m)
  BY <1>5, RetryDownSound
<1> HIDE DEF m
<1>7. LeaseKept(m)
  BY <1>5, <1>6, LeaseLater
<1>8. EventHands(NoEvent) + h = h
  BY <1>3, HandsAre
<1>9. Sound(net', heard', app', event', EventHands(event') + AppHands(app'))
  BY <1>1, <1>2, <1>6, <1>8
<1> QED
  BY <1>1, <1>7, <1>9 DEF StackRight, AppRight, PlanRight, InTurn

-----------------------------------------------------------------------------
(* The application: what its steps have in common.                         *)

LEMMA AppStep ==
    ASSUME StackRight, NotApp, Recalls(app', app), Keeps(net, net'),
           Sound(net', heard, app', event, EventHands(event) + AppHands(app')),
           AppRight(app'), PlanRight(plan, app')
    PROVE  StackRight'
<1>1. plan' = plan /\ ipPc' = ipPc /\ event' = event /\ heard' = heard
  BY DEF NotApp
<1>2. LeaseKept(net')
  BY LeaseLater DEF StackRight
<1>3. InTurn(ipPc, event, net'.out, app')
  BY InTurnLater DEF StackRight, Keeps
<1>4. PlanRight(plan', app') /\ InTurn(ipPc', event', net'.out, app')
      /\ Sound(net', heard', app', event', EventHands(event') + AppHands(app'))
  BY <1>1, <1>3
<1> QED
  BY <1>2, <1>4 DEF StackRight, LeaseKept, LeaseRight, Routed, Offered, AppRight

Moving == {"pc", "step", "sock", "then", "attempt"}

LEMMA MoveRight ==
    ASSUME NEW p, NEW a, AppRight(a), PlanRight(p, a),
           NEW b, Changes(a, b, Moving), b.pc \notin ReplySteps, b.step \in Nat \ {0},
           b.then \in {"idle", "buffer", "dnsBuffer"}, Looking(b) => Looking(a)
    PROVE  /\ AppRight(b) /\ PlanRight(p, b) /\ Recalls(b, a) /\ b.slot = a.slot
           /\ b.asks = a.asks /\ b.id = a.id /\ b.result = a.result
<1>1. DOMAIN a = AppFields
  BY DEF AppRight
<1>2. /\ DOMAIN b = AppFields /\ b.slot = a.slot /\ b.asks = a.asks /\ b.id = a.id
      /\ b.reply = a.reply /\ b.result = a.result
  BY <1>1 DEF Changes, AppFields, Moving
<1> QED
  BY <1>2 DEF AppRight, PlanRight, Recalls

LEMMA DoneIs ==
    ASSUME NEW a, DOMAIN a = AppFields, a.step \in Nat
    PROVE  /\ DOMAIN Done(a) = AppFields /\ Done(a).pc = "idle" /\ Done(a).step \in Nat \ {0}
           /\ Changes(a, Done(a), {"pc", "step"}) /\ Changes(a, Done(a), Moving)
           /\ Done(a).then = a.then /\ Done(a).sock = a.sock /\ Done(a).slot = a.slot
           /\ Done(a).asks = a.asks /\ Done(a).id = a.id /\ Done(a).result = a.result
           /\ ~Resolving(Done(a)) /\ AppHands(Done(a)) = 0
<1> DEFINE d == Done(a)
<1>1. /\ DOMAIN d = AppFields /\ d.pc = "idle" /\ d.step = a.step + 1
      /\ Changes(a, d, {"pc", "step"}) /\ Changes(a, d, Moving)
      /\ d.then = a.then /\ d.sock = a.sock /\ d.slot = a.slot
      /\ d.asks = a.asks /\ d.id = a.id /\ d.result = a.result
  BY DEF Done, Changes, AppFields, Moving
<1> HIDE DEF d
<1>2. d.step \in Nat \ {0}
  BY <1>1
<1>3. ~Resolving(d) /\ AppHands(d) = 0
  BY <1>1 DEF Resolving, AppHands, ReplySteps, InsertSteps
<1> QED
  BY <1>1, <1>2, <1>3 DEF d

\* From one place to another, neither of them about a bind or a lookup's socket.
LEMMA PlainAtTable ==
    ASSUME NEW n, NEW told, NEW a, NEW e, NEW h, Sound(n, told, a, e, h),
           NEW b, Recalls(b, a), b.slot = a.slot, ~Resolving(a), ~Resolving(b),
           a.pc # "bindWait", b.pc \notin {"bindPost", "bindWait"},
           b.pc \in {"recv", "wait"} => b.sock \in Mine(a),
           NEW m, Changes(n, m, {"names"}), NamesKept(m.names, b)
    PROVE  Sound(m, told, b, e, h) /\ Keeps(n, m)
<1>1. Mine(b) = Mine(a)
  BY DEF Mine
<1>2. Owned(n.socks, n.dhcp.sock, n.evq, b, e)
  BY <1>1 DEF Sound, Owned
<1>3. Binding(n.socks, n.evq, b, e)
  BY <1>1 DEF Sound, Binding
<1> QED
  BY <1>2, <1>3, TableSound

LEMMA PlainMove ==
    ASSUME NEW n, NEW told, NEW a, NEW e, NEW h, Sound(n, told, a, e, h),
           NEW b, Recalls(b, a), b.slot = a.slot, ~Resolving(a), ~Resolving(b),
           a.pc \notin {"bindWait", "dnsRead"}, b.pc \notin {"bindPost", "bindWait", "dnsRead"},
           b.pc \in {"recv", "wait"} => b.sock \in Mine(a),
           b.asks = a.asks, b.result = a.result
    PROVE  Sound(n, told, b, e, h)
<1>1. a.pc \notin TableSteps /\ b.pc \notin TableSteps
  BY DEF TableSteps, Resolving, ReplySteps
<1>2. Changes(n, n, {"names"}) /\ NamesKept(n.names, b)
  BY <1>1, NamesLater DEF Changes, Sound
<1> QED
  BY <1>2, PlainAtTable

DnsSteps == {"dnsBuffer", "dnsPost", "dnsRecv", "dnsWait", "dnsParse", "dnsNext"}

\* From one place to another within a lookup.
LEMMA DnsAtTable ==
    ASSUME NEW n, NEW told, NEW a, NEW e, NEW h, Sound(n, told, a, e, h),
           NEW b, Recalls(b, a), b.slot = a.slot, b.sock = a.sock,
           a.pc \in DnsSteps \cup ReplySteps, b.pc \in DnsSteps \cup ReplySteps \cup {"dnsClose"},
           NEW m, Changes(n, m, {"names"}), NamesKept(m.names, b)
    PROVE  Sound(m, told, b, e, h) /\ Keeps(n, m)
<1>1. Resolving(a) /\ Resolving(b)
  BY DEF Resolving, DnsSteps, ReplySteps, InsertSteps
<1>2. Mine(b) = Mine(a)
  BY <1>1 DEF Mine
<1>3. Owned(n.socks, n.dhcp.sock, n.evq, b, e)
  BY <1>1, <1>2 DEF Sound, Owned
<1>4. n.socks[a.sock].bound /\ n.socks[a.sock].port \in Private
  BY <1>1 DEF Sound, Binding, DnsSteps, ReplySteps, InsertSteps
<1>5. Binding(n.socks, n.evq, b, e)
  BY <1>1, <1>2, <1>4 DEF Sound, Binding, DnsSteps, ReplySteps, InsertSteps
<1> QED
  BY <1>3, <1>5, TableSound

LEMMA DnsMove ==
    ASSUME NEW n, NEW told, NEW a, NEW e, NEW h, Sound(n, told, a, e, h),
           NEW b, Recalls(b, a), b.slot = a.slot, b.sock = a.sock,
           a.pc \in DnsSteps, b.pc \in DnsSteps \cup {"dnsClose"},
           b.asks = a.asks, b.result = a.result
    PROVE  Sound(n, told, b, e, h)
<1>1. a.pc \notin TableSteps /\ b.pc \notin TableSteps
  BY DEF TableSteps, DnsSteps, InsertSteps
<1>2. Changes(n, n, {"names"}) /\ NamesKept(n.names, b)
  BY <1>1, NamesLater DEF Changes, Sound
<1> QED
  BY <1>2, DnsAtTable

\* The application in hand, as a state of the invariant.
LEMMA AppAt ==
    ASSUME StackRight
    PROVE  /\ Sound(net, heard, app, event, EventHands(event) + AppHands(app))
           /\ AppRight(app) /\ PlanRight(plan, app) /\ DOMAIN app = AppFields
           /\ app.step \in Nat \ {0} /\ app.then \in {"idle", "buffer", "dnsBuffer"}
           /\ EventHands(event) \in Nat /\ DOMAIN net = NetFields /\ Keeps(net, net)
BY HandsAre DEF StackRight, AppRight, Keeps, Sound, Formed

-----------------------------------------------------------------------------
(* Steps of the application that leave the stack alone.                    *)

\* The end of a call that comes to nothing.
LEMMA DoneKeeps ==
    ASSUME StackRight, NotApp, app' = Done(app), net' = net, ~Resolving(app),
           app.pc \notin {"bindWait", "post", "dnsRead"}
    PROVE  StackRight'
<1> DEFINE b == Done(app)
<1>1. /\ Sound(net, heard, app, event, EventHands(event) + AppHands(app))
      /\ AppRight(app) /\ PlanRight(plan, app) /\ DOMAIN app = AppFields
      /\ app.step \in Nat \ {0} /\ app.then \in {"idle", "buffer", "dnsBuffer"}
      /\ EventHands(event) \in Nat /\ Keeps(net, net)
  BY AppAt
<1>2. /\ b.pc = "idle" /\ b.step \in Nat \ {0} /\ Changes(app, b, Moving)
      /\ b.then = app.then /\ ~Resolving(b) /\ AppHands(b) = 0
  BY <1>1, DoneIs
<1>3. b.pc \notin ReplySteps /\ ~Looking(b)
  BY <1>2 DEF Looking, ReplySteps, InsertSteps
<1> HIDE DEF b
<1>4. AppRight(b) /\ PlanRight(plan, b) /\ Recalls(b, app) /\ b.slot = app.slot
      /\ b.asks = app.asks /\ b.result = app.result
  BY <1>1, <1>2, <1>3, MoveRight
<1>5. AppHands(app) = 0
  BY DEF AppHands, Resolving, ReplySteps, InsertSteps
<1>6. Sound(net, heard, b, event, EventHands(event) + AppHands(b))
  BY <1>1, <1>2, <1>4, <1>5, PlainMove
<1> QED
  BY <1>1, <1>4, <1>6, AppStep DEF b

LEMMA CallRefusedKeeps ==
    ASSUME StackRight, NEW op, CallRefused(op)
    PROVE  StackRight'
BY DoneKeeps DEF CallRefused, Calls, Resolving, ReplySteps, InsertSteps

\* From a call to a buffer, or to the packets of a socket.
LEMMA CallMoves ==
    ASSUME StackRight, NotApp, app.pc = "idle", net' = net, NEW b, app' = b,
           Changes(app, b, {"pc", "sock"}), b.pc \in {"buffer", "recv"},
           b.pc = "recv" => b.sock \in Mine(app)
    PROVE  StackRight'
<1>1. /\ Sound(net, heard, app, event, EventHands(event) + AppHands(app))
      /\ AppRight(app) /\ PlanRight(plan, app) /\ DOMAIN app = AppFields
      /\ app.step \in Nat \ {0} /\ app.then \in {"idle", "buffer", "dnsBuffer"}
      /\ EventHands(event) \in Nat /\ Keeps(net, net)
  BY AppAt
<1>2. Changes(app, b, Moving) /\ b.step = app.step /\ b.then = app.then
  BY <1>1 DEF Changes, Moving, AppFields
<1>3. /\ ~Resolving(app) /\ ~Resolving(b) /\ AppHands(app) = AppHands(b)
      /\ ~Looking(b) /\ b.pc \notin ReplySteps
  BY DEF Resolving, Looking, AppHands, ReplySteps, InsertSteps
<1>4. AppRight(b) /\ PlanRight(plan, b) /\ Recalls(b, app) /\ b.slot = app.slot
      /\ b.asks = app.asks /\ b.result = app.result
  BY <1>1, <1>2, <1>3, MoveRight
<1>5. Sound(net, heard, b, event, EventHands(event) + AppHands(b))
  BY <1>1, <1>3, <1>4, PlainMove
<1> QED
  BY <1>1, <1>4, <1>5, AppStep

LEMMA CallPingKeeps ==
    ASSUME StackRight, CallPing
    PROVE  StackRight'
<1> DEFINE b == [app EXCEPT !.pc = "buffer"]
<1>1. Changes(app, b, {"pc", "sock"}) /\ b.pc = "buffer"
  BY AppAt DEF Changes, AppFields
<1>2. app' = b /\ net' = net /\ NotApp /\ app.pc = "idle"
  BY DEF CallPing, Calls
<1> HIDE DEF b
<1> QED
  BY <1>1, <1>2, CallMoves

\* The socket of a call is the application's.
LEMMA CallSockMine ==
    ASSUME StackRight, NEW op, Calls(op), op \in {"socket", "bind", "send", "recv", "close"}
    PROVE  /\ Call.slot \in Slots
           /\ CallSock # NoSocket => CallSock \in Mine(app) /\ CallSock \in Sockets
<1>1. plan \in Plans /\ app.step \in Nat \ {0}
  BY DEF StackRight, PlanRight, AppRight
<1>2. app.step \in DOMAIN plan.calls /\ plan.calls[app.step].op = op
  BY <1>1, PlansAssumption DEF Calls
<1>3. Call.slot \in Slots
  BY <1>1, <1>2, PlansAssumption DEF Call
<1>4. CallSock # NoSocket => CallSock \in Mine(app)
  BY <1>3 DEF CallSock, Mine
<1> QED
  BY <1>3, <1>4 DEF StackRight, Sound, Owned

LEMMA CallRecvKeeps ==
    ASSUME StackRight, CallRecv
    PROVE  StackRight'
<1> DEFINE s == CallSock
           b == [app EXCEPT !.pc = "recv", !.sock = s]
<1>1. app' = b /\ net' = net /\ NotApp /\ app.pc = "idle" /\ Calls("recv") /\ s # NoSocket
  BY DEF CallRecv, Calls
<1>2. s \in Mine(app)
  BY <1>1, CallSockMine
<1> HIDE DEF s
<1>3. Changes(app, b, {"pc", "sock"}) /\ b.pc = "recv" /\ b.sock = s
  BY AppAt DEF Changes, AppFields
<1> HIDE DEF b
<1> QED
  BY <1>1, <1>2, <1>3, CallMoves

-----------------------------------------------------------------------------
(* Steps of the application that change the stack.                         *)

Plain == {"idle", "buffer", "post", "recv", "wait"}

LEMMA PlainKeeps ==
    ASSUME StackRight, NotApp, app.pc \in Plain, NEW b, app' = b,
           Changes(app, b, {"pc", "step"}), b.pc \in Plain, b.step \in Nat \ {0},
           b.pc \in {"recv", "wait"} => app.sock \in Mine(app),
           NEW m, net' = m, Keeps(net, m),
           Sound(m, heard, app, event, EventHands(event) + AppHands(b))
    PROVE  StackRight'
<1>1. /\ AppRight(app) /\ PlanRight(plan, app) /\ DOMAIN app = AppFields
      /\ app.then \in {"idle", "buffer", "dnsBuffer"}
  BY AppAt
<1>2. Changes(app, b, Moving) /\ b.then = app.then /\ b.sock = app.sock
  BY <1>1 DEF Changes, Moving, AppFields
<1>3. ~Resolving(app) /\ ~Resolving(b)
  BY DEF Resolving, Plain, ReplySteps, InsertSteps
<1>4. /\ b.pc \notin ReplySteps \cup {"bindPost", "bindWait", "dnsRead"} /\ ~Looking(b)
      /\ app.pc \notin {"bindWait", "dnsRead"}
  BY <1>3 DEF Plain, Looking, ReplySteps, InsertSteps
<1>5. AppRight(b) /\ PlanRight(plan, b) /\ Recalls(b, app) /\ b.slot = app.slot
      /\ b.asks = app.asks /\ b.result = app.result
  BY <1>1, <1>2, <1>3, <1>4, MoveRight
<1>6. Sound(m, heard, b, event, EventHands(event) + AppHands(b))
  BY <1>2, <1>3, <1>4, <1>5, PlainMove
<1> QED
  BY <1>5, <1>6, AppStep

LEMMA DnsKeeps ==
    ASSUME StackRight, NotApp, app.pc \in DnsSteps, NEW b, app' = b,
           Changes(app, b, {"pc", "attempt"}),
           b.pc \in (DnsSteps \ {"dnsParse"}) \cup {"dnsClose"},
           NEW m, net' = m, Keeps(net, m),
           Sound(m, heard, app, event, EventHands(event) + AppHands(b))
    PROVE  StackRight'
<1>1. /\ AppRight(app) /\ PlanRight(plan, app) /\ DOMAIN app = AppFields
      /\ app.then \in {"idle", "buffer", "dnsBuffer"} /\ app.step \in Nat \ {0}
  BY AppAt
<1>2. Changes(app, b, Moving) /\ b.then = app.then /\ b.sock = app.sock /\ b.step = app.step
  BY <1>1 DEF Changes, Moving, AppFields
<1>3. Looking(app) /\ b.pc \notin ReplySteps
  BY DEF Looking, Resolving, DnsSteps, ReplySteps, InsertSteps
<1>4. AppRight(b) /\ PlanRight(plan, b) /\ Recalls(b, app) /\ b.slot = app.slot
      /\ b.asks = app.asks /\ b.result = app.result
  BY <1>1, <1>2, <1>3, MoveRight
<1>5. Sound(m, heard, b, event, EventHands(event) + AppHands(b))
  BY <1>2, <1>4, DnsMove
<1> QED
  BY <1>4, <1>5, AppStep

LEMMA NextAttemptKeeps ==
    ASSUME StackRight, NextAttempt
    PROVE  StackRight'
<1> DEFINE b == [app EXCEPT !.attempt = @ + 1,
                            !.pc = IF app.attempt + 1 < DnsAttempts THEN "dnsBuffer" ELSE "dnsClose"]
<1>1. app' = b /\ net' = net /\ NotApp /\ app.pc = "dnsNext"
  BY DEF NextAttempt
<1>2. /\ Sound(net, heard, app, event, EventHands(event) + AppHands(app))
      /\ DOMAIN app = AppFields /\ Keeps(net, net)
  BY AppAt
<1>3. Changes(app, b, {"pc", "attempt"}) /\ b.pc \in {"dnsBuffer", "dnsClose"}
  BY <1>2 DEF Changes, AppFields
<1> HIDE DEF b
<1>4. AppHands(app) = AppHands(b)
  BY <1>1, <1>3 DEF AppHands, ReplySteps, InsertSteps
<1>5. app.pc \in DnsSteps /\ b.pc \in (DnsSteps \ {"dnsParse"}) \cup {"dnsClose"}
  BY <1>1, <1>3 DEF DnsSteps
<1>6. Sound(net, heard, app, event, EventHands(event) + AppHands(b))
  BY <1>2, <1>4
<1> QED
  BY <1>1, <1>2, <1>3, <1>5, <1>6, DnsKeeps

\* A socket of the application is told the port it will be bound to.
LEMMA BindsKeeps ==
    ASSUME StackRight, NotApp, app.pc = "idle", NEW s \in Sockets, s \in Mine(app),
           ~net.socks[s].bound, NEW port, NEW then \in {"idle", "buffer"},
           Binds(app, s, port, then)
    PROVE  StackRight'
<1> DEFINE m == [net EXCEPT !.socks[s].local = port]
           b == [app EXCEPT !.pc = "bindPost", !.sock = s, !.then = then]
           h == EventHands(event) + AppHands(app)
<1>1. net' = m /\ app' = b
  BY DEF Binds
<1>2. /\ Sound(net, heard, app, event, h) /\ AppRight(app) /\ PlanRight(plan, app)
      /\ DOMAIN app = AppFields /\ app.step \in Nat \ {0} /\ DOMAIN net = NetFields
  BY AppAt
<1>3. /\ Changes(app, b, Moving) /\ b.pc = "bindPost" /\ b.sock = s /\ b.then = then
      /\ b.step = app.step /\ b.slot = app.slot
  BY <1>2 DEF Changes, Moving, AppFields
<1> HIDE DEF b
<1>4. /\ ~Resolving(b) /\ ~Resolving(app) /\ AppHands(b) = AppHands(app)
      /\ ~Looking(b) /\ b.pc \notin ReplySteps
      /\ app.pc \notin TableSteps /\ b.pc \notin TableSteps
  BY <1>3 DEF Resolving, Looking, AppHands, ReplySteps, InsertSteps, TableSteps
<1>5. /\ AppRight(b) /\ PlanRight(plan, b) /\ Recalls(b, app)
      /\ b.asks = app.asks /\ b.result = app.result
  BY <1>2, <1>3, <1>4, MoveRight
<1>6. Mine(b) = Mine(app)
  BY <1>3, <1>4 DEF Mine
<1>7. Owned(net.socks, net.dhcp.sock, net.evq, b, event)
  BY <1>2, <1>3, <1>4, <1>6 DEF Sound, Owned
<1>8. /\ \A x \in Elems(net.evq) \cup {event} : x.type # "bind"
      /\ \A t \in Sockets : "BOUND" \notin net.socks[t].bits
  BY <1>2 DEF Sound, Binding
<1>9. Binding(net.socks, net.evq, b, event)
  BY <1>3, <1>4, <1>6, <1>8 DEF Binding
<1> HIDE DEF h
<1>10. Sound(net, heard, b, event, h)
  BY <1>2, <1>4, <1>5, <1>7, <1>9, AppSound
<1>11. DOMAIN net.socks = Sockets /\ DOMAIN net.socks[s] = SockFields /\ net.socks[s].used
  BY <1>2 DEF Sound, Formed, Owned
<1>12. /\ Changes(net, m, {"socks"}) /\ DOMAIN m.socks = Sockets
       /\ \A t \in Sockets \ {s} : m.socks[t] = net.socks[t]
       /\ m.socks[s] = [net.socks[s] EXCEPT !.local = port]
  BY <1>2, <1>11 DEF Changes, NetFields
<1> HIDE DEF m
<1>13. /\ Changes(net.socks[s], m.socks[s], {"bits", "local"})
       /\ m.socks[s].bits = net.socks[s].bits /\ m.socks[s].bound = net.socks[s].bound
  BY <1>11, <1>12 DEF Changes, SockFields
<1>14. Binding(m.socks, net.evq, b, event)
  BY <1>3, <1>4, <1>6, <1>8, <1>12, <1>13 DEF Binding
<1>15. Sound(m, heard, b, event, h) /\ Keeps(net, m)
  BY <1>10, <1>11, <1>12, <1>13, <1>14, BitsSound
<1> QED
  BY <1>1, <1>4, <1>5, <1>15, AppStep DEF h

LEMMA CallBindKeeps ==
    ASSUME StackRight, CallBind
    PROVE  StackRight'
<1>1. Calls("bind") /\ CallSock # NoSocket /\ NotApp /\ app.pc = "idle"
  BY DEF CallBind, Calls
<1>2. CallSock \in Mine(app) /\ CallSock \in Sockets
  BY <1>1, CallSockMine
<1>3. CASE net.socks[CallSock].bound
  <2>1. app' = Done(app) /\ net' = net
    BY <1>3 DEF CallBind
  <2> QED
    BY <1>1, <2>1, DoneKeeps DEF Resolving, ReplySteps, InsertSteps
<1>4. CASE ~net.socks[CallSock].bound
  <2>1. Binds(app, CallSock, Call.port, "idle")
    BY <1>4 DEF CallBind
  <2> QED
    BY <1>1, <1>2, <1>4, <2>1, BindsKeeps
<1> QED
  BY <1>3, <1>4

LEMMA CallSendKeeps ==
    ASSUME StackRight, CallSend
    PROVE  StackRight'
<1> DEFINE s == CallSock
           b == [app EXCEPT !.pc = "buffer", !.sock = s]
<1>1. Calls("send") /\ s # NoSocket /\ NotApp /\ app.pc = "idle"
  BY DEF CallSend, Calls
<1>2. s \in Mine(app) /\ s \in Sockets
  BY <1>1, CallSockMine
<1>3. CASE net.socks[s].bound
  <2>1. app' = b /\ net' = net
    BY <1>3 DEF CallSend
  <2>2. Changes(app, b, {"pc", "sock"}) /\ b.pc = "buffer"
    BY AppAt DEF Changes, AppFields
  <2> HIDE DEF b
  <2> QED
    BY <1>1, <2>1, <2>2, CallMoves
<1>4. CASE ~net.socks[s].bound
  <2>1. Binds(app, s, NoPort, "buffer")
    BY <1>4 DEF CallSend
  <2> QED
    BY <1>1, <1>2, <1>4, <2>1, BindsKeeps
<1> QED
  BY <1>3, <1>4

LEMMA TakesBufferKeeps ==
    ASSUME StackRight, TakesBuffer
    PROVE  StackRight'
<1> DEFINE m == [net EXCEPT !.free = @ - 1]
           b == [app EXCEPT !.pc = IF @ = "buffer" THEN "post" ELSE "dnsPost"]
           none == [app EXCEPT !.pc = "dnsNext"]
<1>1. app.pc \in {"buffer", "dnsBuffer"} /\ NotApp
  BY DEF TakesBuffer
<1>2. /\ Sound(net, heard, app, event, EventHands(event) + AppHands(app))
      /\ DOMAIN app = AppFields /\ Keeps(net, net) /\ DOMAIN net = NetFields
      /\ EventHands(event) \in Nat /\ app.step \in Nat \ {0}
  BY AppAt
<1>3. AppHands(app) = 0 /\ net.free \in Nat
  BY <1>1, <1>2 DEF AppHands, Sound, Formed, ReplySteps, InsertSteps
<1>4. CASE net.free > 0
  <2>1. net' = m /\ app' = b
    BY <1>4 DEF TakesBuffer
  <2>2. /\ Changes(net, m, Flags \cup {"free"}) /\ m.free = net.free - 1 /\ Keeps(net, m)
    BY <1>2 DEF Changes, NetFields, Flags, Keeps
  <2> HIDE DEF m
  <2>3. /\ Changes(app, b, {"pc"}) /\ b.step = app.step
        /\ b.pc = IF app.pc = "buffer" THEN "post" ELSE "dnsPost"
    BY <1>2 DEF Changes, AppFields
  <2> HIDE DEF b
  <2>4. AppHands(b) = 1
    BY <2>3 DEF AppHands, ReplySteps, InsertSteps
  <2>5. /\ EventHands(event) + AppHands(b) \in Nat /\ m.free \in Nat
        /\ m.free + (EventHands(event) + AppHands(b)) = net.free + (EventHands(event) + AppHands(app))
    BY <1>2, <1>3, <1>4, <2>2, <2>4
  <2>6. Sound(m, heard, app, event, EventHands(event) + AppHands(b))
    BY <1>2, <2>2, <2>5, BufferSound
  <2>7. Changes(app, b, {"pc", "step"}) /\ Changes(app, b, {"pc", "attempt"})
    BY <2>3 DEF Changes
  <2>8. CASE app.pc = "buffer"
    <3>1. app.pc \in Plain /\ b.pc \in Plain /\ b.pc \notin {"recv", "wait"}
      BY <2>3, <2>8 DEF Plain
    <3> QED
      BY <1>1, <1>2, <2>1, <2>2, <2>3, <2>6, <2>7, <3>1, PlainKeeps
  <2>9. CASE app.pc = "dnsBuffer"
    <3>1. app.pc \in DnsSteps /\ b.pc \in (DnsSteps \ {"dnsParse"}) \cup {"dnsClose"}
      BY <2>3, <2>9 DEF DnsSteps
    <3> QED
      BY <1>1, <2>1, <2>2, <2>6, <2>7, <3>1, DnsKeeps
  <2> QED
    BY <1>1, <2>8, <2>9
<1>5. CASE ~(net.free > 0)
  <2>1. net' = net
    BY <1>5 DEF TakesBuffer
  <2>2. CASE app.pc = "buffer"
    <3>1. app' = Done(app)
      BY <1>5, <2>2 DEF TakesBuffer
    <3> QED
      BY <1>1, <2>1, <2>2, <3>1, DoneKeeps DEF Resolving, ReplySteps, InsertSteps
  <2>3. CASE app.pc = "dnsBuffer"
    <3>1. app' = none
      BY <1>5, <2>3 DEF TakesBuffer
    <3>2. Changes(app, none, {"pc", "attempt"}) /\ none.pc = "dnsNext"
      BY <1>2 DEF Changes, AppFields
    <3> HIDE DEF none
    <3>3. AppHands(none) = AppHands(app) /\ app.pc \in DnsSteps
          /\ none.pc \in (DnsSteps \ {"dnsParse"}) \cup {"dnsClose"}
      BY <1>3, <2>3, <3>2 DEF AppHands, DnsSteps, ReplySteps, InsertSteps
    <3>4. Sound(net, heard, app, event, EventHands(event) + AppHands(none))
      BY <1>2, <3>3
    <3> QED
      BY <1>1, <1>2, <2>1, <3>1, <3>2, <3>3, <3>4, DnsKeeps
  <2> QED
    BY <1>1, <2>2, <2>3
<1> QED
  BY <1>4, <1>5

\* Only a question's answer comes to a private port.
LEMMA ToPrivate ==
    ASSUME NEW f, NEW out, NEW a, FrameRight(f, out, a), f.type = "udp", f.dport \in Private
    PROVE  Answer(f.body, a)
<1>1. DhcpPort \notin Private /\ UserPort \notin Private /\ UserPort + 1 \notin Private
  BY StackAssumption, IpAssumption DEF Private
<1> QED
  BY <1>1 DEF FrameRight

\* The socket the application is at.
LEMMA AtSocket ==
    ASSUME StackRight, Resolving(app) \/ app.pc \in {"bindPost", "bindWait", "recv", "wait"}
    PROVE  app.sock \in Mine(app) /\ app.sock \in Sockets /\ net.socks[app.sock].used
<1>1. app.sock \in Mine(app)
  BY DEF StackRight, Sound, Binding, Mine
<1> QED
  BY <1>1 DEF StackRight, Sound, Owned

LEMMA PacketAsks ==
    ASSUME StackRight, app.pc \in {"post", "dnsPost"}
    PROVE  Question(AppPacket, app)
<1>1. AppRight(app) /\ PlanRight(plan, app)
  BY AppAt
<1>2. CASE app.pc = "dnsPost"
  <2> DEFINE body == [id |-> app.id, name |-> app.asks]
             sport == net.socks[app.sock].port
  <2>1. AppPacket = [type |-> "udp", dip |-> net.dns, sport |-> sport, dport |-> DnsPort,
                     body |-> body]
    BY <1>2 DEF AppPacket
  <2>2. Resolving(app)
    BY <1>2 DEF Resolving, ReplySteps, InsertSteps
  <2>3. sport \in Private
    BY <1>2, <2>2 DEF StackRight, Sound, Binding
  <2>4. Asked(body, app)
    BY <1>1, <2>2 DEF Asked, AppRight, PlanRight, Looking
  <2> HIDE DEF body, sport
  <2> QED
    BY <2>1, <2>3, <2>4, StackAssumption DEF Question, ServerPort
<1>3. CASE app.pc = "post" /\ Call.op = "ping"
  <2>1. AppPacket.type = "icmp"
    BY <1>3 DEF AppPacket
  <2> QED
    BY <2>1 DEF Question
<1>4. CASE app.pc = "post" /\ Call.op # "ping"
  <2>1. AppPacket.dport = UserPort
    BY <1>4 DEF AppPacket
  <2>2. UserPort # DnsPort /\ UserPort # ServerPort
    BY IpAssumption
  <2> QED
    BY <2>1, <2>2 DEF Question
<1> QED
  BY <1>2, <1>3, <1>4

LEMMA PostsKeeps ==
    ASSUME StackRight, Posts
    PROVE  StackRight'
<1> DEFINE x == [type |-> "tx", packet |-> AppPacket]
           m == IF CanPost(net, x) THEN Sent(net, x) ELSE Release(net)
           done == Done(app)
           next == [app EXCEPT !.pc = IF CanPost(net, x) THEN "dnsRecv" ELSE "dnsNext"]
           k == EventHands(event)
<1>1. /\ app.pc \in {"post", "dnsPost"} /\ NotApp
      /\ app' = IF app.pc = "post" THEN done ELSE next
  BY DEF Posts
<1>2. net' = m
  BY DEF Posts, xSendEventStructToIPTask, Sent
<1>3. /\ Sound(net, heard, app, event, k + AppHands(app))
      /\ DOMAIN app = AppFields /\ DOMAIN net = NetFields
      /\ k \in Nat /\ app.step \in Nat \ {0}
  BY AppAt
<1>4. AppHands(app) = 1 /\ net.free \in Nat
  BY <1>1, <1>3 DEF AppHands, Sound, Formed, ReplySteps, InsertSteps
<1>5. /\ EventRight(x, net.out, app) /\ PendingFits(net, app, event, x) /\ EventHands(x) = 1
  BY <1>1, PacketAsks DEF EventRight, EventTypes, PendingFits, Pending, EventHands, HasBuffer
<1> HIDE DEF x, k
<1>6. Sound(Sent(net, x), heard, app, event, k) /\ Keeps(net, Sent(net, x))
  <2> DEFINE s == Sent(net, x)
  <2>1. /\ Changes(net, s, {"evq"}) /\ s.evq = Append(net.evq, x) /\ s.free = net.free
        /\ Keeps(net, s)
    BY <1>3, SentIs
  <2> HIDE DEF s
  <2>2. Changes(net, s, Flags \cup {"evq", "free"})
    BY <2>1 DEF Changes
  <2>3. s.free \in Nat /\ s.free + k + EventHands(x) = net.free + (k + AppHands(app))
    BY <1>3, <1>4, <1>5, <2>1
  <2>4. Sound(s, heard, app, event, k)
    BY <1>3, <1>5, <2>1, <2>2, <2>3, PostedSound
  <2> QED
    BY <2>1, <2>4 DEF s
<1>7. Sound(Release(net), heard, app, event, k) /\ Keeps(net, Release(net))
  <2>1. k + AppHands(app) = k + 1
    BY <1>4
  <2> QED
    BY <1>3, <2>1, ReleaseSound
<1>8. Sound(m, heard, app, event, k) /\ Keeps(net, m)
  BY <1>6, <1>7
<1>9. CASE app.pc = "post"
  <2>1. /\ done.pc = "idle" /\ done.step \in Nat \ {0} /\ Changes(app, done, {"pc", "step"})
        /\ AppHands(done) = 0
    BY <1>3, DoneIs
  <2> HIDE DEF done, m
  <2>2. k + AppHands(done) = k
    BY <1>3, <2>1
  <2>3. app.pc \in Plain /\ done.pc \in Plain /\ done.pc \notin {"recv", "wait"}
    BY <1>9, <2>1 DEF Plain
  <2>4. Sound(m, heard, app, event, EventHands(event) + AppHands(done))
    BY <1>8, <2>2 DEF k
  <2> QED
    BY <1>1, <1>2, <1>8, <1>9, <2>1, <2>3, <2>4, PlainKeeps
<1>10. CASE app.pc = "dnsPost"
  <2>1. Changes(app, next, {"pc", "attempt"}) /\ next.pc \in {"dnsRecv", "dnsNext"}
    BY <1>3 DEF Changes, AppFields
  <2> HIDE DEF next, m
  <2>2. AppHands(next) = 0
    BY <2>1 DEF AppHands, ReplySteps, InsertSteps
  <2>3. k + AppHands(next) = k
    BY <1>3, <2>2
  <2>4. app.pc \in DnsSteps /\ next.pc \in (DnsSteps \ {"dnsParse"}) \cup {"dnsClose"}
    BY <1>10, <2>1 DEF DnsSteps
  <2>5. Sound(m, heard, app, event, EventHands(event) + AppHands(next)) /\ app' = next
    BY <1>1, <1>8, <1>10, <2>3 DEF k
  <2> QED
    BY <1>1, <1>2, <1>8, <2>1, <2>4, <2>5, DnsKeeps
<1> QED
  BY <1>1, <1>9, <1>10

LEMMA ReceivesKeeps ==
    ASSUME StackRight, Receives
    PROVE  StackRight'
<1> DEFINE s == app.sock
           rx == net.socks[s].rx
           k == EventHands(event)
           waits == [app EXCEPT !.pc = IF @ = "recv" THEN "wait" ELSE "dnsWait"]
           t == TakePacket(net, s)
           r == Release(t)
           done == Done(app)
           read == [app EXCEPT !.pc = "dnsParse", !.reply = Head(rx).body]
<1>1. app.pc \in {"recv", "dnsRecv"} /\ NotApp
  BY DEF Receives
<1>2. /\ Sound(net, heard, app, event, k + AppHands(app))
      /\ DOMAIN app = AppFields /\ DOMAIN net = NetFields /\ Keeps(net, net)
      /\ k \in Nat /\ app.step \in Nat \ {0} /\ AppRight(app) /\ PlanRight(plan, app)
  BY AppAt
<1>3. AppHands(app) = 0
  BY <1>1 DEF AppHands, ReplySteps, InsertSteps
<1>4. Resolving(app) <=> app.pc = "dnsRecv"
  BY <1>1 DEF Resolving, ReplySteps, InsertSteps
<1>5. s \in Mine(app) /\ s \in Sockets /\ net.socks[s].used
  BY <1>1, <1>4, AtSocket
<1> HIDE DEF k
<1>6. CASE rx = <<>>
  <2>1. net' = net /\ app' = waits
    BY <1>6 DEF Receives
  <2>2. /\ Changes(app, waits, {"pc"}) /\ waits.step = app.step
        /\ waits.pc = IF app.pc = "recv" THEN "wait" ELSE "dnsWait"
    BY <1>2 DEF Changes, AppFields
  <2> HIDE DEF waits
  <2>3. AppHands(waits) = AppHands(app)
    BY <1>3, <2>2 DEF AppHands, ReplySteps, InsertSteps
  <2>4. Changes(app, waits, {"pc", "step"}) /\ Changes(app, waits, {"pc", "attempt"})
    BY <2>2 DEF Changes
  <2>5. Sound(net, heard, app, event, EventHands(event) + AppHands(waits))
    BY <1>2, <2>3 DEF k
  <2>6. CASE app.pc = "recv"
    <3>1. app.pc \in Plain /\ waits.pc \in Plain
      BY <2>2, <2>6 DEF Plain
    <3> QED
      BY <1>1, <1>2, <1>5, <2>1, <2>2, <2>4, <2>5, <3>1, PlainKeeps
  <2>7. CASE app.pc = "dnsRecv"
    <3>1. app.pc \in DnsSteps /\ waits.pc \in (DnsSteps \ {"dnsParse"}) \cup {"dnsClose"}
      BY <2>2, <2>7 DEF DnsSteps
    <3> QED
      BY <1>1, <1>2, <2>1, <2>4, <2>5, <3>1, DnsKeeps
  <2> QED
    BY <1>1, <2>6, <2>7
<1>7. CASE rx # <<>>
  <2>1. /\ Sound(t, heard, app, event, (k + AppHands(app)) + 1) /\ Keeps(net, t)
        /\ Head(rx).type = "udp" /\ FrameRight(Head(rx), net.out, app)
        /\ net.socks[s].bound /\ Head(rx).dport = net.socks[s].port
    BY <1>2, <1>5, <1>7, TakePacketSound
  <2>2. (k + AppHands(app)) + 1 = k + 1
    BY <1>2, <1>3
  <2>3. CASE app.pc = "recv"
    <3>1. net' = r /\ app' = done
      BY <1>7, <2>3 DEF Receives
    <3> HIDE DEF t
    <3>2. Sound(r, heard, app, event, k) /\ Keeps(t, r)
      BY <1>2, <2>1, <2>2, ReleaseSound
    <3> HIDE DEF r
    <3>3. /\ done.pc = "idle" /\ done.step \in Nat \ {0} /\ Changes(app, done, {"pc", "step"})
          /\ AppHands(done) = 0
      BY <1>2, DoneIs
    <3> HIDE DEF done
    <3>4. k + AppHands(done) = k
      BY <1>2, <3>3
    <3>5. app.pc \in Plain /\ done.pc \in Plain /\ done.pc \notin {"recv", "wait"}
      BY <2>3, <3>3 DEF Plain
    <3>6. Sound(r, heard, app, event, EventHands(event) + AppHands(done)) /\ Keeps(net, r)
      BY <2>1, <3>2, <3>4, KeepsOn DEF k
    <3> QED
      BY <1>1, <3>1, <3>3, <3>5, <3>6, PlainKeeps
  <2>4. CASE app.pc = "dnsRecv"
    <3>1. net' = t /\ app' = read
      BY <1>7, <2>4 DEF Receives
    <3>2. net.socks[s].port \in Private
      BY <1>2, <1>4, <2>1, <2>4 DEF Sound, Binding
    <3>3. Answer(Head(rx).body, app)
      BY <2>1, <3>2, ToPrivate
    <3>4. /\ DOMAIN read = AppFields /\ read.pc = "dnsParse" /\ read.reply = Head(rx).body
          /\ read.slot = app.slot /\ read.sock = s /\ read.id = app.id /\ read.asks = app.asks
          /\ read.step = app.step /\ read.then = app.then /\ read.result = app.result
      BY <1>2 DEF AppFields
    <3> HIDE DEF read, t, rx
    <3>5. AppRight(read) /\ PlanRight(plan, read) /\ Recalls(read, app)
      BY <1>2, <1>4, <2>4, <3>3, <3>4 DEF AppRight, PlanRight, Looking, Recalls, Answer, Asked,
                                           ReplySteps, InsertSteps
    <3>6. EventHands(event) + AppHands(read) = k + 1
      BY <3>4 DEF AppHands, k, ReplySteps, InsertSteps
    <3>7. app.pc \in DnsSteps /\ read.pc \in DnsSteps \cup {"dnsClose"}
      BY <2>4, <3>4 DEF DnsSteps
    <3>8. Sound(t, heard, read, event, k + 1)
      BY <2>1, <2>2, <3>4, <3>5, <3>7, DnsMove
    <3> QED
      BY <1>1, <2>1, <3>1, <3>5, <3>6, <3>8, AppStep
  <2> QED
    BY <1>1, <2>3, <2>4
<1> QED
  BY <1>6, <1>7

LEMMA RecvWakesKeeps ==
    ASSUME StackRight, NEW bit, RecvWakes(bit)
    PROVE  StackRight'
<1> DEFINE s == app.sock
           k == EventHands(event)
           m == [net EXCEPT !.socks[s].bits = @ \ {"RECEIVE"}]
           more == bit \/ net.socks[s].rx # <<>>
           again == [app EXCEPT !.pc = IF @ = "wait" THEN "recv" ELSE "dnsRecv"]
           done == Done(app)
           next == [app EXCEPT !.pc = "dnsNext"]
<1>1. /\ app.pc \in {"wait", "dnsWait"} /\ NotApp /\ net' = m
      /\ app' = IF more THEN again ELSE IF app.pc = "wait" THEN done ELSE next
  BY DEF RecvWakes
<1>2. /\ Sound(net, heard, app, event, k + AppHands(app))
      /\ DOMAIN app = AppFields /\ DOMAIN net = NetFields
      /\ k \in Nat /\ app.step \in Nat \ {0}
  BY AppAt
<1>3. AppHands(app) = 0 /\ (Resolving(app) <=> app.pc = "dnsWait")
  BY <1>1 DEF AppHands, Resolving, ReplySteps, InsertSteps
<1>4. s \in Mine(app) /\ s \in Sockets /\ net.socks[s].used
  BY <1>1, <1>3, AtSocket
<1> HIDE DEF k, s, more
<1>5. DOMAIN net.socks = Sockets /\ DOMAIN net.socks[s] = SockFields
  BY <1>2, <1>4 DEF Sound, Formed
<1>6. /\ Changes(net, m, {"socks"}) /\ DOMAIN m.socks = Sockets
      /\ \A t \in Sockets \ {s} : m.socks[t] = net.socks[t]
      /\ m.socks[s] = [net.socks[s] EXCEPT !.bits = @ \ {"RECEIVE"}]
  BY <1>2, <1>4, <1>5 DEF Changes, NetFields
<1> HIDE DEF m
<1>7. /\ Changes(net.socks[s], m.socks[s], {"bits", "local"})
      /\ m.socks[s].bits \subseteq net.socks[s].bits
      /\ m.socks[s].bound = net.socks[s].bound /\ m.socks[s].port = net.socks[s].port
      /\ m.socks[s].local = net.socks[s].local
  BY <1>5, <1>6 DEF Changes, SockFields
<1>8. Binding(m.socks, net.evq, app, event)
  <2>1. Binding(net.socks, net.evq, app, event) /\ Mine(app) \subseteq Sockets
    BY <1>2 DEF Sound, Owned
  <2>2. \A t \in Sockets : /\ m.socks[t].bits \subseteq net.socks[t].bits
                           /\ m.socks[t].bound = net.socks[t].bound
                           /\ m.socks[t].port = net.socks[t].port
                           /\ m.socks[t].local = net.socks[t].local
    BY <1>6, <1>7
  <2>3. app.sock \in Sockets
    BY <1>4 DEF s
  <2> QED
    BY <2>1, <2>2, <2>3 DEF Binding
<1>9. Sound(m, heard, app, event, k + AppHands(app)) /\ Keeps(net, m)
  BY <1>2, <1>4, <1>6, <1>7, <1>8, BitsSound
<1>10. CASE more
  <2>1. app' = again
    BY <1>1, <1>10
  <2>2. /\ Changes(app, again, {"pc"}) /\ again.step = app.step
        /\ again.pc = IF app.pc = "wait" THEN "recv" ELSE "dnsRecv"
    BY <1>2 DEF Changes, AppFields
  <2> HIDE DEF again
  <2>3. AppHands(again) = AppHands(app)
    BY <1>3, <2>2 DEF AppHands, ReplySteps, InsertSteps
  <2>4. Changes(app, again, {"pc", "step"}) /\ Changes(app, again, {"pc", "attempt"})
    BY <2>2 DEF Changes
  <2>5. Sound(m, heard, app, event, EventHands(event) + AppHands(again))
    BY <1>9, <2>3 DEF k
  <2>6. CASE app.pc = "wait"
    <3>1. app.pc \in Plain /\ again.pc \in Plain /\ app.sock \in Mine(app)
      BY <1>4, <2>2, <2>6 DEF Plain, s
    <3> QED
      BY <1>1, <1>2, <1>9, <2>1, <2>2, <2>4, <2>5, <3>1, PlainKeeps
  <2>7. CASE app.pc = "dnsWait"
    <3>1. app.pc \in DnsSteps /\ again.pc \in (DnsSteps \ {"dnsParse"}) \cup {"dnsClose"}
      BY <2>2, <2>7 DEF DnsSteps
    <3> QED
      BY <1>1, <1>9, <2>1, <2>4, <2>5, <3>1, DnsKeeps
  <2> QED
    BY <1>1, <2>6, <2>7
<1>11. CASE ~more /\ app.pc = "wait"
  <2>1. app' = done
    BY <1>1, <1>11
  <2>2. /\ done.pc = "idle" /\ done.step \in Nat \ {0} /\ Changes(app, done, {"pc", "step"})
        /\ AppHands(done) = 0
    BY <1>2, DoneIs
  <2> HIDE DEF done
  <2>3. app.pc \in Plain /\ done.pc \in Plain /\ done.pc \notin {"recv", "wait"}
    BY <1>11, <2>2 DEF Plain
  <2>4. Sound(m, heard, app, event, EventHands(event) + AppHands(done))
    BY <1>3, <1>9, <2>2 DEF k
  <2> QED
    BY <1>1, <1>9, <2>1, <2>2, <2>3, <2>4, PlainKeeps
<1>12. CASE ~more /\ app.pc = "dnsWait"
  <2>1. app' = next
    BY <1>1, <1>12
  <2>2. Changes(app, next, {"pc", "attempt"}) /\ next.pc = "dnsNext"
    BY <1>2 DEF Changes, AppFields
  <2> HIDE DEF next
  <2>3. AppHands(next) = 0 /\ app.pc \in DnsSteps
        /\ next.pc \in (DnsSteps \ {"dnsParse"}) \cup {"dnsClose"}
    BY <1>12, <2>2 DEF AppHands, DnsSteps, ReplySteps, InsertSteps
  <2>4. Sound(m, heard, app, event, EventHands(event) + AppHands(next))
    BY <1>3, <1>9, <2>3 DEF k
  <2> QED
    BY <1>1, <1>9, <2>1, <2>2, <2>3, <2>4, DnsKeeps
<1> QED
  BY <1>1, <1>10, <1>11, <1>12

\* The application waits for the bind it has asked for.
LEMMA BindPostsKeeps ==
    ASSUME StackRight, BindPosts
    PROVE  StackRight'
<1> DEFINE s == app.sock
           h == EventHands(event) + AppHands(app)
           x == [type |-> "bind", sock |-> s]
           m == Sent(net, x)
           b == [app EXCEPT !.pc = "bindWait"]
<1>1. /\ app.pc = "bindPost" /\ NotApp /\ app' = b
  BY DEF BindPosts
<1>2. net' = m
  BY DEF BindPosts, xSendEventStructToIPTask, Sent
<1>3. /\ Sound(net, heard, app, event, h) /\ AppRight(app) /\ PlanRight(plan, app)
      /\ DOMAIN app = AppFields /\ DOMAIN net = NetFields /\ app.step \in Nat \ {0}
      /\ app.then \in {"idle", "buffer", "dnsBuffer"}
  BY AppAt
<1>4. s \in Mine(app) /\ s \in Sockets /\ net.socks[s].used
  BY <1>1, AtSocket
<1>5. /\ ~net.socks[s].bound /\ "BOUND" \notin net.socks[s].bits
      /\ \A y \in Elems(net.evq) \cup {event} : y.type # "bind"
      /\ \A t \in Sockets : "BOUND" \notin net.socks[t].bits
  BY <1>1, <1>3, <1>4 DEF Sound, Binding
<1>6. \A y \in Elems(net.evq) \cup {event} : Pending(y) => y.sock # s
  BY <1>3, <1>4, <1>5 DEF Sound, Owned, Closing, Pending
<1>7. /\ Changes(app, b, Moving) /\ b.pc = "bindWait" /\ b.step = app.step
      /\ b.then = app.then /\ b.sock = s /\ b.slot = app.slot
  BY <1>3 DEF Changes, Moving, AppFields
<1> HIDE DEF b
<1>8. /\ (Resolving(b) <=> Resolving(app)) /\ (Looking(b) <=> Looking(app))
      /\ AppHands(b) = AppHands(app) /\ b.pc \notin ReplySteps
      /\ app.pc \notin TableSteps /\ b.pc \notin TableSteps
  BY <1>1, <1>7 DEF Resolving, Looking, AppHands, ReplySteps, InsertSteps, TableSteps
<1>9. /\ AppRight(b) /\ PlanRight(plan, b) /\ Recalls(b, app)
      /\ b.asks = app.asks /\ b.result = app.result
  BY <1>3, <1>7, <1>8, MoveRight
<1>10. Mine(b) = Mine(app)
  BY <1>7, <1>8 DEF Mine
<1>11. Owned(net.socks, net.dhcp.sock, net.evq, b, event)
  BY <1>3, <1>7, <1>8, <1>10 DEF Sound, Owned
<1>12. Binding(net.socks, net.evq, b, event)
  BY <1>1, <1>3, <1>4, <1>5, <1>7, <1>8, <1>10 DEF Sound, Binding
<1> HIDE DEF h
<1>13. Sound(net, heard, b, event, h)
  BY <1>3, <1>8, <1>9, <1>11, <1>12, AppSound
<1>14. EventRight(x, net.out, b) /\ PendingFits(net, b, event, x) /\ EventHands(x) = 0
  BY <1>5, <1>6, <1>7 DEF EventRight, EventTypes, PendingFits, Pending, EventHands, HasBuffer
<1> HIDE DEF x
<1>15. /\ Changes(net, m, {"evq"}) /\ m.evq = Append(net.evq, x) /\ m.free = net.free
       /\ Keeps(net, m)
  BY <1>3, SentIs
<1> HIDE DEF m
<1>16. Changes(net, m, Flags \cup {"evq", "free"})
  BY <1>15 DEF Changes
<1>17. h \in Nat /\ m.free \in Nat /\ m.free + h + EventHands(x) = net.free + h
  BY <1>13, <1>14, <1>15 DEF Sound, Formed, Counted
<1>18. Sound(m, heard, b, event, h)
  BY <1>13, <1>14, <1>15, <1>16, <1>17, PostedSound
<1> QED
  BY <1>1, <1>2, <1>8, <1>9, <1>15, <1>18, AppStep DEF h

LEMMA BindReturnsKeeps ==
    ASSUME StackRight, BindReturns
    PROVE  StackRight'
<1> DEFINE s == app.sock
           h == EventHands(event) + AppHands(app)
           bound == net.socks[s].bound
           m == [net EXCEPT !.socks[s].bits = @ \ {"BOUND"}]
           ends == app.then = "idle" \/ (~bound /\ app.then = "buffer")
           done == Done(app)
           on == [app EXCEPT !.pc = IF bound THEN app.then ELSE "dnsClose"]
           b == IF ends THEN done ELSE on
<1>1. /\ app.pc = "bindWait" /\ NotApp /\ "BOUND" \in net.socks[s].bits
      /\ net' = m /\ app' = b
  BY DEF BindReturns
<1>2. /\ Sound(net, heard, app, event, h) /\ AppRight(app) /\ PlanRight(plan, app)
      /\ DOMAIN app = AppFields /\ DOMAIN net = NetFields /\ app.step \in Nat \ {0}
      /\ app.then \in {"idle", "buffer", "dnsBuffer"}
  BY AppAt
<1>3. s \in Mine(app) /\ s \in Sockets /\ net.socks[s].used
  BY <1>1, AtSocket
<1>4. /\ \A y \in Elems(net.evq) \cup {event} : y.type # "bind"
      /\ \A t \in Sockets \ {s} : "BOUND" \notin net.socks[t].bits
      /\ Resolving(app) => IF bound THEN net.socks[s].port \in Private
                           ELSE net.socks[s].local = NoPort
  BY <1>1, <1>2 DEF Sound, Binding
<1>5. DOMAIN net.socks = Sockets /\ DOMAIN net.socks[s] = SockFields
  BY <1>2, <1>3 DEF Sound, Formed
<1>6. Resolving(app) <=> app.then = "dnsBuffer"
  BY <1>1 DEF Resolving, ReplySteps, InsertSteps
<1>7. /\ b.slot = app.slot /\ b.sock = s /\ Changes(app, b, Moving) /\ b.step \in Nat \ {0}
      /\ b.then = app.then
      /\ b.pc = IF ends THEN "idle" ELSE IF bound THEN app.then ELSE "dnsClose"
  <2>1. /\ done.pc = "idle" /\ done.step \in Nat \ {0} /\ Changes(app, done, Moving)
        /\ done.then = app.then /\ done.sock = app.sock /\ done.slot = app.slot
    BY <1>2, DoneIs
  <2>2. /\ on.pc = (IF bound THEN app.then ELSE "dnsClose") /\ on.step = app.step
        /\ Changes(app, on, Moving) /\ on.then = app.then /\ on.sock = app.sock
        /\ on.slot = app.slot
    BY <1>2 DEF Changes, Moving, AppFields
  <2> HIDE DEF done, on, bound, ends
  <2> QED
    BY <1>2, <2>1, <2>2
<1> HIDE DEF b
<1>8. /\ Resolving(b) <=> Resolving(app)
      /\ b.pc \in {"idle", "buffer", "dnsBuffer", "dnsClose"}
      /\ Resolving(b) => bound \/ b.pc = "dnsClose"
  BY <1>2, <1>6, <1>7 DEF Resolving, ReplySteps, InsertSteps
<1>9. /\ Looking(b) => Looking(app)
      /\ b.pc \notin ReplySteps /\ b.pc \notin TableSteps /\ app.pc \notin TableSteps
  BY <1>1, <1>8 DEF Looking, ReplySteps, InsertSteps, TableSteps
<1>10. AppHands(b) = AppHands(app)
  BY <1>1, <1>8 DEF AppHands, ReplySteps, InsertSteps
<1>11. /\ AppRight(b) /\ PlanRight(plan, b) /\ Recalls(b, app)
       /\ b.asks = app.asks /\ b.result = app.result
  BY <1>2, <1>7, <1>9, MoveRight
<1>12. Mine(b) = Mine(app)
  BY <1>7, <1>8 DEF Mine
<1> HIDE DEF h
<1>13. /\ Changes(net, m, {"socks"}) /\ DOMAIN m.socks = Sockets
       /\ \A t \in Sockets \ {s} : m.socks[t] = net.socks[t]
       /\ m.socks[s] = [net.socks[s] EXCEPT !.bits = @ \ {"BOUND"}]
  BY <1>2, <1>3, <1>5 DEF Changes, NetFields
<1> HIDE DEF m
<1>14. /\ Changes(net.socks[s], m.socks[s], {"bits", "local"})
       /\ "BOUND" \notin m.socks[s].bits
       /\ m.socks[s].bound = bound /\ m.socks[s].port = net.socks[s].port
       /\ m.socks[s].local = net.socks[s].local
  BY <1>5, <1>13 DEF Changes, SockFields
<1>15. Binding(m.socks, net.evq, app, event)
  BY <1>1, <1>3, <1>4, <1>13, <1>14 DEF Binding
<1>16. Sound(m, heard, app, event, h) /\ Keeps(net, m)
  BY <1>2, <1>3, <1>5, <1>13, <1>14, <1>15, BitsSound
<1>17. m.evq = net.evq /\ m.dhcp = net.dhcp
  BY <1>2, <1>13 DEF Changes, NetFields
<1>18. Owned(m.socks, m.dhcp.sock, m.evq, b, event)
  BY <1>7, <1>8, <1>12, <1>16 DEF Sound, Owned
<1>19. Binding(m.socks, m.evq, b, event)
  BY <1>3, <1>4, <1>7, <1>8, <1>12, <1>13, <1>14, <1>17 DEF Binding
<1>20. Sound(m, heard, b, event, h)
  BY <1>9, <1>11, <1>16, <1>18, <1>19, AppSound
<1> QED
  BY <1>1, <1>10, <1>11, <1>16, <1>20, AppStep DEF h

-----------------------------------------------------------------------------
(* Sockets are opened and closed; names are looked up.                     *)

LEMMA CallSocketKeeps ==
    ASSUME StackRight, NEW s, CallSocket(s)
    PROVE  StackRight'
<1> DEFINE i == Call.slot
           g == [app EXCEPT !.slot[i] = s]
           b == Done(g)
           m == FreeRTOS_socket(net, s)
           h == EventHands(event) + AppHands(app)
<1>1. /\ app.pc = "idle" /\ NotApp /\ Calls("socket") /\ s \in FreeSockets(net)
      /\ net' = m /\ app' = b
  BY DEF CallSocket, Calls
<1>2. /\ Sound(net, heard, app, event, h) /\ AppRight(app) /\ PlanRight(plan, app)
      /\ DOMAIN app = AppFields /\ app.step \in Nat \ {0} /\ Keeps(net, net)
  BY AppAt
<1>3. i \in Slots
  BY <1>1, CallSockMine
<1>4. DOMAIN app.slot = Slots
  BY <1>2 DEF AppRight
<1> HIDE DEF i, h
<1>5. /\ DOMAIN g = AppFields /\ g.slot = [app.slot EXCEPT ![i] = s]
      /\ g.step = app.step /\ g.then = app.then /\ g.sock = app.sock /\ g.asks = app.asks
      /\ g.id = app.id /\ g.result = app.result
  BY <1>2 DEF AppFields
<1> HIDE DEF g
<1>6. /\ DOMAIN b = AppFields /\ b.pc = "idle" /\ b.step \in Nat \ {0} /\ b.then = g.then
      /\ b.slot = g.slot /\ b.asks = g.asks /\ b.id = g.id /\ b.result = g.result
      /\ ~Resolving(b) /\ AppHands(b) = 0
  BY <1>2, <1>5, DoneIs
<1> HIDE DEF b
<1>7. /\ DOMAIN b.slot = Slots /\ b.slot[i] = s
      /\ \A j \in Slots \ {i} : b.slot[j] = app.slot[j]
  BY <1>3, <1>4, <1>5, <1>6
<1>8. AppRight(b) /\ PlanRight(plan, b) /\ Recalls(b, app)
  BY <1>2, <1>5, <1>6, <1>7 DEF AppRight, PlanRight, Looking, Recalls, ReplySteps, InsertSteps
<1>9. /\ ~Resolving(app) /\ AppHands(app) = AppHands(b)
      /\ app.pc \notin TableSteps /\ b.pc \notin TableSteps
      /\ b.asks = app.asks /\ b.result = app.result
  BY <1>1, <1>5, <1>6 DEF Resolving, AppHands, ReplySteps, InsertSteps, TableSteps
<1>10. Mine(b) \subseteq Mine(app) \cup ({s} \ {NoSocket})
  BY <1>6, <1>7, <1>9 DEF Mine
<1>11. /\ \A y \in Elems(net.evq) \cup {event} : y.type # "bind"
       /\ \A t \in Sockets : "BOUND" \notin net.socks[t].bits
  BY <1>1, <1>2 DEF Sound, Binding
<1>12. \A j \in Slots : app.slot[j] # NoSocket => app.slot[j] \in Mine(app)
  BY DEF Mine
<1>13. CASE s = NoSocket
  <2>1. m = net
    BY <1>13 DEF FreeRTOS_socket
  <2>2. Owned(net.socks, net.dhcp.sock, net.evq, b, event)
    BY <1>2, <1>6, <1>7, <1>10, <1>13 DEF Sound, Owned
  <2>3. Binding(net.socks, net.evq, b, event)
    BY <1>6, <1>11 DEF Binding
  <2>4. Sound(net, heard, b, event, h)
    BY <1>2, <1>8, <1>9, <2>2, <2>3, AppSound
  <2> HIDE DEF m
  <2> QED
    BY <1>1, <1>2, <1>8, <1>9, <2>1, <2>4, AppStep DEF h
<1>14. CASE s # NoSocket
  <2>1. s \in Sockets /\ ~net.socks[s].used
    BY <1>1, <1>14 DEF FreeSockets
  <2>2. s \notin Mine(app) /\ s \notin Closing(net.evq, event) /\ s # net.dhcp.sock
    BY <1>2, <2>1, UnusedIs
  <2>3. /\ Sound(m, heard, app, event, h) /\ Keeps(net, m) /\ m.evq = net.evq
        /\ m.socks[s].used /\ ~m.socks[s].bound /\ m.socks[s].local = NoPort
    <3>1. /\ Sound(m, heard, app, event, h) /\ Keeps(net, m) /\ m.evq = net.evq
          /\ m.socks[s].used /\ ~m.socks[s].bound /\ m.socks[s].local = NoPort
      BY <1>2, <2>1, CreatedSound
    <3> QED
      BY <3>1
  <2> HIDE DEF m
  <2>4. m.dhcp = net.dhcp
    BY <2>3 DEF Keeps
  <2>5. Owned(m.socks, m.dhcp.sock, m.evq, b, event)
    <3>1. Owned(m.socks, m.dhcp.sock, m.evq, app, event)
      BY <2>3 DEF Sound
    <3>2. ASSUME NEW j \in Slots, NEW l \in Slots, b.slot[j] = b.slot[l], b.slot[j] # NoSocket
          PROVE  j = l
      BY <1>7, <1>12, <2>2, <3>1, <3>2 DEF Owned
    <3>3. Mine(b) \subseteq Sockets /\ Mine(b) \cap Closing(m.evq, event) = {}
          /\ m.dhcp.sock \notin Mine(b)
      BY <1>10, <2>1, <2>2, <2>3, <2>4, <3>1 DEF Owned
    <3>4. \A t \in Sockets : t \in Mine(b) => m.socks[t].used
      BY <1>10, <2>3, <3>1 DEF Owned
    <3> QED
      BY <1>6, <3>1, <3>2, <3>3, <3>4 DEF Owned
  <2>6. Binding(m.socks, m.evq, b, event)
    <3>1. /\ \A y \in Elems(m.evq) \cup {event} : y.type # "bind"
          /\ \A t \in Sockets : "BOUND" \notin m.socks[t].bits
      BY <1>1, <2>3 DEF Sound, Binding
    <3> QED
      BY <1>6, <3>1 DEF Binding
  <2>7. Sound(m, heard, b, event, h)
    BY <1>8, <1>9, <2>3, <2>5, <2>6, AppSound
  <2> QED
    BY <1>1, <1>8, <1>9, <2>3, <2>7, AppStep DEF h
<1> QED
  BY <1>13, <1>14

\* A socket of the application is given away, to be closed.
LEMMA GivesAway ==
    ASSUME StackRight, NotApp, app.pc \in {"idle", "dnsClose"},
           NEW s, s \in Mine(app),
           NEW b, app' = b, AppRight(b), PlanRight(plan, b), Recalls(b, app), b.pc = "idle",
           b.asks = app.asks, b.result = app.result,
           Mine(b) \subseteq Mine(app) \ {s},
           \A i, j \in Slots : b.slot[i] = b.slot[j] /\ b.slot[i] # NoSocket => i = j,
           PostClose(s)
    PROVE  StackRight'
<1> DEFINE x == [type |-> "close", sock |-> s]
           m == Sent(net, x)
           h == EventHands(event) + AppHands(app)
<1>1. net' = IF CanPost(net, x) THEN m ELSE net
  BY DEF PostClose, xSendEventStructToIPTask, Sent
<1>2. /\ Sound(net, heard, app, event, h) /\ DOMAIN net = NetFields /\ Keeps(net, net)
  BY AppAt
<1>3. s \in Sockets /\ net.socks[s].used /\ s # net.dhcp.sock
      /\ s \notin Closing(net.evq, event)
  BY <1>2 DEF Sound, Owned
<1>4. /\ \A y \in Elems(net.evq) \cup {event} : y.type # "bind"
      /\ \A t \in Sockets : "BOUND" \notin net.socks[t].bits
  BY <1>2 DEF Sound, Binding
<1>5. /\ ~Resolving(b) /\ AppHands(b) = AppHands(app)
      /\ app.pc \notin TableSteps /\ b.pc \notin TableSteps
  BY DEF Resolving, AppHands, ReplySteps, InsertSteps, TableSteps
<1> HIDE DEF h
<1>6. Owned(net.socks, net.dhcp.sock, net.evq, b, event)
  BY <1>2, <1>5 DEF Sound, Owned
<1>7. Binding(net.socks, net.evq, b, event)
  BY <1>4, <1>5 DEF Binding
<1>8. Sound(net, heard, b, event, h)
  BY <1>2, <1>5, <1>6, <1>7, AppSound
<1>9. \A y \in Elems(net.evq) \cup {event} : Pending(y) => y.sock # s
  BY <1>3, <1>4 DEF Closing, Pending
<1>10. EventRight(x, net.out, b) /\ PendingFits(net, b, event, x) /\ EventHands(x) = 0
  BY <1>3, <1>9 DEF EventRight, EventTypes, PendingFits, Pending, EventHands, HasBuffer
<1> HIDE DEF x
<1>11. /\ Changes(net, m, {"evq"}) /\ m.evq = Append(net.evq, x) /\ m.free = net.free
       /\ Keeps(net, m)
  BY <1>2, SentIs
<1> HIDE DEF m
<1>12. Changes(net, m, Flags \cup {"evq", "free"})
  BY <1>11 DEF Changes
<1>13. h \in Nat /\ m.free \in Nat /\ m.free + h + EventHands(x) = net.free + h
  BY <1>8, <1>10, <1>11 DEF Sound, Formed, Counted
<1>14. Sound(m, heard, b, event, h)
  BY <1>8, <1>10, <1>11, <1>12, <1>13, PostedSound
<1>15. CASE CanPost(net, x)
  BY <1>1, <1>5, <1>11, <1>14, <1>15, AppStep DEF h
<1>16. CASE ~CanPost(net, x)
  BY <1>1, <1>2, <1>5, <1>8, <1>16, AppStep DEF h
<1> QED
  BY <1>15, <1>16

LEMMA CallCloseKeeps ==
    ASSUME StackRight, CallClose
    PROVE  StackRight'
<1> DEFINE i == Call.slot
           s == CallSock
           g == [app EXCEPT !.slot[i] = NoSocket]
           b == Done(g)
<1>1. /\ app.pc = "idle" /\ NotApp /\ Calls("close") /\ s # NoSocket
      /\ PostClose(s) /\ app' = b
  BY DEF CallClose, Calls
<1>2. /\ AppRight(app) /\ PlanRight(plan, app) /\ DOMAIN app = AppFields
      /\ app.step \in Nat \ {0}
  BY AppAt
<1>3. i \in Slots /\ s \in Mine(app) /\ s = app.slot[i]
  BY <1>1, CallSockMine DEF CallSock
<1>4. DOMAIN app.slot = Slots
  BY <1>2 DEF AppRight
<1> HIDE DEF i, s
<1>5. /\ DOMAIN g = AppFields /\ g.slot = [app.slot EXCEPT ![i] = NoSocket]
      /\ g.step = app.step /\ g.then = app.then /\ g.asks = app.asks
      /\ g.id = app.id /\ g.result = app.result
  BY <1>2 DEF AppFields
<1> HIDE DEF g
<1>6. /\ DOMAIN b = AppFields /\ b.pc = "idle" /\ b.step \in Nat \ {0} /\ b.then = g.then
      /\ b.slot = g.slot /\ b.asks = g.asks /\ b.id = g.id /\ b.result = g.result
      /\ ~Resolving(b)
  BY <1>2, <1>5, DoneIs
<1> HIDE DEF b
<1>7. /\ DOMAIN b.slot = Slots /\ b.slot[i] = NoSocket
      /\ \A j \in Slots \ {i} : b.slot[j] = app.slot[j]
  BY <1>3, <1>4, <1>5, <1>6
<1>8. AppRight(b) /\ PlanRight(plan, b) /\ Recalls(b, app)
  BY <1>2, <1>5, <1>6, <1>7 DEF AppRight, PlanRight, Looking, Recalls, ReplySteps, InsertSteps
<1>9. \A j, l \in Slots : app.slot[j] = app.slot[l] /\ app.slot[j] # NoSocket => j = l
  BY DEF StackRight, Sound, Owned
<1>10. Mine(b) \subseteq Mine(app) \ {s}
  BY <1>1, <1>3, <1>6, <1>7, <1>9 DEF Mine
<1>11. \A j, l \in Slots : b.slot[j] = b.slot[l] /\ b.slot[j] # NoSocket => j = l
  BY <1>7, <1>9
<1> QED
  BY <1>1, <1>3, <1>5, <1>6, <1>8, <1>10, <1>11, GivesAway

LEMMA DnsCloseKeeps ==
    ASSUME StackRight, DnsClose
    PROVE  StackRight'
<1> DEFINE s == app.sock
           b == Done(app)
<1>1. app.pc = "dnsClose" /\ NotApp /\ PostClose(s) /\ app' = b
  BY DEF DnsClose
<1>2. /\ AppRight(app) /\ PlanRight(plan, app) /\ DOMAIN app = AppFields
      /\ app.step \in Nat \ {0} /\ app.then \in {"idle", "buffer", "dnsBuffer"}
  BY AppAt
<1>3. Resolving(app)
  BY <1>1 DEF Resolving, ReplySteps, InsertSteps
<1>4. /\ s \in Mine(app) /\ \A i \in Slots : app.slot[i] # s
      /\ \A i, j \in Slots : app.slot[i] = app.slot[j] /\ app.slot[i] # NoSocket => i = j
  BY <1>3 DEF StackRight, Sound, Owned, Mine
<1>5. /\ b.pc = "idle" /\ b.step \in Nat \ {0} /\ Changes(app, b, Moving) /\ b.then = app.then
      /\ b.slot = app.slot /\ ~Resolving(b) /\ b.asks = app.asks /\ b.result = app.result
  BY <1>2, DoneIs
<1> HIDE DEF b
<1>6. AppRight(b) /\ PlanRight(plan, b) /\ Recalls(b, app)
  BY <1>2, <1>5, MoveRight DEF Looking, ReplySteps, InsertSteps
<1>7. Mine(b) \subseteq Mine(app) \ {s}
  BY <1>3, <1>4, <1>5 DEF Mine
<1> QED
  BY <1>1, <1>4, <1>5, <1>6, <1>7, GivesAway

\* A socket for the question, or the end of the lookup.
LEMMA DnsSocketKeeps ==
    ASSUME StackRight, NEW s, prvCreateDNSSocket(s)
    PROVE  StackRight'
<1> DEFINE m == FreeRTOS_socket(net, s)
           b == [app EXCEPT !.pc = "bindPost", !.sock = s, !.then = "dnsBuffer"]
           h == EventHands(event) + AppHands(app)
<1>1. app.pc = "dnsSocket" /\ NotApp /\ s \in FreeSockets(net)
  BY DEF prvCreateDNSSocket
<1>2. /\ Sound(net, heard, app, event, h) /\ AppRight(app) /\ PlanRight(plan, app)
      /\ DOMAIN app = AppFields /\ app.step \in Nat \ {0}
  BY AppAt
<1>3. ~Resolving(app)
  BY <1>1 DEF Resolving, ReplySteps, InsertSteps
<1>4. CASE s = NoSocket
  <2>1. app' = Done(app) /\ net' = net
    BY <1>4 DEF prvCreateDNSSocket
  <2> QED
    BY <1>1, <1>3, <2>1, DoneKeeps
<1>5. CASE s # NoSocket
  <2>1. net' = m /\ app' = b
    BY <1>5 DEF prvCreateDNSSocket
  <2>2. s \in Sockets /\ ~net.socks[s].used
    BY <1>1, <1>5 DEF FreeSockets
  <2> HIDE DEF h
  <2>3. s \notin Mine(app) /\ s \notin Closing(net.evq, event) /\ s # net.dhcp.sock
    BY <1>2, <2>2, UnusedIs
  <2>4. /\ Sound(m, heard, app, event, h) /\ Keeps(net, m) /\ m.evq = net.evq
        /\ m.socks[s].used /\ ~m.socks[s].bound /\ m.socks[s].local = NoPort
    <3>1. /\ Sound(m, heard, app, event, h) /\ Keeps(net, m) /\ m.evq = net.evq
          /\ m.socks[s].used /\ ~m.socks[s].bound /\ m.socks[s].local = NoPort
      BY <1>2, <2>2, CreatedSound
    <3> QED
      BY <3>1
  <2> HIDE DEF m
  <2>5. /\ Changes(app, b, Moving) /\ b.pc = "bindPost" /\ b.sock = s /\ b.then = "dnsBuffer"
        /\ b.step = app.step /\ b.slot = app.slot
    BY <1>2 DEF Changes, Moving, AppFields
  <2> HIDE DEF b
  <2>6. /\ Resolving(b) /\ AppHands(b) = AppHands(app) /\ Looking(app)
        /\ b.pc \notin ReplySteps /\ b.pc \notin TableSteps /\ app.pc \notin TableSteps
    BY <1>1, <2>5 DEF Resolving, Looking, AppHands, ReplySteps, InsertSteps, TableSteps
  <2>7. /\ AppRight(b) /\ PlanRight(plan, b) /\ Recalls(b, app)
        /\ b.asks = app.asks /\ b.result = app.result
    BY <1>1, <1>2, <2>5, <2>6, MoveRight
  <2>8. Mine(b) = Mine(app) \cup {s}
    BY <1>3, <2>5, <2>6 DEF Mine
  <2>9. m.dhcp = net.dhcp
    BY <2>4 DEF Keeps
  <2>10. Owned(m.socks, m.dhcp.sock, m.evq, b, event)
    <3>1. Owned(m.socks, m.dhcp.sock, m.evq, app, event)
      BY <2>4 DEF Sound
    <3>2. \A i \in Slots : app.slot[i] # s
      BY <2>2, <2>3, StackAssumption DEF Mine
    <3>3. /\ Mine(b) \subseteq Sockets /\ Mine(b) \cap Closing(m.evq, event) = {}
          /\ m.dhcp.sock \notin Mine(b)
          /\ \A t \in Sockets : t \in Mine(b) => m.socks[t].used
      BY <2>2, <2>3, <2>4, <2>8, <2>9, <3>1 DEF Owned
    <3> QED
      BY <2>5, <3>1, <3>2, <3>3 DEF Owned
  <2>11. Binding(m.socks, m.evq, b, event)
    <3>1. /\ \A y \in Elems(m.evq) \cup {event} : y.type # "bind"
          /\ \A t \in Sockets : "BOUND" \notin m.socks[t].bits
      BY <1>1, <2>4 DEF Sound, Binding
    <3> QED
      BY <2>4, <2>5, <2>8, <3>1 DEF Binding
  <2>12. Sound(m, heard, b, event, h)
    BY <2>4, <2>6, <2>7, <2>10, <2>11, AppSound
  <2> QED
    BY <1>1, <2>1, <2>4, <2>6, <2>7, <2>12, AppStep DEF h
<1> QED
  BY <1>4, <1>5

-----------------------------------------------------------------------------
(* The application at the table of names.                                  *)

\* A look-up begins: what the search has found, or the way to a socket.
LEMMA CallLookupKeeps ==
    ASSUME StackRight, CallLookup
    PROVE  StackRight'
<1> DEFINE name == Call.name
           rows == RowsOfName(net.names, name)
           asked == [app EXCEPT !.asks = name, !.id = @ + 1, !.attempt = 0, !.result = NoAddress]
           goes == [asked EXCEPT !.pc = "dnsSocket"]
           reads == [asked EXCEPT !.pc = "dnsRead", !.row = Min(rows)]
           busy == [net EXCEPT !.names.busy = TRUE]
           b == IF rows = {} THEN goes ELSE reads
           m == IF rows = {} THEN net ELSE busy
           h == EventHands(event) + AppHands(app)
<1>1. app.pc = "idle" /\ NotApp /\ Calls("lookup") /\ net' = m /\ app' = b
  BY DEF CallLookup, Calls
<1>2. /\ Sound(net, heard, app, event, h) /\ AppRight(app) /\ PlanRight(plan, app)
      /\ DOMAIN app = AppFields /\ app.step \in Nat \ {0} /\ DOMAIN net = NetFields
      /\ app.id \in Nat /\ DOMAIN app.slot = Slots
      /\ app.then \in {"idle", "buffer", "dnsBuffer"}
  BY AppAt DEF AppRight
<1>3. name \in Names
  <2>1. plan \in Plans
    BY <1>2 DEF PlanRight
  <2>2. app.step \in DOMAIN plan.calls /\ plan.calls[app.step].op = "lookup"
    BY <1>1, <1>2, <2>1, PlansAssumption DEF Calls
  <2> QED
    BY <2>1, <2>2, PlansAssumption DEF Call
<1>4. /\ TableFormed(net.names)
      /\ ~net.names.mixed => InOrder(net.names)
  BY <1>1, <1>2 DEF Sound, NamesKept, Finished
<1> HIDE DEF name, h
<1>5. /\ DOMAIN b = AppFields /\ b.step = app.step /\ b.then = app.then /\ b.slot = app.slot
      /\ b.asks = name /\ b.id = app.id + 1 /\ b.result = NoAddress
      /\ b.pc = IF rows = {} THEN "dnsSocket" ELSE "dnsRead"
      /\ rows # {} => b.row = Min(rows)
  <2>1. /\ DOMAIN asked = AppFields /\ asked.step = app.step /\ asked.then = app.then
        /\ asked.slot = app.slot /\ asked.asks = name /\ asked.id = app.id + 1
        /\ asked.result = NoAddress
    BY <1>2 DEF AppFields
  <2> HIDE DEF asked, rows
  <2> QED
    BY <2>1 DEF AppFields
<1>6. rows \subseteq DnsRows /\ (rows # {} => Min(rows) \in DnsRows)
  <2>1. rows \subseteq DnsRows /\ DnsRows \subseteq Nat
    BY DEF RowsOfName, DnsRows
  <2>2. rows # {} => \E least \in rows : \A x \in rows : least <= x
    <3> HIDE DEF rows
    <3> QED
      BY <2>1, LeastNat
  <2>3. Min(rows) = CHOOSE x \in rows : \A y \in rows : x <= y
    BY DEF Min
  <2> HIDE DEF rows
  <2> QED
    BY <2>1, <2>2, <2>3
<1>7. /\ Changes(net, m, {"names"})
      /\ m.names = IF rows = {} THEN net.names ELSE [net.names EXCEPT !.busy = TRUE]
  BY <1>2 DEF Changes, NetFields
<1> HIDE DEF b, m
<1>8. NamesKept(m.names, b)
  <2>1. CASE rows = {}
    <3>1. m.names = net.names /\ b.pc = "dnsSocket"
      BY <1>5, <1>7, <2>1
    <3>2. Finished(m.names, b) = net.names /\ Searched(m.names, b) /\ Resolved(b)
      BY <1>5, <3>1 DEF Finished, Searched, Resolved, InsertSteps
    <3> QED
      BY <1>4, <3>1, <3>2 DEF NamesKept, TableSteps, InsertSteps
  <2>2. CASE rows # {}
    <3>1. /\ b.pc = "dnsRead" /\ b.asks = name /\ b.row = Min(rows) /\ b.result = NoAddress
          /\ b.row \in DnsRows
      BY <1>5, <1>6, <2>2
    <3>2. FoundAt(net.names, name, b.row)
      BY <2>2, <3>1 DEF FoundAt
    <3> HIDE DEF rows
    <3>3. /\ TableFormed(m.names) /\ m.names.rows = net.names.rows
          /\ m.names.free = net.names.free /\ m.names.busy
          /\ m.names.mixed = net.names.mixed
      BY <1>4, <1>7, <2>2 DEF TableFormed
    <3>4. Finished(m.names, b) = m.names /\ Resolved(b)
      BY <3>1 DEF Finished, Resolved
    <3>5. Searched(m.names, b)
      BY <3>1, <3>2, <3>3, SameTable DEF Searched, InsertSteps
    <3>6. ~m.names.mixed => InOrder(m.names)
      BY <1>4, <3>3, SameTable
    <3> QED
      BY <3>1, <3>3, <3>4, <3>5, <3>6 DEF NamesKept
  <2> QED
    BY <2>1, <2>2
<1> HIDE DEF rows
<1>9. /\ ~Resolving(app) /\ ~Resolving(b) /\ AppHands(b) = AppHands(app)
      /\ b.pc \notin ReplySteps \cup {"recv", "wait", "bindPost", "bindWait"}
  BY <1>1, <1>5 DEF Resolving, AppHands, ReplySteps, InsertSteps
<1>10. b.id \in Nat /\ b.id > app.id
  BY <1>2, <1>5
<1>11. AppRight(b) /\ PlanRight(plan, b) /\ Recalls(b, app)
  BY <1>2, <1>3, <1>5, <1>9, <1>10 DEF AppRight, PlanRight, Recalls
<1>12. Sound(m, heard, b, event, h) /\ Keeps(net, m)
  BY <1>1, <1>2, <1>5, <1>7, <1>8, <1>9, <1>11, PlainAtTable
<1> QED
  BY <1>1, <1>9, <1>11, <1>12, AppStep DEF h

\* The address that was found is the result.
LEMMA DnslookupKeeps ==
    ASSUME StackRight, FreeRTOS_dnslookup
    PROVE  StackRight'
<1> DEFINE d == net.names
           ip == d.rows[app.row].ip
           found == [app EXCEPT !.result = ip]
           done == Done(found)
           goes == [app EXCEPT !.pc = "dnsSocket"]
           b == IF ip # NoAddress THEN done ELSE goes
           m == [net EXCEPT !.names.busy = FALSE]
           h == EventHands(event) + AppHands(app)
<1>1. app.pc = "dnsRead" /\ NotApp /\ net' = m /\ app' = b
  BY DEF FreeRTOS_dnslookup
<1>2. /\ Sound(net, heard, app, event, h) /\ AppRight(app) /\ PlanRight(plan, app)
      /\ DOMAIN app = AppFields /\ app.step \in Nat \ {0} /\ DOMAIN net = NetFields
      /\ app.id \in Nat /\ DOMAIN app.slot = Slots
      /\ app.then \in {"idle", "buffer", "dnsBuffer"}
  BY AppAt DEF AppRight
<1>3. /\ TableFormed(d) /\ app.row \in DnsRows
      /\ ~d.mixed => InOrder(d) /\ FoundAt(d, app.asks, app.row) /\ Resolved(app)
  BY <1>1, <1>2 DEF Sound, NamesKept, Finished, Searched
<1>4. app.asks \in Names
  BY <1>1, <1>2 DEF PlanRight, Looking
<1>5. ip \in Given \cup {NoAddress} /\ (~d.mixed => ip \in GivenTo(Kept[app.asks]))
  BY <1>3, <1>4, LookupRight DEF TableFormed
<1> HIDE DEF ip, h
<1>6. /\ DOMAIN b = AppFields /\ b.step \in Nat \ {0} /\ b.then = app.then
      /\ b.slot = app.slot /\ b.asks = app.asks /\ b.id = app.id
      /\ b.result = IF ip # NoAddress THEN ip ELSE app.result
      /\ b.pc \in {"idle", "dnsSocket"}
  <2>1. /\ DOMAIN found = AppFields /\ found.step = app.step /\ found.then = app.then
        /\ found.slot = app.slot /\ found.asks = app.asks /\ found.id = app.id
        /\ found.result = ip
    BY <1>2 DEF AppFields
  <2> HIDE DEF found
  <2>2. /\ DOMAIN done = AppFields /\ done.pc = "idle" /\ done.step \in Nat \ {0}
        /\ done.then = found.then /\ done.slot = found.slot /\ done.asks = found.asks
        /\ done.id = found.id /\ done.result = found.result
    BY <1>2, <2>1, DoneIs
  <2>3. /\ DOMAIN goes = AppFields /\ goes.pc = "dnsSocket" /\ goes.step = app.step
        /\ goes.then = app.then /\ goes.slot = app.slot /\ goes.asks = app.asks
        /\ goes.id = app.id /\ goes.result = app.result
    BY <1>2 DEF AppFields
  <2> HIDE DEF done, goes
  <2> QED
    BY <1>2, <2>1, <2>2, <2>3
<1> HIDE DEF b
<1>7. Changes(net, m, {"names"}) /\ m.names = [d EXCEPT !.busy = FALSE]
  BY <1>2 DEF Changes, NetFields
<1> HIDE DEF m
<1>8. NamesKept(m.names, b)
  <2>1. /\ TableFormed(m.names) /\ m.names.rows = d.rows /\ m.names.free = d.free
        /\ m.names.mixed = d.mixed
    BY <1>3, <1>7 DEF TableFormed
  <2>2. /\ Finished(m.names, b) = m.names /\ Searched(m.names, b)
        /\ b.pc \notin TableSteps
    BY <1>6 DEF Finished, Searched, InsertSteps, TableSteps
  <2>3. ~m.names.mixed => InOrder(m.names) /\ Resolved(b)
    BY <1>3, <1>5, <1>6, <2>1, SameTable DEF Resolved
  <2> QED
    BY <2>1, <2>2, <2>3 DEF NamesKept, TableSteps
<1>9. /\ ~Resolving(app) /\ ~Resolving(b) /\ AppHands(b) = AppHands(app)
      /\ b.pc \notin ReplySteps \cup {"recv", "wait", "bindPost", "bindWait"}
  BY <1>1, <1>6 DEF Resolving, AppHands, ReplySteps, InsertSteps
<1>10. AppRight(b) /\ PlanRight(plan, b) /\ Recalls(b, app)
  BY <1>2, <1>4, <1>5, <1>6, <1>9 DEF AppRight, PlanRight, Recalls
<1>11. Sound(m, heard, b, event, h) /\ Keeps(net, m)
  BY <1>1, <1>2, <1>6, <1>7, <1>8, <1>9, <1>10, PlainAtTable
<1> QED
  BY <1>1, <1>9, <1>10, <1>11, AppStep DEF h

\* A step of the insertion: the reply stays in hand.
LEMMA TableMoves ==
    ASSUME StackRight, NotApp, app.pc \in ReplySteps, app.reply.id = app.id,
           app.reply.ip # NoAddress, NEW b, app' = b, Changes(app, b, {"pc", "row"}),
           b.pc \in ReplySteps \ {"dnsParse"},
           NEW m, net' = m, Changes(net, m, {"names"}), NamesKept(m.names, b)
    PROVE  StackRight'
<1> DEFINE h == EventHands(event) + AppHands(app)
<1>1. /\ Sound(net, heard, app, event, h) /\ AppRight(app) /\ PlanRight(plan, app)
      /\ DOMAIN app = AppFields
  BY AppAt
<1>2. /\ DOMAIN b = AppFields /\ b.slot = app.slot /\ b.asks = app.asks /\ b.id = app.id
      /\ b.reply = app.reply /\ b.result = app.result /\ b.step = app.step
      /\ b.then = app.then /\ b.sock = app.sock
  BY <1>1 DEF Changes, AppFields
<1>3. /\ AppHands(b) = AppHands(app) /\ Looking(app)
      /\ b.pc \in DnsSteps \cup ReplySteps \cup {"dnsClose"}
  BY DEF AppHands, Looking, Resolving
<1>4. AppRight(b) /\ PlanRight(plan, b) /\ Recalls(b, app)
  <2>1. Answer(b.reply, b)
    BY <1>1, <1>2 DEF AppRight, Answer, Asked
  <2> QED
    BY <1>1, <1>2, <1>3, <2>1 DEF AppRight, PlanRight, Recalls
<1> HIDE DEF h
<1>5. Sound(m, heard, b, event, h) /\ Keeps(net, m)
  BY <1>1, <1>2, <1>3, <1>4, DnsAtTable
<1> QED
  BY <1>3, <1>4, <1>5, AppStep DEF h

\* The end of it: the address goes back with the buffer.
LEMMA TableDoneKeeps ==
    ASSUME StackRight, NotApp, app.pc \in ReplySteps \ {"dnsParse"},
           NEW d, TableFormed(d), ~d.mixed => InOrder(d), TableDone(d)
    PROVE  StackRight'
<1> DEFINE r == Release(net)
           m == [r EXCEPT !.names = [d EXCEPT !.busy = FALSE]]
           b == [app EXCEPT !.result = app.reply.ip, !.reply = NoReply, !.pc = "dnsClose"]
           k == EventHands(event)
<1>1. net' = m /\ app' = b
  BY DEF TableDone
<1>2. /\ Sound(net, heard, app, event, k + AppHands(app)) /\ AppRight(app)
      /\ PlanRight(plan, app) /\ DOMAIN app = AppFields /\ k \in Nat
  BY AppAt
<1>3. AppHands(app) = 1 /\ Looking(app) /\ app.asks \in Names
  BY <1>2 DEF AppHands, Looking, Resolving, PlanRight
<1>4. /\ app.reply.ip \in Given /\ app.reply.ip \in GivenTo(Kept[app.asks])
  BY <1>2, <1>3, GivenKept DEF AppRight, Answer, Asked
<1> HIDE DEF k
<1>5. Sound(r, heard, app, event, k) /\ Keeps(net, r)
  <2>1. k + AppHands(app) = k + 1
    BY <1>3
  <2> QED
    BY <1>2, <2>1, ReleaseSound
<1> HIDE DEF r
<1>6. DOMAIN r = NetFields
  BY <1>5 DEF Sound, Formed
<1>7. Changes(r, m, {"names"}) /\ m.names = [d EXCEPT !.busy = FALSE]
  BY <1>6 DEF Changes, NetFields
<1> HIDE DEF m
<1>8. /\ DOMAIN b = AppFields /\ b.result = app.reply.ip /\ b.pc = "dnsClose"
      /\ b.step = app.step /\ b.slot = app.slot /\ b.then = app.then /\ b.sock = app.sock
      /\ b.asks = app.asks /\ b.id = app.id
  BY <1>2 DEF AppFields
<1> HIDE DEF b
<1>9. NamesKept(m.names, b)
  <2>1. /\ TableFormed(m.names) /\ m.names.rows = d.rows /\ m.names.free = d.free
        /\ m.names.mixed = d.mixed
    BY <1>7 DEF TableFormed
  <2>2. /\ Finished(m.names, b) = m.names /\ Searched(m.names, b) /\ Resolved(b)
        /\ b.pc \notin TableSteps
    BY <1>4, <1>8 DEF Finished, Searched, Resolved, InsertSteps, TableSteps
  <2>3. ~m.names.mixed => InOrder(m.names)
    BY <2>1, SameTable
  <2> QED
    BY <2>1, <2>2, <2>3 DEF NamesKept, TableSteps
<1>10. /\ AppHands(b) = 0 /\ b.pc \notin ReplySteps
       /\ b.pc \in DnsSteps \cup ReplySteps \cup {"dnsClose"}
  BY <1>8 DEF AppHands, ReplySteps, InsertSteps
<1>11. AppRight(b) /\ PlanRight(plan, b) /\ Recalls(b, app)
  BY <1>2, <1>3, <1>4, <1>8, <1>10 DEF AppRight, PlanRight, Recalls
<1>12. Sound(m, heard, b, event, k) /\ Keeps(r, m)
  BY <1>5, <1>7, <1>8, <1>9, <1>10, <1>11, DnsAtTable
<1>13. Keeps(net, m) /\ EventHands(event) + AppHands(b) = k
  BY <1>2, <1>5, <1>10, <1>12, KeepsOn DEF k
<1> QED
  BY <1>1, <1>11, <1>12, <1>13, AppStep

\* A reply is no answer to this question, or the table is searched for its name.
LEMMA GetHostByNameKeeps ==
    ASSUME StackRight, prvGetHostByName
    PROVE  StackRight'
<1> DEFINE d == net.names
           rows == RowsOfName(d, app.reply.name)
           good == prvParseDNSReply(app.reply, app.id)
           r == Release(net)
           busy == [net EXCEPT !.names.busy = TRUE]
           next == [app EXCEPT !.reply = NoReply, !.pc = "dnsNext"]
           inserts == [app EXCEPT !.pc = "dnsName"]
           updates == [app EXCEPT !.pc = "dnsUpdate", !.row = Min(rows)]
           b == IF rows = {} THEN inserts ELSE updates
           k == EventHands(event)
<1>1. /\ app.pc = "dnsParse" /\ NotApp
      /\ IF ~good THEN net' = r /\ app' = next ELSE net' = busy /\ app' = b
  BY DEF prvGetHostByName
<1>2. /\ Sound(net, heard, app, event, k + AppHands(app)) /\ AppRight(app)
      /\ PlanRight(plan, app) /\ DOMAIN app = AppFields /\ k \in Nat
      /\ DOMAIN net = NetFields
  BY AppAt
<1>3. AppHands(app) = 1 /\ Looking(app) /\ app.pc \in ReplySteps
  BY <1>1 DEF AppHands, Looking, Resolving, ReplySteps
<1>4. CASE ~good
  <2>1. net' = r /\ app' = next
    BY <1>1, <1>4
  <2> HIDE DEF k
  <2>2. Sound(r, heard, app, event, k) /\ Keeps(net, r)
    <3>1. k + AppHands(app) = k + 1
      BY <1>3
    <3> QED
      BY <1>2, <3>1, ReleaseSound
  <2> HIDE DEF r
  <2>3. /\ DOMAIN next = AppFields /\ next.result = app.result /\ next.pc = "dnsNext"
        /\ next.step = app.step /\ next.slot = app.slot /\ next.then = app.then
        /\ next.sock = app.sock /\ next.asks = app.asks /\ next.id = app.id
    BY <1>2 DEF AppFields
  <2> HIDE DEF next
  <2>4. /\ AppHands(next) = 0 /\ next.pc \notin ReplySteps
        /\ app.pc \in DnsSteps /\ next.pc \in DnsSteps
    BY <1>1, <2>3 DEF AppHands, DnsSteps, ReplySteps, InsertSteps
  <2>5. AppRight(next) /\ PlanRight(plan, next) /\ Recalls(next, app)
    BY <1>2, <1>3, <2>3, <2>4 DEF AppRight, PlanRight, Recalls
  <2>6. Sound(r, heard, next, event, k)
    BY <2>2, <2>3, <2>4, <2>5, DnsMove
  <2>7. EventHands(event) + AppHands(next) = k
    BY <1>2, <2>4 DEF k
  <2> QED
    BY <1>1, <2>1, <2>2, <2>5, <2>6, <2>7, AppStep
<1>5. CASE good
  <2>1. net' = busy /\ app' = b /\ app.reply.id = app.id /\ app.reply.ip # NoAddress
    BY <1>1, <1>5, IpAssumption DEF prvParseDNSReply
  <2> HIDE DEF good
  <2>2. /\ TableFormed(d)
        /\ ~d.mixed => InOrder(d) /\ Resolved(app)
    BY <1>1, <1>2 DEF Sound, NamesKept, Finished
  <2>3. /\ Changes(app, b, {"pc", "row"}) /\ b.reply = app.reply /\ b.asks = app.asks
        /\ b.result = app.result
        /\ b.pc = IF rows = {} THEN "dnsName" ELSE "dnsUpdate"
        /\ rows # {} => b.row = Min(rows)
    <3> HIDE DEF rows
    <3> QED
      BY <1>2 DEF Changes, AppFields
  <2>4. Changes(net, busy, {"names"}) /\ busy.names = [d EXCEPT !.busy = TRUE]
    BY <1>2 DEF Changes, NetFields
  <2> HIDE DEF b, busy
  <2>5. NamesKept(busy.names, b)
    <3>1. /\ TableFormed(busy.names) /\ busy.names.rows = d.rows /\ busy.names.free = d.free
          /\ busy.names.busy /\ busy.names.mixed = d.mixed
      BY <2>2, <2>4 DEF TableFormed
    <3>2. Finished(busy.names, b) = busy.names
      BY <2>3 DEF Finished
    <3>3. Searched(busy.names, b)
      <4>1. rows # {} => FoundAt(d, b.reply.name, b.row)
        BY <2>3 DEF FoundAt
      <4>2. RowsOfName(busy.names, b.reply.name) = rows
        BY <2>3, <3>1, SameTable
      <4> HIDE DEF rows
      <4>3. CASE rows = {}
        BY <2>3, <4>2, <4>3 DEF Searched, InsertSteps
      <4>4. CASE rows # {}
        BY <2>3, <3>1, <4>1, <4>4, SameTable DEF Searched, InsertSteps
      <4> QED
        BY <4>3, <4>4
    <3>4. ~busy.names.mixed => InOrder(busy.names) /\ Resolved(b)
      BY <2>2, <2>3, <3>1, SameTable DEF Resolved
    <3> QED
      BY <2>3, <3>1, <3>2, <3>3, <3>4 DEF NamesKept
  <2>6. b.pc \in ReplySteps \ {"dnsParse"}
    BY <2>3 DEF ReplySteps
  <2> QED
    BY <1>1, <1>3, <2>1, <2>3, <2>4, <2>5, <2>6, TableMoves
<1> QED
  BY <1>4, <1>5

\* The table while the application is at it, with an address to store.
LEMMA AtTable ==
    ASSUME StackRight, app.pc \in ReplySteps \ {"dnsParse"}
    PROVE  /\ NamesKept(net.names, app) /\ TableFormed(net.names) /\ net.names.busy
           /\ app.reply.name \in Names /\ app.reply.ip \in AnswerOf[app.reply.name]
           /\ app.reply.ip # NoAddress /\ app.reply.ip \in Given /\ app.reply.id = app.id
           /\ DOMAIN net = NetFields /\ DOMAIN app = AppFields /\ app.pc \in ReplySteps
<1>1. /\ Sound(net, heard, app, event, EventHands(event) + AppHands(app)) /\ AppRight(app)
      /\ DOMAIN app = AppFields /\ DOMAIN net = NetFields
  BY AppAt
<1>2. NamesKept(net.names, app) /\ app.pc \in TableSteps
  BY <1>1 DEF Sound, ReplySteps, TableSteps
<1>3. Answer(app.reply, app) /\ app.reply.id = app.id /\ app.reply.ip # NoAddress
  BY <1>1 DEF AppRight
<1> QED
  BY <1>1, <1>2, <1>3, GivenKept DEF NamesKept, Answer, Asked

LEMMA UpdateRowKeeps ==
    ASSUME StackRight, UpdateRow
    PROVE  StackRight'
<1> DEFINE d == net.names
           e == StoreAddress(d, app.row, app.reply.ip)
<1>1. app.pc = "dnsUpdate" /\ NotApp /\ TableDone(e)
  BY DEF UpdateRow
<1>2. app.pc \in ReplySteps \ {"dnsParse"}
  BY <1>1 DEF ReplySteps
<1>3. /\ NamesKept(d, app) /\ TableFormed(d) /\ app.reply.name \in Names
      /\ app.reply.ip \in AnswerOf[app.reply.name] /\ app.reply.ip # NoAddress
      /\ app.reply.ip \in Given
  BY <1>2, AtTable
<1>4. TableFormed(e) /\ e.mixed = d.mixed
  BY <1>3 DEF StoreAddress, TableFormed
<1>5. ~d.mixed => InOrder(d) /\ FoundAt(d, app.reply.name, app.row)
  BY <1>1, <1>3 DEF NamesKept, Finished, Searched
<1>6. ~d.mixed => InOrder(e)
  <2>1. ~d.mixed => e = prvProcessDNSCache(d, app.reply.name, app.reply.ip)
    BY <1>3, <1>5, ProcessFormed
  <2> QED
    BY <1>3, <1>5, <2>1, NamesStored
<1> HIDE DEF e
<1> QED
  BY <1>1, <1>2, <1>4, <1>6, TableDoneKeeps

\* The name is in its row, and the address is to follow.
LEMMA InsertNameKeeps ==
    ASSUME StackRight, InsertName
    PROVE  StackRight'
<1> DEFINE d == net.names
           name == app.reply.name
           ip == app.reply.ip
           e == StoreName(d, d.free, name)
           m == [net EXCEPT !.names = StoreName(@, @.free, name)]
           b == [app EXCEPT !.pc = "dnsAddress", !.row = d.free]
<1>1. app.pc = "dnsName" /\ NotApp /\ net' = m /\ app' = b
  BY DEF InsertName
<1>2. app.pc \in ReplySteps \ {"dnsParse"}
  BY <1>1 DEF ReplySteps
<1>3. /\ NamesKept(d, app) /\ TableFormed(d) /\ d.busy /\ name \in Names
      /\ ip \in AnswerOf[name] /\ ip # NoAddress /\ ip \in Given /\ app.reply.id = app.id
      /\ DOMAIN net = NetFields /\ DOMAIN app = AppFields /\ app.pc \in ReplySteps
  BY <1>2, AtTable
<1>4. /\ TableFormed(e) /\ e.free = d.free /\ e.busy = d.busy /\ e.mixed = d.mixed
  BY <1>3 DEF StoreName, TableFormed
<1>5. /\ Changes(app, b, {"pc", "row"}) /\ b.pc = "dnsAddress" /\ b.row = d.free
      /\ b.reply = app.reply /\ b.asks = app.asks /\ b.result = app.result
  BY <1>3 DEF Changes, AppFields
<1>6. Changes(net, m, {"names"}) /\ m.names = e
  BY <1>3 DEF Changes, NetFields
<1>7. ~d.mixed => InOrder(d) /\ RowsOfName(d, name) = {} /\ Resolved(app)
  BY <1>1, <1>3 DEF NamesKept, Finished, Searched
<1> HIDE DEF b, m
<1>8. Finished(e, b) = NextRow(StoreAddress(e, d.free, ip), d.free)
  BY <1>5 DEF Finished
<1>9. ~d.mixed => InOrder(Finished(e, b))
  <2>1. ~d.mixed => Finished(e, b) = prvProcessDNSCache(d, name, ip)
    BY <1>3, <1>7, <1>8, ProcessFormed
  <2> QED
    BY <1>3, <1>7, <2>1, NamesStored
<1> HIDE DEF e
<1>10. NamesKept(m.names, b)
  <2>1. Searched(e, b) /\ (Resolved(app) => Resolved(b))
    BY <1>4, <1>5 DEF Searched, Resolved, InsertSteps
  <2> QED
    BY <1>3, <1>4, <1>5, <1>6, <1>7, <1>9, <2>1 DEF NamesKept
<1>11. b.pc \in ReplySteps \ {"dnsParse"}
  BY <1>5 DEF ReplySteps, InsertSteps
<1> QED
  BY <1>1, <1>3, <1>5, <1>6, <1>10, <1>11, TableMoves

\* Until the IP task has interfered, the index is what the application has read.
LEMMA InsertAddressKeeps ==
    ASSUME StackRight, NEW x, InsertAddress(x)
    PROVE  StackRight'
<1> DEFINE d == net.names
           ip == app.reply.ip
           e == StoreAddress(d, x, ip)
           m == [net EXCEPT !.names = StoreAddress(@, x, ip)]
           b == [app EXCEPT !.pc = "dnsIndex"]
<1>1. app.pc = "dnsAddress" /\ NotApp /\ net' = m /\ app' = b /\ x \in {app.row, d.free}
  BY DEF InsertAddress, Indices
<1>2. app.pc \in ReplySteps \ {"dnsParse"}
  BY <1>1 DEF ReplySteps, InsertSteps
<1>3. /\ NamesKept(d, app) /\ TableFormed(d) /\ d.busy /\ ip # NoAddress /\ ip \in Given
      /\ app.reply.id = app.id
      /\ DOMAIN net = NetFields /\ DOMAIN app = AppFields /\ app.pc \in ReplySteps
  BY <1>2, AtTable
<1>4. TableFormed(e) /\ e.free = d.free /\ e.busy = d.busy /\ e.mixed = d.mixed
  BY <1>3 DEF StoreAddress, TableFormed
<1>5. /\ Changes(app, b, {"pc", "row"}) /\ b.pc = "dnsIndex" /\ b.row = app.row
      /\ b.asks = app.asks /\ b.result = app.result
  BY <1>3 DEF Changes, AppFields
<1>6. Changes(net, m, {"names"}) /\ m.names = e
  BY <1>3 DEF Changes, NetFields
<1>7. ~d.mixed => /\ app.row = d.free /\ Resolved(app)
                  /\ InOrder(NextRow(StoreAddress(d, app.row, ip), app.row))
  BY <1>1, <1>3 DEF NamesKept, Finished, Searched, InsertSteps
<1> HIDE DEF b, m
<1>8. Finished(e, b) = NextRow(e, app.row)
  BY <1>5 DEF Finished
<1>9. ~d.mixed => x = app.row /\ InOrder(Finished(e, b))
  BY <1>1, <1>7, <1>8
<1> HIDE DEF e
<1>10. NamesKept(m.names, b)
  <2>1. (~d.mixed => Searched(e, b)) /\ (Resolved(app) => Resolved(b))
    BY <1>4, <1>5, <1>7 DEF Searched, Resolved, InsertSteps
  <2> QED
    BY <1>3, <1>4, <1>5, <1>6, <1>7, <1>9, <2>1 DEF NamesKept
<1>11. b.pc \in ReplySteps \ {"dnsParse"}
  BY <1>5 DEF ReplySteps, InsertSteps
<1> QED
  BY <1>1, <1>3, <1>5, <1>6, <1>10, <1>11, TableMoves

LEMMA MoveIndexKeeps ==
    ASSUME StackRight, NEW x, MoveIndex(x)
    PROVE  StackRight'
<1> DEFINE d == net.names
           e == [d EXCEPT !.free = x + 1]
           m == [net EXCEPT !.names.free = x + 1]
           b == [app EXCEPT !.pc = "dnsWrap", !.row = x + 1]
<1>1. app.pc = "dnsIndex" /\ NotApp /\ net' = m /\ app' = b /\ x \in {app.row, d.free}
  BY DEF MoveIndex, Indices
<1>2. app.pc \in ReplySteps \ {"dnsParse"}
  BY <1>1 DEF ReplySteps, InsertSteps
<1>3. /\ NamesKept(d, app) /\ TableFormed(d) /\ d.busy /\ app.reply.ip # NoAddress
      /\ app.reply.id = app.id
      /\ DOMAIN net = NetFields /\ DOMAIN app = AppFields /\ app.pc \in ReplySteps
  BY <1>2, AtTable
<1>4. TableFormed(e) /\ e.free = x + 1 /\ e.busy = d.busy /\ e.mixed = d.mixed
  BY <1>3 DEF TableFormed
<1>5. /\ Changes(app, b, {"pc", "row"}) /\ b.pc = "dnsWrap" /\ b.row = x + 1
      /\ b.asks = app.asks /\ b.result = app.result
  BY <1>3 DEF Changes, AppFields
<1>6. Changes(net, m, {"names"}) /\ m.names = e
  BY <1>3 DEF Changes, NetFields
<1>7. ~d.mixed => app.row = d.free /\ Resolved(app) /\ InOrder(NextRow(d, app.row))
  BY <1>1, <1>3 DEF NamesKept, Finished, Searched, InsertSteps
<1> HIDE DEF b, m
<1>8. Finished(e, b) = NextRow(d, x)
  BY <1>5 DEF Finished, NextRow
<1>9. ~d.mixed => InOrder(Finished(e, b))
  BY <1>1, <1>7, <1>8
<1> HIDE DEF e
<1>10. NamesKept(m.names, b)
  <2>1. Searched(e, b) /\ (Resolved(app) => Resolved(b))
    BY <1>4, <1>5 DEF Searched, Resolved, InsertSteps
  <2> QED
    BY <1>3, <1>4, <1>5, <1>6, <1>7, <1>9, <2>1 DEF NamesKept
<1>11. b.pc \in ReplySteps \ {"dnsParse"}
  BY <1>5 DEF ReplySteps, InsertSteps
<1> QED
  BY <1>1, <1>3, <1>5, <1>6, <1>10, <1>11, TableMoves

LEMMA TurnIndexKeeps ==
    ASSUME StackRight, NEW x, TurnIndex(x)
    PROVE  StackRight'
<1> DEFINE d == net.names
           e == WrapIndex(d, x)
<1>1. app.pc = "dnsWrap" /\ NotApp /\ x \in {app.row, d.free} /\ TableDone(e)
  BY DEF TurnIndex, Indices
<1>2. app.pc \in ReplySteps \ {"dnsParse"}
  BY <1>1 DEF ReplySteps, InsertSteps
<1>3. NamesKept(d, app) /\ TableFormed(d)
  BY <1>2, AtTable
<1>4. TableFormed(e) /\ e.mixed = d.mixed
  BY <1>3, StoresFormed
<1>5. ~d.mixed => app.row = d.free /\ InOrder(WrapIndex(d, app.row))
  BY <1>1, <1>3 DEF NamesKept, Finished, Searched, InsertSteps
<1>6. ~d.mixed => InOrder(e)
  BY <1>1, <1>5
<1> HIDE DEF e
<1> QED
  BY <1>1, <1>2, <1>4, <1>6, TableDoneKeeps

-----------------------------------------------------------------------------
(* Frames come in.                                                         *)

LEMMA PacketIs ==
    ASSUME NEW type, NEW h, NEW mac, NEW dmac, NEW dip, NEW sport, NEW dport, NEW body,
           NEW f, f = Packet(type, h, mac, dmac, dip, sport, dport, body)
    PROVE  /\ "type" \in DOMAIN f /\ f.type = type /\ f.smac = mac /\ f.sip = h
           /\ f.sport = sport /\ f.dport = dport /\ f.body = body
BY DEF Packet

\* The frames that do not answer DHCP or DNS.
LEMMA FramesAre ==
    ASSUME NEW h, NEW mac
    PROVE  /\ \A f \in Frames("arp request", h, mac) :
                f = ArpFrame("request", MacBroadcast, mac, h, net.ip)
           /\ \A f \in Frames("gratuitous", h, mac) :
                \E op \in {"request", "reply"} : f = ArpFrame(op, MacBroadcast, mac, h, h)
           /\ \A f \in Frames("data", h, mac) :
                \E port \in {UserPort, UserPort + 1} :
                    f = Packet("udp", h, mac, MyMac, net.ip, UserPort, port, "data")
           /\ \A f \in Frames("other", h, mac) :
                f = Packet("udp", h, mac, mac, h, UserPort, UserPort, "data")
           /\ \A f \in Frames("ping", h, mac) :
                f = Packet("icmp", h, mac, MyMac, net.ip, NoPort, NoPort, "echo request")
           /\ \A f \in Frames("echo", h, mac) :
                \E dip : f = Packet("icmp", h, mac, MyMac, dip, NoPort, NoPort, "echo reply")
<1>1. ASSUME NEW f \in Frames("arp request", h, mac)
      PROVE  f = ArpFrame("request", MacBroadcast, mac, h, net.ip)
  BY DEF Frames
<1>2. ASSUME NEW f \in Frames("gratuitous", h, mac)
      PROVE  \E op \in {"request", "reply"} : f = ArpFrame(op, MacBroadcast, mac, h, h)
  BY DEF Frames
<1>3. ASSUME NEW f \in Frames("data", h, mac)
      PROVE  \E port \in {UserPort, UserPort + 1} :
               f = Packet("udp", h, mac, MyMac, net.ip, UserPort, port, "data")
  BY DEF Frames
<1>4. ASSUME NEW f \in Frames("other", h, mac)
      PROVE  f = Packet("udp", h, mac, mac, h, UserPort, UserPort, "data")
  BY DEF Frames
<1> DEFINE ping == Packet("icmp", h, mac, MyMac, net.ip, NoPort, NoPort, "echo request")
           echoes == {Packet("icmp", h, mac, MyMac, x.sip, NoPort, NoPort, "echo reply") :
                        x \in {y \in Pinged : y.dip = h}}
<1>5. Frames("ping", h, mac) = {ping}
  BY DEF Frames
<1>6. Frames("echo", h, mac) = echoes
  BY DEF Frames
<1>7. ASSUME NEW f \in Frames("ping", h, mac)
      PROVE  f = Packet("icmp", h, mac, MyMac, net.ip, NoPort, NoPort, "echo request")
  BY <1>5
<1>8. ASSUME NEW f \in Frames("echo", h, mac)
      PROVE  \E dip : f = Packet("icmp", h, mac, MyMac, dip, NoPort, NoPort, "echo reply")
  BY <1>6
<1> QED
  BY <1>1, <1>2, <1>3, <1>4, <1>7, <1>8

LEMMA ArpReplyIs ==
    ASSUME NEW h, NEW mac, NEW f \in Frames("arp reply", h, mac)
    PROVE  "type" \in DOMAIN f /\ f.type = "arp" /\ f.op = "reply" /\ f.smac = mac /\ f.sip = h
<1>1. PICK tip : f = ArpFrame("reply", MyMac, mac, h, tip)
  BY DEF Frames
<1> QED
  BY <1>1 DEF ArpFrame

\* What the servers and the other hosts send is what FrameRight says.
LEMMA FramesRight ==
    ASSUME StackRight, NEW kind \in FrameKinds, NEW h \in Senders(kind), NEW mac \in Macs[h],
           NEW f \in Frames(kind, h, mac)
    PROVE  FrameRight(f, net.out, app)
<1>1. h \in Others /\ mac # NoMac /\ h # NoAddress
  BY IpAssumption, ArpAssumption DEF Senders, Others
<1>2. OutRight(net.out, app)
  BY DEF StackRight, Sound
<1>3. CASE kind \in {"offer", "ack", "nack"}
  <2>1. \E x, i, o : /\ f = DhcpReply(h, mac, kind, x.body.xid, i, o)
                     /\ kind = "offer" => i \in Pool[h]
                     /\ kind = "ack" => x \in RequestsTo(h) /\ i = x.body.ip
    <3>1. CASE kind = "offer"
      <4>1. f \in {DhcpReply(h, mac, "offer", x.body.xid, i, o) :
                     x \in DhcpSent(net, "discover"), i \in Pool[h], o \in Options[h]}
        BY <3>1 DEF Frames
      <4> QED
        BY <3>1, <4>1
    <3>2. CASE kind = "ack"
      <4>1. f \in {DhcpReply(h, mac, "ack", x.body.xid, x.body.ip, o) :
                     x \in RequestsTo(h), o \in Options[h]}
        BY <3>2 DEF Frames
      <4> QED
        BY <3>2, <4>1
    <3>3. CASE kind = "nack"
      <4>1. f \in {DhcpReply(h, mac, "nack", x.body.xid, x.body.ip, {}) : x \in RequestsTo(h)}
        BY <3>3 DEF Frames
      <4> QED
        BY <3>3, <4>1
    <3> QED
      BY <1>3, <3>1, <3>2, <3>3
  <2>2. PICK q, ip, o : /\ f = DhcpReply(h, mac, kind, q.body.xid, ip, o)
                        /\ kind = "offer" => ip \in Pool[h]
                        /\ kind = "ack" => q \in RequestsTo(h) /\ ip = q.body.ip
    BY <2>1
  <2> DEFINE told(option) == IF option \in o THEN h ELSE NoAddress
             b == [op |-> kind, xid |-> q.body.xid, mac |-> MyMac, ip |-> ip, server |-> h,
                   gateway |-> told("gateway"), dns |-> told("dns")]
  <2>3. f = Packet("udp", h, mac, MacBroadcast, Broadcast, ServerPort, DhcpPort, b)
    BY <2>2 DEF DhcpReply
  <2>4. /\ b.op = kind /\ b.xid = q.body.xid /\ b.ip = ip /\ b.server = h
        /\ {b.gateway, b.dns} \subseteq {h, NoAddress}
    OBVIOUS
  <2> HIDE DEF b
  <2>5. /\ "type" \in DOMAIN f /\ f.type = "udp" /\ f.smac = mac /\ f.sip = h
        /\ f.sport = ServerPort /\ f.dport = DhcpPort /\ f.body = b
    BY <2>3, PacketIs
  <2>6. Granted(b, net.out)
    <3>1. ASSUME kind = "ack"
          PROVE  /\ q \in net.out /\ q.type = "udp" /\ q.dport = ServerPort
                 /\ q.body.op = "request" /\ q.body.xid = b.xid /\ q.body.ip = b.ip
                 /\ q.body.server = b.server
      BY <2>2, <2>4, <3>1 DEF RequestsTo, DhcpSent, SentTo
    <3>2. h \in Servers
      BY <1>3 DEF Senders
    <3> QED
      BY <2>2, <2>4, <3>1, <3>2 DEF Granted
  <2> QED
    BY <1>1, <2>5, <2>6 DEF FrameRight
<1>4. CASE kind \in {"arp request", "gratuitous"}
  <2>1. \E op \in {"request", "reply"} : \E dmac, tip : f = ArpFrame(op, dmac, mac, h, tip)
    <3>1. CASE kind = "arp request"
      <4>1. f \in Frames("arp request", h, mac)
        BY <3>1
      <4>2. f = ArpFrame("request", MacBroadcast, mac, h, net.ip)
        BY <4>1, FramesAre
      <4> QED
        BY <4>2
    <3>2. CASE kind = "gratuitous"
      <4>1. f \in Frames("gratuitous", h, mac)
        BY <3>2
      <4>2. \E op \in {"request", "reply"} : f = ArpFrame(op, MacBroadcast, mac, h, h)
        BY <4>1, FramesAre
      <4> QED
        BY <4>2
    <3> QED
      BY <1>4, <3>1, <3>2
  <2>2. PICK op \in {"request", "reply"} : \E dmac, tip : f = ArpFrame(op, dmac, mac, h, tip)
    BY <2>1
  <2>3. /\ "type" \in DOMAIN f /\ f.type = "arp" /\ f.op = op /\ f.smac = mac /\ f.sip = h
    BY <2>2 DEF ArpFrame
  <2> QED
    BY <1>1, <2>3 DEF FrameRight
<1>5. CASE kind = "dns"
  <2>1. PICK q \in SentTo(net, DnsPort) : \E ip \in AnswerOf[q.body.name] :
              f = DnsReply(h, mac, q, ip)
    BY <1>5 DEF Frames
  <2>2. PICK ip \in AnswerOf[q.body.name] : f = DnsReply(h, mac, q, ip)
    BY <2>1
  <2>3. q.sport \in Private /\ Asked(q.body, app)
    BY <1>2, <2>1 DEF OutRight, Question, SentTo
  <2> DEFINE b == [id |-> q.body.id, name |-> q.body.name, ip |-> ip]
  <2>4. f = Packet("udp", h, mac, MyMac, q.sip, DnsPort, q.sport, b)
    BY <2>2 DEF DnsReply
  <2>5. b.id = q.body.id /\ b.name = q.body.name /\ b.ip = ip
    OBVIOUS
  <2> HIDE DEF b
  <2>6. /\ "type" \in DOMAIN f /\ f.type = "udp" /\ f.smac = mac /\ f.sip = h
        /\ f.sport = DnsPort /\ f.dport = q.sport /\ f.body = b
    BY <2>4, PacketIs
  <2>7. Answer(b, app)
    BY <2>2, <2>3, <2>5 DEF Answer, Asked
  <2> QED
    BY <1>1, <2>3, <2>6, <2>7 DEF FrameRight
<1>6. CASE kind \in {"data", "other"}
  <2>1. \E port \in {UserPort, UserPort + 1} : \E dmac, dip :
              f = Packet("udp", h, mac, dmac, dip, UserPort, port, "data")
    <3>1. CASE kind = "data"
      <4>1. f \in Frames("data", h, mac)
        BY <3>1
      <4>2. \E port \in {UserPort, UserPort + 1} :
              f = Packet("udp", h, mac, MyMac, net.ip, UserPort, port, "data")
        BY <4>1, FramesAre
      <4> QED
        BY <4>2
    <3>2. CASE kind = "other"
      <4>1. f \in Frames("other", h, mac)
        BY <3>2
      <4>2. f = Packet("udp", h, mac, mac, h, UserPort, UserPort, "data")
        BY <4>1, FramesAre
      <4> QED
        BY <4>2
    <3> QED
      BY <1>6, <3>1, <3>2
  <2>2. PICK port \in {UserPort, UserPort + 1} : \E dmac, dip :
              f = Packet("udp", h, mac, dmac, dip, UserPort, port, "data")
    BY <2>1
  <2>3. /\ "type" \in DOMAIN f /\ f.type = "udp" /\ f.smac = mac /\ f.sip = h
        /\ f.sport = UserPort /\ f.dport = port
    BY <2>2, PacketIs
  <2> QED
    BY <1>1, <2>3 DEF FrameRight
<1>7. CASE kind \in {"ping", "echo"}
  <2>1. \E dip, body : f = Packet("icmp", h, mac, MyMac, dip, NoPort, NoPort, body)
    <3>1. CASE kind = "ping"
      <4>1. f \in Frames("ping", h, mac)
        BY <3>1
      <4>2. f = Packet("icmp", h, mac, MyMac, net.ip, NoPort, NoPort, "echo request")
        BY <4>1, FramesAre
      <4> QED
        BY <4>2
    <3>2. CASE kind = "echo"
      <4>1. f \in Frames("echo", h, mac)
        BY <3>2
      <4>2. \E dip : f = Packet("icmp", h, mac, MyMac, dip, NoPort, NoPort, "echo reply")
        BY <4>1, FramesAre
      <4> QED
        BY <4>2
    <3> QED
      BY <1>7, <3>1, <3>2
  <2>2. "type" \in DOMAIN f /\ f.type = "icmp" /\ f.smac = mac /\ f.sip = h
    BY <2>1, PacketIs
  <2> QED
    BY <1>1, <2>2 DEF FrameRight
<1>8. CASE kind = "arp reply"
  <2>1. f \in Frames("arp reply", h, mac)
    BY <1>8
  <2>2. "type" \in DOMAIN f /\ f.type = "arp" /\ f.op = "reply" /\ f.smac = mac /\ f.sip = h
    BY <2>1, ArpReplyIs
  <2> QED
    BY <1>1, <2>2 DEF FrameRight
<1> QED
  BY <1>3, <1>4, <1>5, <1>6, <1>7, <1>8 DEF FrameKinds

LEMMA ArrivesKeeps ==
    ASSUME StackRight, NEW frame, FrameRight(frame, net.out, app), Arrives(frame)
    PROVE  StackRight'
<1> DEFINE x == [type |-> "rx", frame |-> frame]
           sent == Sent(net, x)
           m == [sent EXCEPT !.free = @ - 1]
           h == EventHands(event) + AppHands(app)
<1>1. /\ plan' = plan /\ ipPc' = ipPc /\ event' = event /\ app' = app /\ heard' = heard
      /\ net.free > 0 /\ net' = m
  BY DEF Arrives, xSendEventStructToIPTask, Sent
<1>2. /\ Sound(net, heard, app, event, h) /\ DOMAIN net = NetFields /\ net.free \in Nat
      /\ h \in Nat
  BY AppAt DEF Sound, Formed, Counted
<1>3. x.type = "rx" /\ x.frame = frame
  OBVIOUS
<1> HIDE DEF x, h
<1>4. /\ DOMAIN sent = NetFields /\ Changes(net, sent, {"evq"}) /\ Keeps(net, sent)
      /\ sent.evq = Append(net.evq, x) /\ sent.free = net.free
  BY <1>2, SentIs
<1> HIDE DEF sent
<1>5. /\ Changes(sent, m, {"free"}) /\ Keeps(sent, m) /\ m.evq = sent.evq /\ m.out = sent.out
      /\ m.free = sent.free - 1
  BY <1>4 DEF Changes, NetFields, Keeps
<1> HIDE DEF m
<1>6. EventRight(x, net.out, app) /\ PendingFits(net, app, event, x) /\ EventHands(x) = 1
  BY <1>3 DEF EventRight, EventTypes, PendingFits, Pending, EventHands, HasBuffer
<1>7. /\ Changes(net, m, Flags \cup {"evq", "free"}) /\ m.evq = Append(net.evq, x)
      /\ Keeps(net, m)
  BY <1>4, <1>5, KeepsOn DEF Changes
<1>8. m.free \in Nat /\ m.free + h + EventHands(x) = net.free + h
  BY <1>1, <1>2, <1>4, <1>5, <1>6
<1>9. Sound(m, heard, app, event, h)
  BY <1>2, <1>6, <1>7, <1>8, PostedSound
<1>10. LeaseKept(m)
  BY <1>7, LeaseLater DEF StackRight
<1>11. InTurn(ipPc, event, m.out, app)
  <2>1. Recalls(app, app) /\ net.out \subseteq m.out
    BY <1>7, AppAt DEF Recalls, Keeps, AppRight
  <2> QED
    BY <2>1, InTurnLater DEF StackRight
<1>12. Sound(net', heard', app', event', EventHands(event') + AppHands(app'))
  BY <1>1, <1>9 DEF h
<1> QED
  BY <1>1, <1>10, <1>11, <1>12 DEF StackRight, AppRight, PlanRight, InTurn

-----------------------------------------------------------------------------
(* The start.                                                              *)

LEMMA AppStarts ==
    /\ AppRight(AppInit) /\ ~Resolving(AppInit) /\ Mine(AppInit) = {} /\ AppInit.pc = "idle"
    /\ \A i \in Slots : AppInit.slot[i] = NoSocket
    /\ AppHands(AppInit) = 0 /\ EventHands(NoEvent) = 0 /\ NoEvent.type = "none"
<1> DEFINE a == AppInit
<1>1. /\ DOMAIN a = AppFields /\ a.pc = "idle" /\ a.step = 1 /\ a.then = "idle" /\ a.id = 0
      /\ a.result = NoAddress /\ a.slot = [i \in Slots |-> NoSocket] /\ NoEvent.type = "none"
  BY DEF AppInit, AppFields, NoEvent
<1> HIDE DEF a
<1>2. DOMAIN a.slot = Slots /\ \A i \in Slots : a.slot[i] = NoSocket
  BY <1>1
<1>3. AppRight(a) /\ ~Resolving(a)
  BY <1>1, <1>2 DEF AppRight, Resolving, ReplySteps, InsertSteps
<1>4. Mine(a) = {}
  BY <1>2, <1>3 DEF Mine
<1>5. AppHands(a) = 0 /\ EventHands(NoEvent) = 0
  BY <1>1 DEF AppHands, EventHands, HasBuffer, ReplySteps, InsertSteps
<1> QED
  BY <1>1, <1>2, <1>3, <1>4, <1>5 DEF a

LEMMA NamesStart == NamesKept(xDNSCache, AppInit)
<1> DEFINE d == xDNSCache
           a == AppInit
<1>1. DnsEntries \in Nat \ {0} /\ DnsRows = 1 .. DnsEntries
  BY DnsAssumption DEF DnsRows
<1>2. /\ DOMAIN d = {"rows", "free", "busy", "mixed"} /\ d.free = 1 /\ DOMAIN d.rows = DnsRows
      /\ \A x \in DnsRows : /\ DOMAIN d.rows[x] = {"name", "ip"} /\ d.rows[x].name = NoName
                            /\ d.rows[x].ip = NoAnswer
  BY DEF xDNSCache
<1>3. a.pc = "idle" /\ a.result = NoAddress
  BY DEF AppInit
<1> HIDE DEF d, a
<1>4. TableFormed(d)
  BY <1>2, IpAssumption DEF TableFormed
<1>5. FilledUpTo(d, 0) /\ RowsRight(d)
  BY <1>1, <1>2 DEF FilledUpTo, RowsRight
<1>6. InOrder(d)
  <2>1. 0 \in 0 .. DnsEntries /\ 1 \in DnsRows
    BY <1>1
  <2> QED
    BY <1>2, <1>5, <2>1 DEF InOrder
<1>7. /\ Finished(d, a) = d /\ Searched(d, a) /\ Resolved(a)
      /\ a.pc \notin TableSteps \cup {"dnsRead"}
  BY <1>3 DEF Finished, Searched, Resolved, TableSteps, InsertSteps
<1>8. NamesKept(d, a)
  BY <1>4, <1>6, <1>7 DEF NamesKept
<1> QED
  BY <1>8 DEF d, a

\* Nothing is queued and no socket is open.
LEMMA NothingOpen ==
    ASSUME NEW socks, socks = [s \in Sockets |-> Closed]
    PROVE  /\ DOMAIN socks = Sockets /\ \A s \in Sockets : socks[s] = Closed
           /\ Waiting(socks) = {} /\ EventCount(<<>>) = 0
           /\ \A free \in Nat : free = Buffers => Counted(free, <<>>, socks, 0)
<1>1. DOMAIN socks = Sockets /\ \A s \in Sockets : socks[s] = Closed
  OBVIOUS
<1>2. \A s \in Sockets : DOMAIN socks[s].rx = {}
  <2>1. Closed.rx = <<>>
    BY DEF Closed
  <2>2. DOMAIN <<>> = {}
    OBVIOUS
  <2> QED
    BY <1>1, <2>1, <2>2
<1>3. Waiting(socks) = {}
  BY <1>2 DEF Waiting
<1>4. Holders(<<>>) = {}
  BY DEF Holders
<1>5. Cardinality({}) = 0 /\ IsFiniteSet({})
  BY FS_EmptySet
<1>6. EventCount(<<>>) = 0
  BY <1>4, <1>5, NothingQueued, HoldersFinite
<1>7. ASSUME NEW free \in Nat, free = Buffers
      PROVE  Counted(free, <<>>, socks, 0)
  <2>1. Cardinality(Waiting(socks)) = 0 /\ IsFiniteSet(Waiting(socks)) /\ 0 \in Nat
    BY <1>3, <1>5
  <2>2. free + EventCount(<<>>) + 0 + Cardinality(Waiting(socks)) = Buffers
    BY <1>6, <1>7, <2>1
  <2> QED
    BY <2>1, <2>2 DEF Counted
<1> QED
  BY <1>1, <1>3, <1>6, <1>7

LEMMA StackStarts ==
    ASSUME Init
    PROVE  StackRight
<1> DEFINE n == Starts[plan.start].net
           told == Starts[plan.start].heard
<1>1. /\ plan \in Plans /\ net = n /\ event = NoEvent /\ app = AppInit /\ heard = told
      /\ ipPc = Starts[plan.start].pc /\ plan.start \in DOMAIN Starts
  BY PlansAssumption DEF Init
<1>2. /\ DOMAIN n = DOMAIN NetInit /\ DOMAIN n.dhcp = DOMAIN DhcpInit
      /\ n.evq = <<>> /\ n.free = Buffers /\ n.nextPort \in 1 .. AutoPorts
      /\ n.socks = NetInit.socks /\ n.dhcp.sock = NoSocket
      /\ n.dhcp.state \notin {"WaitingOffer", "WaitingAcknowledge"}
      /\ ipPc \in {"start", "loop"}
      /\ n.names = xDNSCache /\ SentTo(n, DnsPort) = {}
      /\ DOMAIN n.arp = Rows /\ \A x \in Rows : DOMAIN n.arp[x] = DOMAIN EmptyRow
      /\ DOMAIN told = Others /\ ArpRight(n.arp, told)
      /\ LeaseRight(n) /\ {n.gateway, n.dns} \subseteq Servers \cup {NoAddress}
      /\ \A f \in DhcpSent(n, "request") : f.body.ip \in Pool[f.body.server]
  BY <1>1, StartsAssumption
<1> HIDE DEF n, told
<1>3. /\ DOMAIN NetInit = NetFields /\ DOMAIN DhcpInit = DhcpFields
      /\ DOMAIN EmptyRow = RowFields /\ NetInit.socks = [s \in Sockets |-> Closed]
  BY DEF NetInit, NetFields, DhcpInit, DhcpFields, EmptyRow, RowFields
<1>4. /\ DOMAIN n.socks = Sockets /\ \A s \in Sockets : n.socks[s] = Closed
      /\ \A free \in Nat : free = Buffers => Counted(free, <<>>, n.socks, 0)
  BY <1>2, <1>3, NothingOpen
<1>5. Formed(n)
  BY <1>2, <1>3, <1>4, ClosedIs, NothingQueued, StackAssumption DEF Formed
<1>6. ArpKept(n.arp, told) /\ NamesKept(n.names, AppInit)
  BY <1>2, <1>3, NamesStart DEF ArpKept
<1>7. OutRight(n.out, AppInit)
  BY <1>2 DEF OutRight, Question, DhcpSent, SentTo
<1>8. InboxRight(n.socks, n.out, AppInit)
  BY <1>4, ClosedIs DEF InboxRight
<1>9. Elems(n.evq) = {}
  BY <1>2, NothingQueued
<1>10. Closing(n.evq, NoEvent) = {}
  BY <1>9, AppStarts DEF Closing
<1>11. PendingOnce(n.evq, NoEvent)
  BY <1>2 DEF PendingOnce
<1>12. Owned(n.socks, n.dhcp.sock, n.evq, AppInit, NoEvent)
  BY <1>2, <1>10, <1>11, AppStarts, StackAssumption DEF Owned
<1>13. Binding(n.socks, n.evq, AppInit, NoEvent)
  BY <1>4, <1>9, AppStarts, ClosedIs DEF Binding
<1>14. PortsApart(n.socks) /\ DhcpBound(n.socks, n.dhcp.sock)
  BY <1>2, <1>4, ClosedIs DEF PortsApart, DhcpBound
<1>15. Counted(n.free, n.evq, n.socks, EventHands(NoEvent) + AppHands(AppInit))
  BY <1>2, <1>4, AppStarts, StackAssumption
<1>16. Sound(n, told, AppInit, NoEvent, EventHands(NoEvent) + AppHands(AppInit))
  BY <1>5, <1>6, <1>7, <1>8, <1>9, <1>12, <1>13, <1>14, <1>15 DEF Sound
<1>17. PlanRight(plan, AppInit)
  BY <1>1, AppStarts DEF PlanRight, Looking
<1>18. LeaseKept(n)
  BY <1>2 DEF LeaseKept, LeaseRight, Routed, Offered
<1>19. InTurn(ipPc, NoEvent, n.out, AppInit)
  BY <1>2 DEF InTurn
<1> QED
  BY <1>1, <1>16, <1>17, <1>18, <1>19, AppStarts DEF StackRight

-----------------------------------------------------------------------------
(* Every step.                                                             *)

LEMMA ApplicationKeeps ==
    ASSUME StackRight, Application
    PROVE  StackRight'
<1>1. CASE \E s \in Sockets \cup {NoSocket} : CallSocket(s) \/ prvCreateDNSSocket(s)
  BY <1>1, CallSocketKeeps, DnsSocketKeeps
<1>2. CASE \E op \in {"bind", "send", "recv", "close"} : CallRefused(op)
  BY <1>2, CallRefusedKeeps
<1>3. CASE CallBind \/ BindPosts \/ BindReturns
  BY <1>3, CallBindKeeps, BindPostsKeeps, BindReturnsKeeps
<1>4. CASE CallSend \/ CallPing \/ TakesBuffer \/ Posts
  BY <1>4, CallSendKeeps, CallPingKeeps, TakesBufferKeeps, PostsKeeps
<1>5. CASE CallRecv \/ Receives \/ \E bit \in BOOLEAN : RecvWakes(bit)
  BY <1>5, CallRecvKeeps, ReceivesKeeps, RecvWakesKeeps
<1>6. CASE CallClose \/ DnsClose
  BY <1>6, CallCloseKeeps, DnsCloseKeeps
<1>7. CASE CallLookup \/ FreeRTOS_dnslookup \/ prvGetHostByName \/ NextAttempt
  BY <1>7, CallLookupKeeps, DnslookupKeeps, GetHostByNameKeeps, NextAttemptKeeps
<1>8. CASE UpdateRow \/ InsertName
  BY <1>8, UpdateRowKeeps, InsertNameKeeps
<1>9. CASE \E x \in Indices : InsertAddress(x) \/ MoveIndex(x) \/ TurnIndex(x)
  BY <1>9, InsertAddressKeeps, MoveIndexKeeps, TurnIndexKeeps
<1> QED
  BY <1>1, <1>2, <1>3, <1>4, <1>5, <1>6, <1>7, <1>8, <1>9 DEF Application

LEMMA NetworkKeeps ==
    ASSUME StackRight, Network
    PROVE  StackRight'
<1>1. PICK kind \in plan.frames : \E h \in Senders(kind) : \E mac \in Macs[h] :
            \E frame \in Frames(kind, h, mac) : Arrives(frame)
  BY DEF Network
<1>2. PICK h \in Senders(kind) : \E mac \in Macs[h] :
            \E frame \in Frames(kind, h, mac) : Arrives(frame)
  BY <1>1
<1>3. PICK mac \in Macs[h] : \E frame \in Frames(kind, h, mac) : Arrives(frame)
  BY <1>2
<1>4. PICK frame \in Frames(kind, h, mac) : Arrives(frame)
  BY <1>3
<1>5. kind \in FrameKinds
  BY <1>1, PlansAssumption DEF StackRight, PlanRight
<1>6. FrameRight(frame, net.out, app)
  BY <1>2, <1>3, <1>4, <1>5, FramesRight
<1> QED
  BY <1>4, <1>6, ArrivesKeeps

LEMMA StackKeeps ==
    ASSUME StackRight, [Next]_vars
    PROVE  StackRight'
<1>1. CASE IpTask
  <2>1. CASE IpStarts
    BY <2>1, IpStartsKeeps
  <2>2. ASSUME NEW expired \in SUBSET {"arp", "dhcp"}, IpLoops(expired)
        PROVE  StackRight'
    BY <2>2, IpLoopsKeeps
  <2>3. ASSUME NEW c \in ChoicesNow, IpHandles(c)
        PROVE  StackRight'
    BY <2>3, IpHandlesKeeps
  <2> QED
    BY <1>1, <2>1, <2>2, <2>3 DEF IpTask
<1>2. CASE Application
  BY <1>2, ApplicationKeeps
<1>3. CASE Network
  BY <1>3, NetworkKeeps
<1>4. CASE UNCHANGED vars
  BY <1>4 DEF vars, StackRight
<1> QED
  BY <1>1, <1>2, <1>3, <1>4 DEF Next

\* The inductive invariant: what is on its way between the hosts, the IP task and
\* the application is what one of them sent, every buffer and every socket has
\* one owner, and the two caches and the DHCP client are in order.
THEOREM StackIsRight == Spec => []StackRight
<1>1. Init => StackRight
  BY StackStarts
<1>2. StackRight /\ [Next]_vars => StackRight'
  BY StackKeeps
<1> QED
  BY <1>1, <1>2, PTL DEF Spec

-----------------------------------------------------------------------------
(* What it says of the stack.                                              *)

LEMMA KeptByRight == StackRight => BuffersAndSocketsKept
<1> SUFFICES ASSUME StackRight
             PROVE  BuffersAndSocketsKept
  OBVIOUS
<1>1. Sound(net, heard, app, event, EventHands(event) + AppHands(app))
  BY DEF StackRight
<1>2. InEvents = EventCount(net.evq) /\ InSockets = Cardinality(Waiting(net.socks))
  BY DEF InEvents, EventCount, InSockets, Waiting
<1>3. InHands = EventHands(event) + AppHands(app)
  BY DEF InHands, EventHands, AppHands, ReplySteps, InsertSteps
<1>4. net.free + InEvents + InHands + InSockets = Buffers
  BY <1>1, <1>2, <1>3 DEF Sound, Counted
<1>5. \A s, t \in Sockets : net.socks[s].bound /\ net.socks[t].bound /\ s # t
                             => net.socks[s].port # net.socks[t].port
  BY <1>1 DEF Sound, PortsApart
<1>6. app.pc \in {"bindPost", "bindWait", "recv", "wait", "dnsRecv", "dnsWait", "dnsClose"}
      => net.socks[app.sock].used
  <2> SUFFICES ASSUME app.pc \in {"bindPost", "bindWait", "recv", "wait",
                                  "dnsRecv", "dnsWait", "dnsClose"}
               PROVE  net.socks[app.sock].used
    OBVIOUS
  <2>1. app.sock \in Mine(app)
    BY <1>1 DEF Sound, Binding, Mine, Resolving, ReplySteps, InsertSteps
  <2> QED
    BY <1>1, <2>1 DEF Sound, Owned
<1>7. net.dhcp.sock # NoSocket => net.socks[net.dhcp.sock].port = DhcpPort
  BY <1>1 DEF Sound, DhcpBound
<1> QED
  BY <1>4, <1>5, <1>6, <1>7 DEF BuffersAndSocketsKept

\* Whatever fails on its way, a queue that is full, a frame nobody wants, a socket
\* closed with packets in it: every network buffer is in one place.  No port has two
\* sockets, and no call waits for a socket that is closed.
THEOREM BuffersAndSocketsAreKept == Spec => []BuffersAndSocketsKept
BY StackIsRight, KeptByRight, PTL

LEMMA CachesByRight == StackRight => CachesRight
<1> SUFFICES ASSUME StackRight
             PROVE  CachesRight
  OBVIOUS
<1> DEFINE d == net.names
           e == Finished(d, app)
<1>1. ArpRight(net.arp, heard) /\ NamesKept(d, app) /\ AppRight(app)
  BY DEF StackRight, Sound, ArpKept
<1>2. TableFormed(d) /\ \A x \in DnsRows : d.rows[x].ip \in Given \cup {NoAddress}
  BY <1>1 DEF NamesKept, TableFormed
<1>3. app.result \in Given \cup {NoAddress}
  BY <1>1 DEF AppRight
<1>4. ASSUME ~d.mixed
      PROVE  NamesRight
  <2>1. RowsRight(e) /\ Resolved(app)
    BY <1>1, <1>4 DEF NamesKept, InOrder
  <2>2. \A x \in DnsRows :
           /\ e.rows[x].name = d.rows[x].name
           /\ e.rows[x].ip = d.rows[x].ip \/ (app.pc = "dnsAddress" /\ x = app.row)
    BY <1>2 DEF Finished, NextRow, WrapIndex, StoreAddress, TableFormed
  <2> HIDE DEF e
  <2> QED
    BY <2>1, <2>2 DEF NamesRight, RowsRight, Resolved
<1> QED
  BY <1>1, <1>2, <1>3, <1>4 DEF CachesRight

\* vARPRefreshCacheEntry and the ageing of the cache leave an address one row at most,
\* and a valid row the hardware address last heard.  prvProcessDNSCache puts no
\* address into its table that no name server gave, whatever the IP task and the
\* application do to the table at once; and until the IP task has changed it within
\* a call of the application, no name is down twice, and a row and the result of a
\* look-up have an address of a name that begins alike.
THEOREM CachesAreRight == Spec => []CachesRight
BY StackIsRight, CachesByRight, PTL

LEMMA LeaseByRight == StackRight => LeaseIsOurs
BY DEF StackRight, LeaseKept, LeaseIsOurs

\* vDHCPProcess: while a lease is held, the address is one the chosen server gives
\* out and was asked for in the current transaction, whatever replies came in
\* between.  The gateway and the name server are some server's, or none: every
\* reply's options take effect before it is known whether the reply counts.
THEOREM LeaseIsAlwaysOurs == Spec => []LeaseIsOurs
BY StackIsRight, LeaseByRight, PTL
=============================================================================
