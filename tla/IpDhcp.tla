------------------------------ MODULE IpDhcp ------------------------------
(***************************************************************************)
(* FreeRTOS_DHCP.c: the state machine in n.dhcp, as operators on the state *)
(* of the stack.  ipconfigUSE_DHCP_HOOK and ipconfigDHCP_FALL_BACK_AUTO_IP *)
(* are 0.  Times are abstracted: "late" says that more than xDHCPTxPeriod  *)
(* has passed since the last transmission; the period itself is kept, in   *)
(* units of dhcpINITIAL_DHCP_TX_PERIOD.                                    *)
(***************************************************************************)
EXTENDS IpStack

CONSTANTS MaxPeriod   \* ipconfigMAXIMUM_DISCOVER_TX_PERIOD, in the same units

ASSUME DhcpAssumption == MaxPeriod \in Nat \ {0}

DhcpInit == [state |-> "FirstDiscover", xid |-> 0, offered |-> NoAddress,
             server |-> NoAddress, period |-> 1, sock |-> NoSocket]

ServerPort == DhcpPort + 1

DhcpMessage(n, op) ==
    [op |-> op, xid |-> n.dhcp.xid, mac |-> MyMac,
     ip |-> IF op = "request" THEN n.dhcp.offered ELSE NoAddress,
     server |-> IF op = "request" THEN n.dhcp.server ELSE NoAddress]

\* The IP task spins until it has a buffer: n.blocked holds the whole step up.
\* An event queue that is full makes FreeRTOS_sendto fail, and the buffer goes back.
SendDhcp(n, op) ==
    LET packet == [type |-> "udp", dip |-> Broadcast, sport |-> DhcpPort, dport |-> ServerPort,
                   body |-> DhcpMessage(n, op)]
        event == [type |-> "tx", packet |-> packet]
    IN IF n.free = 0 THEN [n EXCEPT !.blocked = TRUE]
       ELSE IF CanPost(n, event)
       THEN [xSendEventStructToIPTask(n, event) EXCEPT !.free = @ - 1]
       ELSE n

prvSendDHCPDiscover(n) == SendDhcp(n, "discover")
prvSendDHCPRequest(n) == SendDhcp(n, "request")

\* "s" is what FreeRTOS_socket returns.  Without blocking, bound to the client's port.
prvCreateDHCPSocket(n, s) ==
    LET bound == vSocketBind(FreeRTOS_socket(n, s), s, DhcpPort)
    IN IF n.dhcp.sock # NoSocket \/ s = NoSocket THEN n
       ELSE IF bound.socks[s].bound THEN [bound EXCEPT !.dhcp.sock = s]
       ELSE vSocketClose(bound, s)

prvInitialiseDHCP(n, s) ==
    LET fresh == [n EXCEPT !.dhcp.xid = @ + 1, !.dhcp.offered = NoAddress,
                           !.dhcp.server = NoAddress, !.dhcp.period = 1]
    IN vIPReloadDHCPTimer(prvCreateDHCPSocket(fresh, s))

CloseDhcpSocket(n) == [vSocketClose(n, n.dhcp.sock) EXCEPT !.dhcp.sock = NoSocket]

\* Mutant: the transaction is not compared.
IsOursWhenMac(n, m) == m.mac = MyMac

IsOurs(n, m) == m.mac = MyMac /\ m.xid = n.dhcp.xid

\* The options of a reply take effect one by one, before it is known whether
\* the reply is the one expected; the server's address is stored from an offer
\* and compared in an acknowledgement.
DhcpOptions(n, m, expected) ==
    [n EXCEPT !.gateway = IF m.gateway = NoAddress THEN @ ELSE m.gateway,
              !.dns = IF m.dns = NoAddress THEN @ ELSE m.dns,
              !.dhcp.server = IF expected = "offer" THEN m.server ELSE @,
              !.dhcp.state = IF m.op = "nack" /\ expected = "ack" THEN "FirstDiscover" ELSE @]

\* One packet a call, when there is one; "ok": it was the reply expected.
prvProcessDHCPReplies(n, expected) ==
    LET s == n.dhcp.sock
        m == Head(n.socks[s].rx).body
        taken == Release(TakePacket(n, s))
        read == DhcpOptions(taken, m, expected)
    IN IF n.socks[s].rx = <<>> THEN [net |-> n, ok |-> FALSE]
       ELSE IF ~IsOurs(n, m) THEN [net |-> taken, ok |-> FALSE]
       ELSE IF m.op = expected /\ (expected = "ack" => m.server = n.dhcp.server)
       THEN [net |-> [read EXCEPT !.dhcp.offered = m.ip], ok |-> TRUE]
       ELSE [net |-> read, ok |-> FALSE]

-----------------------------------------------------------------------------
(* vDHCPProcess, one operator for each state.                              *)

\* The address the program was built with; xNetworkAddressing keeps the rest.
GivingUp(n) ==
    LET default == [n EXCEPT !.ip = DefaultAddress, !.dhcp.state = "NotUsingLeasedAddress"]
        up == vIPNetworkUpCalls(vIPSetDHCPTimerEnableState(default, FALSE))
    IN IF n.dhcp.sock = NoSocket THEN up ELSE CloseDhcpSocket(up)

WaitingSendFirstDiscover(n, s) ==
    LET started == prvInitialiseDHCP(n, s)
    IN IF started.dhcp.sock = NoSocket THEN GivingUp(started)
       ELSE [prvSendDHCPDiscover([started EXCEPT !.ip = NoAddress])
               EXCEPT !.dhcp.state = "WaitingOffer"]

WaitingOffer(n, late) ==
    LET reply == prvProcessDHCPReplies(n, "offer")
        tried == [reply.net EXCEPT !.dhcp.period = 2 * @]
    IN IF reply.ok
       THEN [prvSendDHCPRequest([reply.net EXCEPT !.dhcp.period = 1])
               EXCEPT !.dhcp.state = "WaitingAcknowledge"]
       ELSE IF ~late THEN reply.net
       ELSE IF tried.dhcp.period <= MaxPeriod
       THEN prvSendDHCPDiscover([tried EXCEPT !.dhcp.xid = @ + 1])
       ELSE GivingUp(tried)

\* The address is used from here on; the lease's timer starts its renewal.
Leased(n) ==
    LET up == vIPNetworkUpCalls([n EXCEPT !.ip = n.dhcp.offered, !.dhcp.state = "LeasedAddress"])
    IN vIPReloadDHCPTimer(vARPSendGratuitous(CloseDhcpSocket(up)))

WaitingAcknowledge(n, late) ==
    LET reply == prvProcessDHCPReplies(n, "ack")
        tried == [reply.net EXCEPT !.dhcp.period = 2 * @]
    IN IF reply.ok THEN Leased(reply.net)
       ELSE IF ~late THEN reply.net
       ELSE IF tried.dhcp.period <= MaxPeriod THEN prvSendDHCPRequest(tried)
       ELSE [tried EXCEPT !.dhcp.state = "FirstDiscover"]

\* Renewal: the same request, in the same transaction.
LeasedAddress(n, s) ==
    LET opened == prvCreateDHCPSocket(n, s)
        asked == prvSendDHCPRequest([opened EXCEPT !.dhcp.period = 1])
    IN IF opened.dhcp.sock = NoSocket THEN opened
       ELSE vIPReloadDHCPTimer([asked EXCEPT !.dhcp.state = "WaitingAcknowledge"])

vDHCPProcess(n, reset, late, s) ==
    LET state == IF reset THEN "FirstDiscover" ELSE n.dhcp.state
    IN CASE state = "FirstDiscover" -> WaitingSendFirstDiscover(n, s)
         [] state = "WaitingOffer" -> WaitingOffer(n, late)
         [] state = "WaitingAcknowledge" -> WaitingAcknowledge(n, late)
         [] state = "LeasedAddress" -> LeasedAddress(n, s)
         [] OTHER -> vIPSetDHCPTimerEnableState(n, FALSE)

(***************************************************************************)
(* prvProcessNetworkDownEvent.  "initialised" is the result of             *)
(* xNetworkInterfaceInitialise.                                            *)
(***************************************************************************)
prvProcessNetworkDownEvent(n, initialised, s) ==
    LET down == [n EXCEPT !.up = FALSE, !.arpTimer = FALSE]
    IN IF initialised THEN xSendEventToIPTask(vDHCPProcess(down, TRUE, FALSE, s), "dhcp")
       ELSE FreeRTOS_NetworkDown(down)
=============================================================================
