------------------------------- MODULE IpArp -------------------------------
(***************************************************************************)
(* FreeRTOS_ARP.c: the cache of hardware addresses, as operators on the    *)
(* cache c, a function from its rows to records.  "local" is               *)
(* *ipLOCAL_IP_ADDRESS_POINTER.  An address is a value that is on the      *)
(* link or not, in place of the comparison under the netmask.              *)
(***************************************************************************)
EXTENDS Naturals, FiniteSets, FiniteSetsExt

CONSTANTS NoAddress,       \* 0.0.0.0
          Broadcast,       \* 255.255.255.255, and the broadcast address of the link
          OnLink,          \* the addresses of the link
          NoMac,           \* six zeroes; as an argument, NULL
          MyMac, MacBroadcast,
          CacheEntries,    \* ipconfigARP_CACHE_ENTRIES
          MaxAge,          \* ipconfigMAX_ARP_AGE
          MaxRetransmissions, \* ipconfigMAX_ARP_RETRANSMISSIONS
          RequestAge       \* arpMAX_ARP_AGE_BEFORE_NEW_ARP_REQUEST

ASSUME ArpAssumption ==
    /\ CacheEntries \in Nat \ {0}
    /\ MaxAge \in 1 .. 254 /\ MaxRetransmissions \in 1 .. 254
    /\ NoAddress \notin OnLink /\ Broadcast \notin OnLink

Rows == 1 .. CacheEntries
EmptyRow == [ip |-> NoAddress, mac |-> NoMac, age |-> 0, valid |-> FALSE]

FreeRTOS_ClearARP == [x \in Rows |-> EmptyRow]

\* The first of the rows whose age is the lowest; the first row if there are none.
Oldest(c, rows) ==
    LET lowest == {x \in rows : \A y \in rows : c[x].age <= c[y].age}
    IN IF rows = {} THEN 1 ELSE Min(lowest)

\* Mutant: a row that changes hands leaves the address's old row alone.
RefreshKeepsOld(c, local, mac, ip) ==
    LET rowsOfIp == {x \in Rows : c[x].ip = ip}
        rowsOfMac == {x \in Rows : mac # NoMac /\ c[x].mac = mac}
        oldest == Oldest(c, Rows \ (rowsOfIp \cup rowsOfMac))
        use == IF rowsOfMac # {} THEN Max(rowsOfMac)
               ELSE IF rowsOfIp # {} THEN Max(rowsOfIp) ELSE oldest
    IN IF ip \notin OnLink /\ local # NoAddress THEN c
       ELSE IF mac # NoMac
       THEN [c EXCEPT ![use] = [ip |-> ip, mac |-> mac, age |-> MaxAge, valid |-> TRUE]]
       ELSE IF rowsOfIp # {} THEN c
       ELSE [c EXCEPT ![oldest] = [@ EXCEPT !.ip = ip, !.age = MaxRetransmissions, !.valid = FALSE]]

\* Someone at mac was heard as ip; or, without mac, ip is about to be asked for.
vARPRefreshCacheEntry(c, local, mac, ip) ==
    LET same == {x \in Rows : mac # NoMac /\ c[x].ip = ip /\ c[x].mac = mac}
        rowsOfIp == {x \in Rows : c[x].ip = ip}
        rowsOfMac == {x \in Rows : mac # NoMac /\ c[x].ip # ip /\ c[x].mac = mac}
        oldest == Oldest(c, Rows \ (rowsOfIp \cup rowsOfMac))
        use == IF rowsOfMac # {} THEN Max(rowsOfMac)
               ELSE IF rowsOfIp # {} THEN Max(rowsOfIp) ELSE oldest
        cleared == IF rowsOfMac # {} /\ rowsOfIp # {}
                   THEN [c EXCEPT ![Max(rowsOfIp)] = EmptyRow] ELSE c
    IN IF ip \notin OnLink /\ local # NoAddress THEN c
       ELSE IF same # {}
       THEN [c EXCEPT ![Min(same)].age = MaxAge, ![Min(same)].valid = TRUE]
       ELSE IF mac # NoMac
       THEN [cleared EXCEPT ![use] = [ip |-> ip, mac |-> mac, age |-> MaxAge, valid |-> TRUE]]
       ELSE IF rowsOfIp # {} THEN c
       ELSE [c EXCEPT ![oldest] = [@ EXCEPT !.ip = ip, !.age = MaxRetransmissions, !.valid = FALSE]]

\* A row without a valid hardware address is one that was asked for.
prvCacheLookup(c, ip) ==
    LET rows == {x \in Rows : c[x].ip = ip}
        x == Min(rows)
    IN IF rows = {} THEN [result |-> "miss", mac |-> NoMac, ip |-> ip]
       ELSE IF ~c[x].valid THEN [result |-> "cannot", mac |-> NoMac, ip |-> ip]
       ELSE [result |-> "hit", mac |-> c[x].mac, ip |-> ip]

\* What is not on the link goes to the gateway.
eARPGetCacheEntry(c, local, gateway, ip) ==
    LET next == IF ip \in OnLink THEN ip ELSE gateway
    IN IF ip = Broadcast THEN [result |-> "hit", mac |-> MacBroadcast, ip |-> ip]
       ELSE IF local = NoAddress \/ next = NoAddress
       THEN [result |-> "cannot", mac |-> NoMac, ip |-> ip]
       ELSE prvCacheLookup(c, next)

vARPGenerateRequestPacket(local, ip) ==
    [type |-> "arp", op |-> "request", dmac |-> MacBroadcast, smac |-> MyMac,
     sip |-> local, tip |-> ip]

\* A reply is sent back where the request came from; to a gratuitous one, to all.
ArpReply(local, frame) ==
    [type |-> "arp", op |-> "reply", smac |-> MyMac, sip |-> local,
     dmac |-> IF frame.tip = frame.sip THEN MacBroadcast ELSE frame.smac,
     tip |-> IF frame.tip = frame.sip THEN NoAddress ELSE frame.sip]

\* The cache after an ARP frame, and the frame to send back.
eARPProcessPacket(c, local, frame) ==
    LET heard == vARPRefreshCacheEntry(c, local, frame.smac, frame.sip)
    IN IF local = NoAddress THEN [arp |-> c, out |-> {}]
       ELSE IF frame.op = "request" /\ frame.tip = local
       THEN [arp |-> heard, out |-> {ArpReply(local, frame)}]
       ELSE IF frame.op = "reply" THEN [arp |-> heard, out |-> {}]
       ELSE [arp |-> c, out |-> {}]

\* Every row in use ages; the nearly expired and the unanswered are asked for.
\* A row that expires loses its address and keeps the rest.
vARPAgeCache(c, local) ==
    LET aged(x) == IF c[x].age = 0 THEN c[x]
                   ELSE IF c[x].age = 1 THEN [c[x] EXCEPT !.age = 0, !.ip = NoAddress]
                   ELSE [c[x] EXCEPT !.age = @ - 1]
        asked == {x \in Rows : c[x].age > 0 /\ (~c[x].valid \/ c[x].age - 1 <= RequestAge)}
    IN [arp |-> [x \in Rows |-> aged(x)],
        out |-> {vARPGenerateRequestPacket(local, c[x].ip) : x \in asked}]
=============================================================================
