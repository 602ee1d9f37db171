------------------------------- MODULE IpDns -------------------------------
(***************************************************************************)
(* FreeRTOS_DNS.c: the table of names that were resolved.  The table is    *)
(* d.rows, filled from its first row; d.free is xFreeEntry, the row the    *)
(* next new name takes.  Of a name the table keeps and compares a prefix,  *)
(* Kept[name]: names that begin alike are one name to it.  A reply carries *)
(* the identifier and the name of its question and the address of its      *)
(* first A record, or none.                                                *)
(*                                                                         *)
(* prvProcessDNSCache takes no lock: its search of the table and each of   *)
(* its writes, of the name, the address and the index, is an operator      *)
(* here.  The application makes them one by one, and the IP task, which    *)
(* has the higher priority, makes its own without a break, between any     *)
(* two of the application's.  d.busy says that the application is in the   *)
(* function; d.mixed, a history, that the IP task changed the table        *)
(* meanwhile.                                                              *)
(***************************************************************************)
EXTENDS Naturals, FiniteSets, FiniteSetsExt

CONSTANTS NoName,        \* an empty row
          NoAnswer,      \* no address
          Kept,          \* Kept[name]: its first ipconfigDNS_CACHE_NAME_LENGTH characters
          DnsEntries     \* ipconfigDNS_CACHE_ENTRIES

ASSUME DnsAssumption == DnsEntries \in Nat \ {0}

DnsRows == 1 .. DnsEntries
xDNSCache == [rows |-> [x \in DnsRows |-> [name |-> NoName, ip |-> NoAnswer]], free |-> 1,
              busy |-> FALSE, mixed |-> FALSE]

\* The row of a name; the search ends at the first empty row.
RowsOfName(d, name) ==
    {x \in DnsRows : d.rows[x].name = Kept[name] /\ \A y \in 1 .. x : d.rows[y].name # NoName}

\* An index that is no row's names memory behind the table.
StoreName(d, x, name) == IF x \in DnsRows THEN [d EXCEPT !.rows[x].name = Kept[name]] ELSE d
StoreAddress(d, x, ip) == IF x \in DnsRows THEN [d EXCEPT !.rows[x].ip = ip] ELSE d

\* The index i is back at the first row only when it is just past the last.
WrapIndex(d, i) == IF i = DnsEntries + 1 THEN [d EXCEPT !.free = 1] ELSE d

\* A known name gets the new address; a new name takes the place of the oldest.
prvProcessDNSCache(d, name, ip) ==
    LET rows == RowsOfName(d, name)
        stored == StoreAddress(StoreName(d, d.free, name), d.free, ip)
    IN IF rows # {} THEN StoreAddress(d, Min(rows), ip)
       ELSE WrapIndex([stored EXCEPT !.free = @ + 1], d.free + 1)

\* Whether a reply has an address for the question id.
prvParseDNSReply(reply, id) == reply.id = id /\ reply.ip # NoAnswer

\* A reply that no socket waits for fills the table all the same.
ulDNSHandlePacket(d, reply) ==
    LET filled == prvProcessDNSCache(d, reply.name, reply.ip)
    IN IF ~prvParseDNSReply(reply, reply.id) THEN d
       ELSE [filled EXCEPT !.mixed = d.mixed \/ (d.busy /\ filled # d)]
=============================================================================
