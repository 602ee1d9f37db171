----------------------------- MODULE StreamRing -----------------------------
(***************************************************************************)
(* The circular buffers between an application and TCP:                    *)
(* FreeRTOS_Stream_Buffer.c and .h.  tail: what is read or acknowledged    *)
(* next; mid: what goes into a segment next; head: where the next byte     *)
(* goes.  One cell stays free.  With one segment at a time nothing is ever *)
(* added ahead of head, so front is where head is and is left out.         *)
(***************************************************************************)
EXTENDS Naturals, Sequences, FiniteSetsExt

\* What a cell holds before the first byte.
NoByte == 0

NewRing(length) ==
    [length |-> length, tail |-> 0, mid |-> 0, head |-> 0,
     cells |-> [i \in 0 .. length - 1 |-> NoByte]]

uxStreamBufferDistance(b, lower, upper) == (b.length + upper - lower) % b.length
uxStreamBufferSpace(b, lower, upper) == (b.length + upper - lower - 1) % b.length

uxStreamBufferGetSpace(b) == uxStreamBufferSpace(b, b.head, b.tail)
uxStreamBufferGetSize(b) == uxStreamBufferDistance(b, b.tail, b.head)
uxStreamBufferMidSpace(b) == uxStreamBufferDistance(b, b.mid, b.head)

vStreamBufferMoveMid(b, count) ==
    [b EXCEPT !.mid = (@ + Min({count, uxStreamBufferMidSpace(b)})) % b.length]

\* As many bytes as there is room for, at head.
uxStreamBufferAdd(b, bytes) ==
    LET count == Min({uxStreamBufferGetSpace(b), Len(bytes)})
        offset(i) == uxStreamBufferDistance(b, b.head, i)
    IN [b EXCEPT !.head = (@ + count) % b.length,
                 !.cells = [i \in DOMAIN @ |-> IF offset(i) < count THEN bytes[offset(i) + 1]
                                               ELSE @[i]]]

\* Up to max bytes from offset on: the bytes, without moving tail ...
PeekRing(b, offset, max) ==
    LET size == uxStreamBufferGetSize(b)
        count == Min({IF size > offset THEN size - offset ELSE 0, max})
    IN [i \in 1 .. count |-> b.cells[(b.tail + offset + i - 1) % b.length]]

\* ... and the buffer after they were taken from its tail.
uxStreamBufferGet(b, max) ==
    [b EXCEPT !.tail = (@ + Min({uxStreamBufferGetSize(b), max})) % b.length]
=============================================================================
