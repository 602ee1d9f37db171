------------------------------ MODULE BytePipe ------------------------------
(***************************************************************************)
(* What a connection promises for each direction of its bytes: they come   *)
(* out as they were put in, each once and in order; what is confirmed to   *)
(* the sender has come out; and the receiver is told of the end only when  *)
(* everything has come out, and gets nothing after it.                     *)
(***************************************************************************)
EXTENDS Naturals, Sequences

CONSTANT Streams

VARIABLES put,    \* how many bytes went in
          got,    \* the bytes that came out
          acked,  \* how many bytes the sender was told have come out
          ended   \* whether the receiver was told of the end

\* The k-th byte of stream i: it tells the streams apart.
Byte(i, k) == 10 * i + k

Init ==
    /\ put = [i \in Streams |-> 0] /\ got = [i \in Streams |-> <<>>]
    /\ acked = [i \in Streams |-> 0] /\ ended = [i \in Streams |-> FALSE]

Put(i) == /\ put'[i] > put[i]
          /\ \A j \in Streams \ {i} : put'[j] = put[j]
          /\ UNCHANGED <<got, acked, ended>>

\* A segment carries bytes and an end one way and a confirmation the other.
Moves(i) ==
    /\ \E k \in 0 .. put[i] - Len(got[i]) :
           got'[i] = got[i] \o [j \in 1 .. k |-> Byte(i, Len(got[i]) + j)]
    /\ acked'[i] \in acked[i] .. Len(got[i])
    /\ IF ended[i] THEN ended'[i] /\ got'[i] = got[i]
       ELSE ended'[i] => Len(got'[i]) = put[i]

Next == (\E i \in Streams : Put(i)) \/ (UNCHANGED put /\ \A i \in Streams : Moves(i))

Spec == Init /\ [][Next]_<<put, got, acked, ended>>
=============================================================================
