------------------------------ MODULE TcpWindow ------------------------------
(***************************************************************************)
(* FreeRTOS_TCP_WIN.c as it is built here (ipconfigUSE_TCP_WIN is 0): one  *)
(* segment in flight, data taken in order or not at all.  Sequence numbers *)
(* are counted modulo SeqMod, which stands for 2^32.                       *)
(***************************************************************************)
EXTENDS Naturals

CONSTANTS SeqMod, MSS

ASSUME WindowAssumption == MSS \in Nat \ {0} /\ SeqMod \in Nat /\ SeqMod > 4 * MSS

Plus(a, b) == (a + b) % SeqMod
Minus(a, b) == (a + SeqMod - b) % SeqMod

\* (int32_t)(a - b) > 0, and xSequenceGreaterThanOrEqual.
After(a, b) == Minus(a, b) \in 1 .. SeqMod \div 2 - 1
xSequenceGreaterThanOrEqual(a, b) == Minus(a, b) < SeqMod \div 2

NoSegment == [length |-> 0, pos |-> 0, seq |-> 0, outstanding |-> FALSE]
NewWindow ==
    [rxCur |-> 0, rxHigh |-> 0, rxFin |-> 0, txFirst |-> 0, txCur |-> 0, txFin |-> 0,
     next |-> 0, our |-> 0, seg |-> NoSegment]

vTCPWindowInit(w, ack, seq) ==
    [w EXCEPT !.rxCur = ack, !.rxHigh = ack, !.txFirst = seq, !.txCur = seq,
              !.next = seq, !.our = seq]
vTCPWindowCreate(w, ack, seq) == vTCPWindowInit(w, ack, seq)

\* Mutant: data that were taken before are taken again.
RxCheckOld(w, seq, length, space) == xSequenceGreaterThanOrEqual(w.rxCur, seq) /\ length <= space
\* Whether data are what was expected and fit.
lTCPWindowRxCheck(w, seq, length, space) == w.rxCur = seq /\ length <= space

xTCPWindowRxEmpty(w) == xSequenceGreaterThanOrEqual(w.rxCur, w.rxHigh)
xTCPWindowTxDone(w) == w.seg.length = 0

\* How much of "length" bytes at position pos becomes the next segment ...
TxAddLength(w, length) ==
    IF xTCPWindowTxDone(w) THEN IF length > MSS THEN MSS ELSE length ELSE 0
\* ... and the window then.
lTCPWindowTxAdd(w, length, pos) ==
    LET count == TxAddLength(w, length)
    IN IF count = 0 THEN w
       ELSE [w EXCEPT !.seg = [length |-> count, pos |-> pos, seq |-> w.next,
                               outstanding |-> FALSE],
                      !.next = Plus(@, count)]

\* late: the time to wait for an acknowledgement is over.
TxMayGo(w, late) == ~xTCPWindowTxDone(w) /\ (late \/ ~w.seg.outstanding)
ulTCPWindowTxGet(w, late) ==
    IF TxMayGo(w, late) THEN [w EXCEPT !.seg.outstanding = TRUE, !.our = w.seg.seq] ELSE w

\* How many bytes an acknowledgement confirms: the segment or nothing.  The two
\* numbers are compared as they are, without regard to the wrap.
TxAckLength(w, ack) ==
    IF ack < Plus(w.txCur, w.seg.length) THEN 0 ELSE w.seg.length
ulTCPWindowTxAck(w, ack) ==
    IF TxAckLength(w, ack) = 0 THEN w
    ELSE [w EXCEPT !.txCur = Plus(@, w.seg.length), !.seg.length = 0]
=============================================================================
