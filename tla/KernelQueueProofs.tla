------------------------- MODULE KernelQueueProofs -------------------------
(***************************************************************************)
(* For every set of tasks, queues and calls of KernelQueue, whatever tasks *)
(* and interrupts do between the critical sections of a call: the circular *)
(* buffer of queue.c is a bounded sequence; no wakeup of a task that waits *)
(* is lost; no call fails before its time is over.                         *)
(***************************************************************************)
EXTENDS KernelQueue, SequenceFacts

-----------------------------------------------------------------------------
(* The circular buffer.                                                    *)

\* The slots go round.
Slot(R, r, i) == (r + i) % R

LEMMA SlotIs ==
    ASSUME NEW R \in Nat \ {0}, NEW r \in 0 .. R - 1, NEW i \in 0 .. R
    PROVE  /\ Slot(R, r, i) = IF r + i < R THEN r + i ELSE r + i - R
           /\ Slot(R, r, i) \in 0 .. R - 1
<1>1. CASE r + i < R
  BY <1>1 DEF Slot
<1>2. CASE r + i >= R
  <2> DEFINE d == r + i - R
  <2>1. d \in 0 .. R - 1 /\ r + i = d + R
    BY <1>2
  <2> HIDE DEF d
  <2>2. (d + R) % R = d
    BY <2>1
  <2> QED
    BY <1>2, <2>1, <2>2 DEF d, Slot
<1> QED
  BY <1>1, <1>2

\* After no step or a whole round it is the same slot; the slot i behind a slot is
\* the slot i - 1 behind the next one; R slots in a row are R different ones.
LEMMA SlotRound ==
    ASSUME NEW R \in Nat \ {0}, NEW r \in 0 .. R - 1
    PROVE  Slot(R, r, 0) = r /\ Slot(R, r, R) = r
<1>1. 0 \in 0 .. R /\ R \in 0 .. R
  OBVIOUS
<1>2. Slot(R, r, 0) = IF r + 0 < R THEN r + 0 ELSE r + 0 - R
  BY <1>1, SlotIs
<1>3. Slot(R, r, R) = IF r + R < R THEN r + R ELSE r + R - R
  BY <1>1, SlotIs
<1> QED
  BY <1>2, <1>3

LEMMA SlotNext ==
    ASSUME NEW R \in Nat \ {0}, NEW r \in 0 .. R - 1, NEW i \in 0 .. R - 1
    PROVE  /\ Slot(R, r, 1) \in 0 .. R - 1
           /\ Slot(R, Slot(R, r, 1), i) = Slot(R, r, i + 1)
           /\ Slot(R, Slot(R, r, i), 1) = Slot(R, r, i + 1)
<1>0. 1 \in 0 .. R /\ i \in 0 .. R /\ i + 1 \in 0 .. R
  OBVIOUS
<1>1. Slot(R, r, 1) \in 0 .. R - 1
      /\ Slot(R, r, 1) = IF r + 1 < R THEN r + 1 ELSE r + 1 - R
  BY <1>0, SlotIs
<1>2. Slot(R, r, i) \in 0 .. R - 1
      /\ Slot(R, r, i) = IF r + i < R THEN r + i ELSE r + i - R
  BY <1>0, SlotIs
<1>3. Slot(R, r, i + 1) = IF r + (i + 1) < R THEN r + (i + 1) ELSE r + (i + 1) - R
  BY <1>0, SlotIs
<1>4. Slot(R, Slot(R, r, 1), i) =
         IF Slot(R, r, 1) + i < R THEN Slot(R, r, 1) + i ELSE Slot(R, r, 1) + i - R
  BY <1>0, <1>1, SlotIs
<1>5. Slot(R, Slot(R, r, i), 1) =
         IF Slot(R, r, i) + 1 < R THEN Slot(R, r, i) + 1 ELSE Slot(R, r, i) + 1 - R
  BY <1>0, <1>2, SlotIs
<1>6. Slot(R, Slot(R, r, 1), i) = Slot(R, r, i + 1)
  BY <1>1, <1>3, <1>4
<1>7. Slot(R, Slot(R, r, i), 1) = Slot(R, r, i + 1)
  BY <1>2, <1>3, <1>5
<1> QED
  BY <1>1, <1>6, <1>7

LEMMA SlotsDiffer ==
    ASSUME NEW R \in Nat \ {0}, NEW r \in 0 .. R - 1,
           NEW i \in 0 .. R - 1, NEW j \in 0 .. R - 1, i # j
    PROVE  Slot(R, r, i) # Slot(R, r, j)
<1>1. i \in 0 .. R /\ j \in 0 .. R
  OBVIOUS
<1>2. Slot(R, r, i) = IF r + i < R THEN r + i ELSE r + i - R
  BY <1>1, SlotIs
<1>3. Slot(R, r, j) = IF r + j < R THEN r + j ELSE r + j - R
  BY <1>1, SlotIs
<1> QED
  BY <1>2, <1>3

Size(q) == Queues[q].length

\* The n items of a queue lie from behind the read pointer to before the write
\* pointer.
Ring(q, c) ==
    /\ c.n \in 0 .. Size(q)
    /\ c.read \in 0 .. Size(q) - 1 /\ c.write \in 0 .. Size(q) - 1
    /\ c.buf \in [0 .. Size(q) - 1 -> Nat]
    /\ c.write = Slot(Size(q), Slot(Size(q), c.read, 1), c.n)

ContentsOf(q, c) == [i \in 1 .. c.n |-> c.buf[Slot(Size(q), c.read, i)]]

LEMMA SizeIs == \A q \in DOMAIN Queues : Size(q) \in Nat \ {0}
BY QueuesAssumption DEF Size

LEMMA ContentsType ==
    ASSUME NEW q \in DOMAIN Queues, NEW c, Ring(q, c)
    PROVE  /\ ContentsOf(q, c) \in Seq(Nat) /\ Len(ContentsOf(q, c)) = c.n
           /\ DOMAIN ContentsOf(q, c) = 1 .. c.n
           /\ \A i \in 1 .. c.n : ContentsOf(q, c)[i] = c.buf[Slot(Size(q), c.read, i)]
<1> DEFINE R == Size(q)
<1>1. R \in Nat \ {0} /\ c.n \in Nat /\ c.n \in 0 .. R /\ c.read \in 0 .. R - 1
      /\ c.buf \in [0 .. R - 1 -> Nat]
  BY SizeIs DEF Ring
<1>2. ASSUME NEW i \in 1 .. c.n PROVE c.buf[Slot(R, c.read, i)] \in Nat
  <2>1. i \in 0 .. R
    BY <1>1
  <2>2. Slot(R, c.read, i) \in 0 .. R - 1
    BY <1>1, <2>1, SlotIs
  <2> QED
    BY <1>1, <2>2
<1> HIDE DEF R
<1> DEFINE f == [i \in 1 .. c.n |-> c.buf[Slot(R, c.read, i)]]
<1>3. f \in [1 .. c.n -> Nat] /\ \A i \in 1 .. c.n : f[i] = c.buf[Slot(R, c.read, i)]
  BY <1>2
<1> HIDE DEF f
<1>4. f \in Seq(Nat) /\ Len(f) = c.n /\ DOMAIN f = 1 .. c.n
  BY <1>1, <1>3, FunctionIsSeq
<1> QED
  BY <1>3, <1>4 DEF ContentsOf, f, R

LEMMA RingIs ==
    ASSUME NEW q \in DOMAIN Queues, NEW c, Ring(q, c)
    PROVE  /\ Size(q) \in Nat \ {0} /\ c.n \in Nat /\ c.n <= Size(q)
           /\ c.read \in 0 .. Size(q) - 1 /\ c.write \in 0 .. Size(q) - 1
           /\ c.buf \in [0 .. Size(q) - 1 -> Nat]
           /\ c.write = Slot(Size(q), Slot(Size(q), c.read, 1), c.n)
<1>1. Size(q) \in Nat \ {0}
  BY SizeIs
<1>2. c.n \in 0 .. Size(q)
  BY DEF Ring
<1>3. c.n \in Nat /\ c.n <= Size(q)
  BY <1>1, <1>2
<1> QED
  BY <1>1, <1>3 DEF Ring

LEMMA NeighboursAre ==
    ASSUME NEW q \in DOMAIN Queues, NEW i \in 0 .. Size(q) - 1
    PROVE  /\ NextSlot(q, i) = Slot(Size(q), i, 1)
           /\ PreviousSlot(q, i) = Slot(Size(q), i, Size(q) - 1)
<1> DEFINE R == Size(q)
<1>1. R \in Nat \ {0} /\ i \in 0 .. R - 1
  BY SizeIs
<1>2. NextSlot(q, i) = (i + 1) % R /\ PreviousSlot(q, i) = (i + R - 1) % R
  BY DEF NextSlot, PreviousSlot, Size
<1> HIDE DEF R
<1>3. i + R - 1 = i + (R - 1)
  BY <1>1
<1> QED
  BY <1>2, <1>3 DEF Slot, R

\* What the copy of an item to a slot leaves in the buffer.
Written(q, old, new, slot, item) ==
    /\ new \in [0 .. Size(q) - 1 -> Nat]
    /\ \A i \in 0 .. Size(q) - 1 : new[i] = IF i = slot THEN item ELSE old[i]

LEMMA WrittenIs ==
    ASSUME NEW q \in DOMAIN Queues, NEW old \in [0 .. Size(q) - 1 -> Nat],
           NEW slot \in 0 .. Size(q) - 1, NEW item \in Nat, NEW new,
           new = [old EXCEPT ![slot] = item]
    PROVE  Written(q, old, new, slot, item)
BY DEF Written

AtBack(s, item) == Append(s, item)
AtFront(s, item) == <<item>> \o s

\* A copy to the write pointer appends the item.
LEMMA BackIs ==
    ASSUME NEW q \in DOMAIN Queues, NEW c, NEW d, NEW item \in Nat,
           Ring(q, c), c.n < Size(q),
           d.n = c.n + 1, d.read = c.read, d.write = NextSlot(q, c.write),
           Written(q, c.buf, d.buf, c.write, item)
    PROVE  Ring(q, d) /\ ContentsOf(q, d) = AtBack(ContentsOf(q, c), item)
<1> DEFINE R == Size(q)
           f == Slot(R, c.read, 1)
<1>1. /\ R \in Nat \ {0} /\ c.n \in Nat /\ c.n \in 0 .. R - 1 /\ c.n + 1 \in 0 .. R
      /\ c.read \in 0 .. R - 1 /\ c.write \in 0 .. R - 1
      /\ c.buf \in [0 .. R - 1 -> Nat] /\ c.write = Slot(R, f, c.n)
      /\ d.write = Slot(R, c.write, 1)
  <2>1. d.write = Slot(R, c.write, 1)
    BY RingIs, NeighboursAre
  <2>2. c.n \in 0 .. R - 1 /\ c.n + 1 \in 0 .. R
    <3>1. R \in Nat /\ c.n \in Nat /\ c.n < R
      BY RingIs
    <3> QED
      BY <3>1
  <2> QED
    BY <2>1, <2>2, RingIs
<1> HIDE DEF R
<1>2. f \in 0 .. R - 1 /\ Slot(R, f, c.n) = Slot(R, c.read, c.n + 1)
  BY <1>1, SlotNext
<1> HIDE DEF f
<1>3. d.write = Slot(R, f, c.n + 1) /\ d.write \in 0 .. R - 1
  <2>1. Slot(R, Slot(R, f, c.n), 1) = Slot(R, f, c.n + 1)
    <3>1. R \in Nat \ {0} /\ f \in 0 .. R - 1 /\ c.n \in 0 .. R - 1
      BY <1>1, <1>2
    <3> QED
      BY <3>1, SlotNext
  <2>2. Slot(R, c.write, 1) \in 0 .. R - 1
    BY <1>1, SlotNext
  <2> QED
    BY <1>1, <2>1, <2>2
<1>4. d.buf \in [0 .. R - 1 -> Nat]
      /\ \A i \in 0 .. R - 1 : d.buf[i] = IF i = c.write THEN item ELSE c.buf[i]
  BY DEF Written, R
<1>5. Ring(q, d)
  BY <1>1, <1>3, <1>4 DEF Ring, R, f
<1> DEFINE C == ContentsOf(q, c)
           D == ContentsOf(q, d)
<1>6. C \in Seq(Nat) /\ Len(C) = c.n
      /\ \A i \in 1 .. c.n : C[i] = c.buf[Slot(R, c.read, i)]
  BY ContentsType DEF R
<1>7. D \in Seq(Nat) /\ DOMAIN D = 1 .. (c.n + 1) /\ Len(D) = c.n + 1
      /\ \A i \in 1 .. (c.n + 1) : D[i] = d.buf[Slot(R, c.read, i)]
  <2>1. D \in Seq(Nat) /\ DOMAIN D = 1 .. d.n /\ Len(D) = d.n
        /\ \A i \in 1 .. d.n : D[i] = d.buf[Slot(R, d.read, i)]
    BY <1>5, ContentsType DEF R
  <2> HIDE DEF D
  <2> QED
    BY <2>1
<1>8. D = [i \in DOMAIN D |-> D[i]]
  BY DEF ContentsOf
<1> HIDE DEF C, D
<1>9. D[c.n + 1] = item
  <2>1. c.n + 1 \in 1 .. (c.n + 1)
    BY <1>1
  <2>2. d.buf[c.write] = item
    <3>1. c.write \in 0 .. R - 1
      BY <1>1
    <3> QED
      BY <3>1, <1>4
  <2>3. D[c.n + 1] = d.buf[Slot(R, c.read, c.n + 1)]
    BY <2>1, <1>7
  <2> QED
    BY <1>1, <1>2, <2>1, <2>2, <2>3
<1>10. ASSUME NEW i \in 1 .. c.n PROVE D[i] = C[i]
  <2>1. i - 1 \in 0 .. R - 1 /\ i - 1 # c.n /\ (i - 1) + 1 = i /\ i \in 1 .. (c.n + 1)
    BY <1>1
  <2>2. Slot(R, f, i - 1) = Slot(R, c.read, i)
    <3>1. Slot(R, f, i - 1) = Slot(R, c.read, (i - 1) + 1)
      BY <1>1, <2>1, SlotNext DEF f
    <3> QED
      BY <2>1, <3>1
  <2>3. Slot(R, c.read, i) # c.write
    <3>1. Slot(R, f, i - 1) # Slot(R, f, c.n)
      <4>1. c.n \in 0 .. R - 1 /\ R \in Nat \ {0}
        BY <1>1
      <4> QED
        BY <1>2, <2>1, <4>1, SlotsDiffer
    <3> QED
      BY <1>1, <2>2, <3>1
  <2>4. Slot(R, c.read, i) \in 0 .. R - 1
    <3>1. i \in 0 .. R
      BY <1>1
    <3> QED
      BY <1>1, <3>1, SlotIs
  <2> QED
    BY <1>1, <1>4, <1>6, <1>7, <2>1, <2>3, <2>4
<1>11. D = Append(C, item)
  <2>1. /\ DOMAIN D = 1 .. (Len(C) + 1) /\ D[Len(C) + 1] = item
        /\ \A i \in 1 .. Len(C) : D[i] = C[i]
    BY <1>6, <1>7, <1>9, <1>10
  <2> QED
    BY <1>6, <1>8, <2>1, AppendIs
<1> QED
  BY <1>5, <1>11 DEF C, D, AtBack

\* A copy to the read pointer, which then moves back, puts it before the others.
LEMMA FrontIs ==
    ASSUME NEW q \in DOMAIN Queues, NEW c, NEW d, NEW item \in Nat,
           Ring(q, c), c.n < Size(q),
           d.n = c.n + 1, d.read = PreviousSlot(q, c.read), d.write = c.write,
           Written(q, c.buf, d.buf, c.read, item)
    PROVE  Ring(q, d) /\ ContentsOf(q, d) = AtFront(ContentsOf(q, c), item)
<1> DEFINE R == Size(q)
<1>1. /\ R \in Nat \ {0} /\ c.n \in Nat /\ c.n \in 0 .. R - 1 /\ c.n + 1 \in 0 .. R
      /\ c.read \in 0 .. R - 1 /\ c.write \in 0 .. R - 1
      /\ c.buf \in [0 .. R - 1 -> Nat] /\ c.write = Slot(R, Slot(R, c.read, 1), c.n)
      /\ d.read = Slot(R, c.read, R - 1)
  <2>1. d.read = Slot(R, c.read, R - 1)
    BY RingIs, NeighboursAre
  <2>2. c.n \in 0 .. R - 1 /\ c.n + 1 \in 0 .. R
    <3>1. R \in Nat /\ c.n \in Nat /\ c.n < R
      BY RingIs
    <3> QED
      BY <3>1
  <2> QED
    BY <2>1, <2>2, RingIs
<1> HIDE DEF R
<1>2. c.write = Slot(R, c.read, c.n + 1)
  <2>1. Slot(R, Slot(R, c.read, 1), c.n) = Slot(R, c.read, c.n + 1)
    <3>1. R \in Nat \ {0} /\ c.read \in 0 .. R - 1 /\ c.n \in 0 .. R - 1
      BY <1>1
    <3> QED
      BY <3>1, SlotNext
  <2> QED
    BY <1>1, <2>1
<1>3. d.read \in 0 .. R - 1 /\ Slot(R, d.read, 1) = c.read
  <2>1. R - 1 \in 0 .. R - 1 /\ R - 1 \in 0 .. R /\ (R - 1) + 1 = R /\ R \in 0 .. R
        /\ c.read + R - 1 = c.read + (R - 1)
    BY <1>1
  <2>2. Slot(R, c.read, R - 1) \in 0 .. R - 1
        /\ Slot(R, Slot(R, c.read, R - 1), 1) = Slot(R, c.read, R)
    <3>1. Slot(R, Slot(R, c.read, R - 1), 1) = Slot(R, c.read, (R - 1) + 1)
      BY <1>1, <2>1, SlotNext
    <3> QED
      <4>1. Slot(R, c.read, R - 1) \in 0 .. R - 1
        BY <1>1, <2>1, SlotIs
      <4> QED
        BY <2>1, <3>1, <4>1
  <2>3. Slot(R, c.read, R) = c.read
    BY <1>1, SlotRound
  <2> QED
    BY <1>1, <2>1, <2>2, <2>3
<1>4. d.buf \in [0 .. R - 1 -> Nat]
      /\ \A i \in 0 .. R - 1 : d.buf[i] = IF i = c.read THEN item ELSE c.buf[i]
  BY DEF Written, R
<1>5. Ring(q, d)
  BY <1>1, <1>2, <1>3, <1>4 DEF Ring, R
<1> DEFINE C == ContentsOf(q, c)
           D == ContentsOf(q, d)
<1>6. C \in Seq(Nat) /\ Len(C) = c.n
      /\ \A i \in 1 .. c.n : C[i] = c.buf[Slot(R, c.read, i)]
  BY ContentsType DEF R
<1>7. D \in Seq(Nat) /\ DOMAIN D = 1 .. (c.n + 1) /\ Len(D) = c.n + 1
      /\ \A i \in 1 .. (c.n + 1) : D[i] = d.buf[Slot(R, d.read, i)]
  <2>1. D \in Seq(Nat) /\ DOMAIN D = 1 .. d.n /\ Len(D) = d.n
        /\ \A i \in 1 .. d.n : D[i] = d.buf[Slot(R, d.read, i)]
    BY <1>5, ContentsType DEF R
  <2> HIDE DEF D
  <2> QED
    BY <2>1
<1>8. D = [i \in DOMAIN D |-> D[i]]
  BY DEF ContentsOf
<1> HIDE DEF C, D
<1>9. D[1] = item
  <2>1. 1 \in 1 .. (c.n + 1)
    BY <1>1
  <2>2. d.buf[c.read] = item
    BY <1>1, <1>4
  <2> QED
    BY <1>3, <1>7, <2>1, <2>2
<1>10. ASSUME NEW i \in 1 .. c.n PROVE D[i + 1] = C[i]
  <2>1. i \in 0 .. R - 1 /\ i \in 0 .. R /\ 0 \in 0 .. R - 1 /\ i # 0
        /\ i + 1 \in 1 .. (c.n + 1) /\ 0 \in 0 .. R
    BY <1>1
  <2>2. Slot(R, d.read, i + 1) = Slot(R, c.read, i)
    BY <1>1, <1>3, <2>1, SlotNext
  <2>3. Slot(R, c.read, i) # c.read
    <3>1. Slot(R, c.read, i) # Slot(R, c.read, 0)
      BY <1>1, <2>1, SlotsDiffer
    <3> QED
      BY <1>1, <3>1, SlotRound
  <2>4. Slot(R, c.read, i) \in 0 .. R - 1
    BY <1>1, <2>1, SlotIs
  <2>5. d.buf[Slot(R, c.read, i)] = c.buf[Slot(R, c.read, i)]
    BY <1>1, <1>4, <2>3, <2>4
  <2> QED
    BY <1>6, <1>7, <2>1, <2>2, <2>5
<1>11. D = <<item>> \o C
  <2>1. DOMAIN D = 1 .. (Len(C) + 1) /\ \A i \in 1 .. Len(C) : D[i + 1] = C[i]
    BY <1>6, <1>7, <1>10
  <2>2. <<item>> \in Seq(Nat) /\ Len(<<item>>) = 1 /\ <<item>>[1] = item
    OBVIOUS
  <2> QED
    BY <1>6, <1>8, <1>9, <2>1, <2>2, PushIs
<1> QED
  BY <1>5, <1>11 DEF C, D, AtFront

\* In a queue of length one the item takes the place of what was there.
LEMMA OverwriteIs ==
    ASSUME NEW q \in DOMAIN Queues, NEW c, NEW d, NEW item \in Nat,
           Ring(q, c), Size(q) = 1, d.n = 1,
           d.read = PreviousSlot(q, c.read), d.write = c.write,
           Written(q, c.buf, d.buf, c.read, item)
    PROVE  Ring(q, d) /\ ContentsOf(q, d) = <<item>>
<1>1. /\ c.read = 0 /\ c.write = 0 /\ c.buf \in [0 .. 0 -> Nat]
      /\ d.read = Slot(1, 0, 0) /\ 0 \in 0 .. 1 - 1 /\ 1 \in Nat \ {0}
  <2>1. c.read \in 0 .. 1 - 1 /\ c.write \in 0 .. 1 - 1 /\ c.buf \in [0 .. 1 - 1 -> Nat]
    BY DEF Ring
  <2>2. c.read = 0 /\ c.write = 0 /\ c.buf \in [0 .. 0 -> Nat]
    BY <2>1
  <2> QED
    BY <2>1, <2>2, NeighboursAre
<1>2. d.read = 0 /\ d.write = 0 /\ d.buf \in [0 .. 0 -> Nat] /\ d.buf[0] = item
      /\ Slot(1, 0, 1) = 0
  BY <1>1, SlotRound DEF Written
<1>3. Ring(q, d)
  <2>1. 1 \in 0 .. 1 /\ 0 .. 1 - 1 = 0 .. 0 /\ Slot(1, Slot(1, 0, 1), 1) = 0
    BY <1>2
  <2> QED
    BY <1>1, <1>2, <2>1 DEF Ring
<1>4. ContentsOf(q, d) \in Seq(Nat) /\ Len(ContentsOf(q, d)) = 1
      /\ ContentsOf(q, d)[1] = d.buf[Slot(1, d.read, 1)]
  <2>1. /\ ContentsOf(q, d) \in Seq(Nat) /\ Len(ContentsOf(q, d)) = d.n
        /\ \A i \in 1 .. d.n : ContentsOf(q, d)[i] = d.buf[Slot(Size(q), d.read, i)]
    BY <1>3, ContentsType
  <2> HIDE DEF ContentsOf
  <2> QED
    BY <2>1
<1>5. ContentsOf(q, d)[1] = item
  BY <1>2, <1>4
<1> HIDE DEF ContentsOf
<1>6. ContentsOf(q, d) = <<item>>
  BY <1>4, <1>5
<1> QED
  BY <1>3, <1>6

\* Moving the read pointer takes out the first item, which lies behind it.
LEMMA ReceiveIs ==
    ASSUME NEW q \in DOMAIN Queues, NEW c, NEW d,
           Ring(q, c), c.n # 0, d.n = c.n - 1, d.read = NextSlot(q, c.read),
           d.write = c.write, d.buf = c.buf
    PROVE  /\ Ring(q, d) /\ ContentsOf(q, c) # <<>>
           /\ ContentsOf(q, d) = Tail(ContentsOf(q, c))
           /\ Oldest(c, q) = Head(ContentsOf(q, c)) /\ Oldest(c, q) \in Nat
<1> DEFINE R == Size(q)
<1>1. /\ R \in Nat \ {0} /\ c.n \in 1 .. R /\ c.n - 1 \in 0 .. R - 1 /\ c.n \in Nat
      /\ c.read \in 0 .. R - 1 /\ c.write \in 0 .. R - 1
      /\ c.buf \in [0 .. R - 1 -> Nat] /\ d.read = Slot(R, c.read, 1)
      /\ c.write = Slot(R, d.read, c.n)
  <2>1. d.read = Slot(R, c.read, 1)
    BY RingIs, NeighboursAre
  <2>2. c.n \in 1 .. R /\ c.n - 1 \in 0 .. R - 1
    <3>1. R \in Nat /\ c.n \in Nat /\ c.n <= R
      BY RingIs
    <3> QED
      BY <3>1
  <2> QED
    BY <2>1, <2>2, RingIs
<1> HIDE DEF R
<1>2. d.read \in 0 .. R - 1
  BY <1>1, SlotNext
<1>3. c.write = Slot(R, Slot(R, d.read, 1), c.n - 1)
  <2>1. Slot(R, Slot(R, d.read, 1), c.n - 1) = Slot(R, d.read, (c.n - 1) + 1)
    BY <1>1, <1>2, SlotNext
  <2>2. (c.n - 1) + 1 = c.n
    BY <1>1
  <2> QED
    BY <1>1, <2>1, <2>2
<1>4. Ring(q, d)
  BY <1>1, <1>2, <1>3 DEF Ring, R
<1> DEFINE C == ContentsOf(q, c)
           D == ContentsOf(q, d)
<1>5. C \in Seq(Nat) /\ Len(C) = c.n
      /\ \A i \in 1 .. c.n : C[i] = c.buf[Slot(R, c.read, i)]
  BY ContentsType DEF R
<1>6. D \in Seq(Nat) /\ DOMAIN D = 1 .. (c.n - 1) /\ Len(D) = c.n - 1
      /\ \A i \in 1 .. (c.n - 1) : D[i] = c.buf[Slot(R, d.read, i)]
  <2>1. D \in Seq(Nat) /\ DOMAIN D = 1 .. d.n /\ Len(D) = d.n
        /\ \A i \in 1 .. d.n : D[i] = d.buf[Slot(R, d.read, i)]
    BY <1>4, ContentsType DEF R
  <2> HIDE DEF D
  <2> QED
    BY <2>1
<1>7. D = [i \in DOMAIN D |-> D[i]]
  BY DEF ContentsOf
<1>8. Oldest(c, q) = c.buf[d.read]
  <2>1. NextSlot(q, c.read) = d.read
    OBVIOUS
  <2> QED
    BY <2>1 DEF Oldest
<1> HIDE DEF C, D
<1>9. ASSUME NEW i \in 1 .. (c.n - 1) PROVE D[i] = C[i + 1]
  <2>1. i \in 0 .. R - 1 /\ i + 1 \in 1 .. c.n
    BY <1>1
  <2>2. Slot(R, d.read, i) = Slot(R, c.read, i + 1)
    <3>1. R \in Nat \ {0} /\ c.read \in 0 .. R - 1 /\ i \in 0 .. R - 1
      BY <1>1, <2>1
    <3>2. Slot(R, Slot(R, c.read, 1), i) = Slot(R, c.read, i + 1)
      BY <3>1, SlotNext
    <3> QED
      BY <1>1, <3>2
  <2> QED
    BY <1>5, <1>6, <2>1, <2>2
<1>10. C # <<>> /\ Head(C) = C[1]
  BY <1>1, <1>5
<1>11. C[1] = c.buf[d.read]
  <2>1. 1 \in 1 .. c.n
    BY <1>1
  <2> QED
    BY <1>1, <1>5, <2>1
<1>12. D = Tail(C)
  BY <1>5, <1>6, <1>7, <1>9, <1>10, TailIs
<1> QED
  BY <1>1, <1>2, <1>4, <1>8, <1>10, <1>11, <1>12 DEF C, D

-----------------------------------------------------------------------------
(* The invariant.                                                          *)

\* What queue.c keeps of a queue, and what a call keeps of itself.
IsQueue(c) ==
    c = [n |-> c.n, buf |-> c.buf, write |-> c.write, read |-> c.read,
         rx |-> c.rx, tx |-> c.tx, holder |-> c.holder, recursion |-> c.recursion]

IsOp(o) ==
    o = [call |-> o.call, pc |-> o.pc, ticks |-> o.ticks, timed |-> o.timed,
         entry |-> o.entry, inherited |-> o.inherited, next |-> o.next,
         since |-> o.since, result |-> o.result]

\* The calls of queues that some task or interrupt makes in some scenario.
Callers == Users \cup {"isr"}
QueueCall ==
    {call \in UNION {UNION {s[u] : u \in Callers} : s \in Scenarios} : call.fn \in QueueCalls}

LEMMA CallIsLegal ==
    ASSUME NEW call \in QueueCall
    PROVE  /\ call.fn \in QueueCalls /\ call.q \in DOMAIN Queues
           /\ HoldsData(call.q) => ~Gives(call) /\ ~Takes(call)
           /\ call.fn = "overwrite" => Size(call.q) = 1
<1>1. PICK s \in Scenarios, u \in Callers : call \in s[u] /\ call.fn \in QueueCalls
  BY DEF QueueCall
<1> QED
  BY <1>1, ScenariosAssumption DEF Callers, Size

LEMMA PlannedIsCall ==
    ASSUME plan \in Scenarios, NEW u \in Callers, NEW call \in plan[u],
           call.fn \in QueueCalls
    PROVE  call \in QueueCall
BY DEF QueueCall

\* The structures are those of queue.c and every call in progress is one of a
\* queue, unless the task is delayed.
Formed ==
    /\ queue = [q \in DOMAIN Queues |-> queue[q]]
    /\ \A q \in DOMAIN Queues : IsQueue(queue[q])
    /\ out = [q \in DOMAIN Queues |-> out[q]]
    /\ items \in Seq(QueueCall)

Calling ==
    /\ op = [t \in Users |-> op[t]]
    /\ \A t \in Users :
        /\ IsOp(op[t])
        /\ op[t].pc # "out" =>
            \/ op[t].call \in QueueCall
            \/ op[t].pc = "resume" /\ op[t].next = "delayed"

Rings == \A q \in Data : Ring(q, queue[q]) /\ out[q] \in Seq(Nat)

Stored == plan \in Scenarios /\ Formed /\ Calling /\ Rings

-----------------------------------------------------------------------------
(* What a step does to the data of the queues.                             *)

SameData(q) ==
    /\ queue'[q].n = queue[q].n /\ queue'[q].buf = queue[q].buf
    /\ queue'[q].read = queue[q].read /\ queue'[q].write = queue[q].write
    /\ out'[q] = out[q]

PutsBack(q, item) ==
    /\ queue[q].n < Size(q)
    /\ queue'[q].n = queue[q].n + 1
    /\ queue'[q].buf = [queue[q].buf EXCEPT ![queue[q].write] = item]
    /\ queue'[q].write = NextSlot(q, queue[q].write)
    /\ queue'[q].read = queue[q].read

PutsBefore(q, item) ==
    /\ queue'[q].buf = [queue[q].buf EXCEPT ![queue[q].read] = item]
    /\ queue'[q].read = PreviousSlot(q, queue[q].read)
    /\ queue'[q].write = queue[q].write
    /\ \/ queue[q].n < Size(q) /\ queue'[q].n = queue[q].n + 1
       \/ Size(q) = 1 /\ queue'[q].n = 1

PutsItem(q) ==
    /\ out'[q] = out[q]
    /\ \E item \in Nat : PutsBack(q, item) \/ PutsBefore(q, item)

TakesItem(q) ==
    /\ queue[q].n # 0
    /\ queue'[q].n = queue[q].n - 1
    /\ queue'[q].read = NextSlot(q, queue[q].read)
    /\ queue'[q].write = queue[q].write /\ queue'[q].buf = queue[q].buf
    /\ out'[q] = Append(out[q], Oldest(queue[q], q))

\* At most one queue gets an item, or gives one.
Moved ==
    \/ \A q \in Data : SameData(q)
    \/ \E q \in Data : /\ PutsItem(q) \/ TakesItem(q)
                       /\ \A r \in Data \ {q} : SameData(r)

\* One structure changes, by what is no matter of its items.
LEMMA OthersMove ==
    ASSUME Formed, NEW q \in DOMAIN Queues, NEW c, IsQueue(c),
           queue' = [queue EXCEPT ![q] = c], UNCHANGED <<items, out>>,
           q \in Data => /\ c.n = queue[q].n /\ c.buf = queue[q].buf
                         /\ c.read = queue[q].read /\ c.write = queue[q].write
    PROVE  Formed' /\ Moved
<1>1. \A r \in DOMAIN Queues : queue'[r] = IF r = q THEN c ELSE queue[r]
  BY DEF Formed
<1>2. \A r \in Data : SameData(r)
  BY <1>1 DEF SameData, Data
<1>3. queue' = [r \in DOMAIN Queues |-> queue'[r]]
  BY DEF Formed
<1> QED
  BY <1>1, <1>2, <1>3 DEF Formed, Moved

\* prvCopyDataToQueue.
LEMMA SendMoves ==
    ASSUME Formed, Rings, NEW call \in QueueCall, Sends(call), CanProceed(queue, call),
           NEW q \in DOMAIN Queues, q = call.q,
           NEW c, IsQueue(c), NEW copy,
           copy = CopyItem(queue, q, Len(items) + 1, Position(call)),
           c.n = copy.n, c.buf = copy.buf, c.read = copy.read, c.write = copy.write,
           queue' = [queue EXCEPT ![q] = c], Recorded(call)
    PROVE  Formed' /\ Moved
<1> DEFINE item == Len(items) + 1
<1>1. item \in Nat
  BY DEF Formed
<1>2. items' \in Seq(QueueCall)
  BY DEF Formed, Recorded
<1>3. /\ call.fn \in {"back", "front", "overwrite"} \/ Gives(call)
      /\ HoldsData(q) => ~Gives(call)
      /\ call.fn = "overwrite" => Size(q) = 1
  BY CallIsLegal DEF Sends
<1>4. out' = out
  BY <1>3 DEF Recorded, Gives
<1>5. \A r \in DOMAIN Queues : queue'[r] = IF r = q THEN c ELSE queue[r]
  BY DEF Formed
<1>6. queue' = [r \in DOMAIN Queues |-> queue'[r]]
  BY DEF Formed
<1>7. Formed'
  BY <1>2, <1>4, <1>5, <1>6 DEF Formed
<1>8. \A r \in Data \ {q} : SameData(r)
  BY <1>4, <1>5 DEF SameData, Data
<1>9. ASSUME q \in Data PROVE PutsItem(q)
  <2>1. HoldsData(q) /\ call.fn \in {"back", "front", "overwrite"} /\ Position(call) = call.fn
    BY <1>3, <1>9 DEF Data, Position, Gives
  <2>2. Ring(q, queue[q]) /\ IsQueue(queue[q]) /\ queue'[q] = c
    BY <1>5, <1>9 DEF Rings, Formed
  <2>3. queue[q].n \in Nat /\ Size(q) \in Nat /\ queue[q].n <= Size(q)
    BY <2>2, RingIs
  <2>4. call.fn = "overwrite" \/ queue[q].n < Size(q)
    <3>1. call.fn = "overwrite" \/ queue[q].n # Size(q)
      BY DEF CanProceed, Full, Size
    <3> QED
      BY <2>3, <3>1
  <2> HIDE DEF item
  <2>5. CASE call.fn = "back"
    <3>1. copy = [queue[q] EXCEPT !.buf[queue[q].write] = item,
                                  !.write = NextSlot(q, @), !.n = @ + 1]
      BY <2>1, <2>5 DEF CopyItem, item
    <3>2. PutsBack(q, item)
      BY <2>2, <2>4, <2>5, <3>1 DEF PutsBack, IsQueue
    <3> QED
      BY <1>1, <1>4, <3>2 DEF PutsItem
  <2>6. CASE call.fn # "back"
    <3>1. copy = [queue[q] EXCEPT !.buf[queue[q].read] = item, !.read = PreviousSlot(q, @),
                     !.n = IF call.fn = "overwrite" /\ @ > 0 THEN @ ELSE @ + 1]
      BY <2>1, <2>6 DEF CopyItem, item
    <3>2. /\ copy.buf = [queue[q].buf EXCEPT ![queue[q].read] = item]
          /\ copy.read = PreviousSlot(q, queue[q].read) /\ copy.write = queue[q].write
          /\ copy.n = IF call.fn = "overwrite" /\ queue[q].n > 0
                      THEN queue[q].n ELSE queue[q].n + 1
      <4> DEFINE e == queue[q]
      <4>1. IsQueue(e)
        BY <2>2
      <4>2. copy = [e EXCEPT !.buf[e.read] = item, !.read = PreviousSlot(q, @),
                       !.n = IF call.fn = "overwrite" /\ @ > 0 THEN @ ELSE @ + 1]
        BY <3>1
      <4> HIDE DEF e
      <4>3. /\ copy.buf = [e.buf EXCEPT ![e.read] = item]
            /\ copy.read = PreviousSlot(q, e.read) /\ copy.write = e.write
            /\ copy.n = IF call.fn = "overwrite" /\ e.n > 0 THEN e.n ELSE e.n + 1
        BY <4>1, <4>2 DEF IsQueue
      <4> QED
        BY <4>3 DEF e
    <3>3. \/ queue[q].n < Size(q) /\ copy.n = queue[q].n + 1
          \/ Size(q) = 1 /\ copy.n = 1
      BY <1>3, <2>3, <2>4, <3>2
    <3>4. PutsBefore(q, item)
      BY <2>2, <3>2, <3>3 DEF PutsBefore
    <3> QED
      BY <1>1, <1>4, <3>4 DEF PutsItem
  <2> QED
    BY <2>5, <2>6
<1>10. CASE q \in Data
  BY <1>7, <1>8, <1>9, <1>10 DEF Moved
<1>11. CASE q \notin Data
  BY <1>7, <1>8, <1>11 DEF Moved
<1> QED
  BY <1>10, <1>11

\* prvCopyDataFromQueue and the count its callers lower.
LEMMA TakeMoves ==
    ASSUME Formed, Rings, NEW call \in QueueCall, call.fn = "receive" \/ Takes(call),
           CanProceed(queue, call), NEW q \in DOMAIN Queues, q = call.q,
           NEW c, IsQueue(c), NEW copy, copy = prvCopyDataFromQueue(queue[q], q),
           c.n = copy.n - 1, c.buf = copy.buf, c.read = copy.read, c.write = copy.write,
           queue' = [queue EXCEPT ![q] = c], Recorded(call)
    PROVE  Formed' /\ Moved
<1>1. ~Sends(call) /\ (HoldsData(q) => call.fn = "receive")
  BY CallIsLegal DEF Sends, Gives, Takes
<1>2. items' = items
  BY <1>1 DEF Recorded
<1>3. \A r \in DOMAIN Queues : queue'[r] = IF r = q THEN c ELSE queue[r]
  BY DEF Formed
<1>4. queue' = [r \in DOMAIN Queues |-> queue'[r]]
  BY DEF Formed
<1>5. /\ out' = [r \in DOMAIN Queues |-> out'[r]]
      /\ \A r \in DOMAIN Queues \ {q} : out'[r] = out[r]
      /\ call.fn = "receive" => out'[q] = Append(out[q], Oldest(queue[q], q))
  BY DEF Formed, Recorded
<1>6. Formed'
  BY <1>2, <1>3, <1>4, <1>5 DEF Formed
<1>7. \A r \in Data \ {q} : SameData(r)
  BY <1>3, <1>5 DEF SameData, Data
<1>8. ASSUME q \in Data PROVE TakesItem(q)
  <2>1. HoldsData(q) /\ out'[q] = Append(out[q], Oldest(queue[q], q))
    BY <1>1, <1>5, <1>8 DEF Data
  <2>2. queue[q].n # 0
    BY <1>1 DEF CanProceed, Empty
  <2>3. copy = [queue[q] EXCEPT !.read = NextSlot(q, @)] /\ IsQueue(queue[q])
    BY <2>1 DEF prvCopyDataFromQueue, Formed
  <2>4. /\ copy.n = queue[q].n /\ copy.buf = queue[q].buf /\ copy.write = queue[q].write
        /\ copy.read = NextSlot(q, queue[q].read)
    BY <2>3 DEF IsQueue
  <2> QED
    BY <1>3, <2>1, <2>2, <2>4 DEF TakesItem
<1>9. CASE q \in Data
  BY <1>6, <1>7, <1>8, <1>9 DEF Moved
<1>10. CASE q \notin Data
  BY <1>6, <1>7, <1>10 DEF Moved
<1> QED
  BY <1>9, <1>10

-----------------------------------------------------------------------------
(* Steps.                                                                  *)

LEMMA NoOpIs == IsOp(NoOp) /\ NoOp.pc = "out"
BY DEF IsOp, NoOp

\* A task's place in its call changes.
LEMMA PlaceMoves ==
    ASSUME Calling, NEW t \in Users, NEW o, IsOp(o), op' = [op EXCEPT ![t] = o],
           o.pc = "out" \/ o.call \in QueueCall \/ (o.pc = "resume" /\ o.next = "delayed")
    PROVE  Calling'
<1>1. \A u \in Users : op'[u] = IF u = t THEN o ELSE op[u]
  BY DEF Calling
<1>2. op' = [u \in Users |-> op'[u]]
  BY DEF Calling
<1> QED
  BY <1>1, <1>2 DEF Calling

LEMMA GotoMoves ==
    ASSUME Calling, NEW t \in Users, NEW pc, Goto(t, pc), op[t].call \in QueueCall
    PROVE  Calling'
<1> DEFINE o == [op[t] EXCEPT !.pc = pc]
<1>1. IsOp(op[t]) /\ op' = [op EXCEPT ![t] = o]
  BY DEF Calling, Goto
<1>2. IsOp(o) /\ o.call = op[t].call
  BY <1>1 DEF IsOp
<1> HIDE DEF o
<1> QED
  BY <1>1, <1>2, PlaceMoves

LEMMA ReturnMoves ==
    ASSUME Calling, NEW t \in Users, NEW result, Returns(t, result)
    PROVE  Calling'
<1> DEFINE o == [NoOp EXCEPT !.result = result]
<1>1. op' = [op EXCEPT ![t] = o]
  BY DEF Returns
<1>2. IsOp(o) /\ o.pc = "out"
  <2>1. o = [NoOp EXCEPT !.result = result]
    OBVIOUS
  <2> HIDE DEF o
  <2> QED
    BY <2>1, NoOpIs DEF IsOp
<1> HIDE DEF o
<1> QED
  BY <1>1, <1>2, PlaceMoves

\* The first critical section of a call.
LEMMA TryMoves ==
    ASSUME Formed, Rings, Calling, NEW t \in Users, NEW o, IsOp(o), o.call \in QueueCall,
           Try(t, o)
    PROVE  Formed' /\ Moved /\ Calling'
<1> DEFINE call == o.call
           q == o.call.q
           kq == Effect(k, queue, call).queue
<1>1. call \in QueueCall /\ call.fn \in QueueCalls /\ q \in DOMAIN Queues /\ q = call.q
  BY CallIsLegal
<1>2. IsQueue(queue[q])
  BY <1>1 DEF Formed
<1> DEFINE holder == IF IsMutex(q) THEN NoTask ELSE queue[q].holder
           copied == CopyItem(queue, q, Len(items) + 1, Position(call))
           sent == [copied EXCEPT !.holder = IF IsMutex(q) THEN NoTask ELSE @,
                                  !.recursion = 0]
           read == prvCopyDataFromQueue(queue[q], q)
           taken == [read EXCEPT !.n = @ - 1, !.holder = IF IsMutex(q) THEN k.cur ELSE @,
                                 !.recursion = IF IsMutex(q) THEN 1 ELSE @]
<1>3. CASE CanProceed(queue, call) /\ queue' = kq /\ Recorded(call) /\ Returns(t, "pass")
  <2>1. Calling'
    BY <1>3, ReturnMoves
  <2>2. CASE Sends(call)
    <3>1. kq = [queue EXCEPT ![q] = sent]
      <4>1. ~(call.fn = "receive" \/ Takes(call)) /\ call.fn # "peek"
      BY <2>2 DEF Sends, Gives, Takes
    <4>2. Effect(k, queue, call) =
            SendEffect(k, queue, call.q, Len(items) + 1, Position(call))
      BY <2>2, <4>1 DEF Effect
    <4> QED
      BY <4>2 DEF SendEffect
    <3>2. IsQueue(copied)
      BY <1>2 DEF CopyItem, IsQueue
    <3> HIDE DEF copied
    <3>3. /\ IsQueue(sent) /\ sent.n = copied.n /\ sent.buf = copied.buf
          /\ sent.read = copied.read /\ sent.write = copied.write
      <4> DEFINE h == IF IsMutex(q) THEN NoTask ELSE copied.holder
      <4>1. sent = [copied EXCEPT !.holder = h, !.recursion = 0]
        OBVIOUS
      <4> HIDE DEF sent, h
      <4> QED
        BY <3>2, <4>1 DEF IsQueue
    <3> HIDE DEF sent, kq, call, q
    <3> QED
      BY <1>1, <1>3, <2>1, <2>2, <3>1, <3>3, SendMoves DEF copied
  <2>3. CASE call.fn = "receive" \/ Takes(call)
    <3>1. ~Sends(call)
      BY <2>3 DEF Sends, Gives, Takes
    <3>2. kq = [queue EXCEPT ![q] = taken]
      <4>1. call.fn # "peek"
      BY <2>3 DEF Takes
    <4>2. Effect(k, queue, call) = ReceiveEffect(k, queue, call.q)
      BY <2>3, <3>1, <4>1 DEF Effect
    <4> QED
      BY <4>2 DEF ReceiveEffect
    <3>3. IsQueue(read)
      BY <1>2 DEF prvCopyDataFromQueue, IsQueue
    <3> HIDE DEF read
    <3>4. /\ IsQueue(taken) /\ taken.n = read.n - 1 /\ taken.buf = read.buf
          /\ taken.read = read.read /\ taken.write = read.write
      <4> DEFINE n == read.n - 1
                 h == IF IsMutex(q) THEN k.cur ELSE read.holder
                 m == IF IsMutex(q) THEN 1 ELSE read.recursion
      <4>1. taken = [read EXCEPT !.n = n, !.holder = h, !.recursion = m]
        OBVIOUS
      <4> HIDE DEF taken, n, h, m
      <4>2. IsQueue(taken) /\ taken.n = n /\ taken.buf = read.buf
            /\ taken.read = read.read /\ taken.write = read.write
        BY <3>3, <4>1 DEF IsQueue
      <4> QED
        BY <4>2 DEF n
    <3> HIDE DEF taken, kq, call, q
    <3> QED
      BY <1>1, <1>3, <2>1, <2>3, <3>2, <3>4, TakeMoves DEF read
  <2>4. CASE ~Sends(call) /\ call.fn # "receive" /\ ~Takes(call)
    <3>1. call.fn = "peek"
      BY <1>1, <2>4 DEF Sends, Gives, Takes, QueueCalls
    <3>2. kq = queue
      BY <2>4, <3>1 DEF Effect, PeekEffect
    <3>3. queue' = queue /\ items' = items /\ out' = out
      BY <1>3, <2>4, <3>2 DEF Recorded
    <3> QED
      BY <2>1, <3>3 DEF Formed, Moved, SameData
  <2> QED
    BY <2>2, <2>3, <2>4
<1>4. CASE /\ ~CanProceed(queue, call)
           /\ op' = [op EXCEPT ![t] =
                IF o.ticks = 0
                THEN IF o.inherited THEN [o EXCEPT !.pc = "assert"]
                     ELSE [NoOp EXCEPT !.result = "fail"]
                ELSE [o EXCEPT !.pc = "suspend", !.timed = TRUE,
                        !.entry = IF o.timed THEN @ ELSE <<k.overflows, k.tick>>]]
           /\ UNCHANGED <<k, queue, items, out>>
  <2>1. Formed' /\ Moved
    BY <1>4 DEF Formed, Moved, SameData
  <2> DEFINE failed == [NoOp EXCEPT !.result = "fail"]
             asserted == [o EXCEPT !.pc = "assert"]
             waiting == [o EXCEPT !.pc = "suspend", !.timed = TRUE,
                           !.entry = IF o.timed THEN @ ELSE <<k.overflows, k.tick>>]
  <2>2. IsOp(failed) /\ failed.pc = "out"
    <3>1. failed = [NoOp EXCEPT !.result = "fail"]
      BY DEF NoOp
    <3> HIDE DEF failed
    <3> QED
      BY <3>1, NoOpIs DEF IsOp
  <2>3. IsOp(asserted) /\ asserted.call = o.call
    BY DEF IsOp
  <2>4. IsOp(waiting) /\ waiting.call = o.call
    <3> DEFINE entry == IF o.timed THEN o.entry ELSE <<k.overflows, k.tick>>
    <3>1. waiting = [o EXCEPT !.pc = "suspend", !.timed = TRUE, !.entry = entry]
      OBVIOUS
    <3> HIDE DEF waiting, entry
    <3> QED
      BY <3>1 DEF IsOp
  <2>5. \/ op' = [op EXCEPT ![t] = failed] \/ op' = [op EXCEPT ![t] = asserted]
        \/ op' = [op EXCEPT ![t] = waiting]
    BY <1>4
  <2> HIDE DEF failed, asserted, waiting
  <2>6. Calling'
    BY <2>2, <2>3, <2>4, <2>5, PlaceMoves
  <2> QED
    BY <2>1, <2>6
<1> QED
  BY <1>3, <1>4 DEF Try

\* The steps of a call that leave the items where they are.
LEMMA SameMoves ==
    ASSUME Formed, UNCHANGED <<queue, items, out>>
    PROVE  Formed' /\ Moved
BY DEF Formed, Moved, SameData

LEMMA InCall ==
    ASSUME Calling, NEW t \in Users, op[t].pc \notin {"out", "resume"}
    PROVE  op[t].call \in QueueCall /\ op[t].call.q \in DOMAIN Queues /\ IsOp(op[t])
BY CallIsLegal DEF Calling

LEMMA LockMoves ==
    ASSUME Formed, Calling, NEW t \in Users, LocksAndChecks(t)
    PROVE  Formed' /\ Moved /\ Calling'
<1> DEFINE q == op[t].call.q
           c == prvLockQueue(queue[q])
           r == xTaskCheckForTimeOut(k, op[t].entry, op[t].ticks)
           o == [op[t] EXCEPT !.ticks = r.ticks, !.entry = r.entry,
                    !.pc = IF r.expired THEN "unlockTx" ELSE "test",
                    !.next = IF r.expired THEN "expired" ELSE "retry"]
<1>1. op[t].call \in QueueCall /\ q \in DOMAIN Queues /\ IsOp(op[t])
  BY InCall DEF LocksAndChecks, Going
<1>2. queue' = [queue EXCEPT ![q] = c] /\ items' = items /\ out' = out
  BY DEF LocksAndChecks
<1>3. IsQueue(queue[q])
  BY <1>1 DEF Formed
<1>4. IsQueue(c) /\ c.n = queue[q].n /\ c.buf = queue[q].buf
      /\ c.read = queue[q].read /\ c.write = queue[q].write
  <2> DEFINE x == IF queue[q].rx = Unlocked THEN LockedUnmodified ELSE queue[q].rx
             y == IF queue[q].tx = Unlocked THEN LockedUnmodified ELSE queue[q].tx
  <2>1. c = [queue[q] EXCEPT !.rx = x, !.tx = y]
    BY DEF prvLockQueue
  <2> HIDE DEF c, x, y
  <2> QED
    BY <1>3, <2>1 DEF IsQueue
<1>5. op' = [op EXCEPT ![t] = o]
  BY DEF LocksAndChecks
<1>6. IsOp(o) /\ o.call = op[t].call
  <2> DEFINE w == r.ticks
             x == r.entry
             y == IF r.expired THEN "unlockTx" ELSE "test"
             z == IF r.expired THEN "expired" ELSE "retry"
  <2>1. o = [op[t] EXCEPT !.ticks = w, !.entry = x, !.pc = y, !.next = z]
    OBVIOUS
  <2> HIDE DEF o, w, x, y, z
  <2> QED
    BY <1>1, <2>1 DEF IsOp
<1> HIDE DEF q, c, r, o
<1>7. Calling'
  BY <1>1, <1>5, <1>6, PlaceMoves
<1> QED
  BY <1>1, <1>2, <1>4, <1>7, OthersMove

LEMMA PlacesMoves ==
    ASSUME Formed, Calling, NEW t \in Users, Places(t)
    PROVE  Formed' /\ Moved /\ Calling'
<1>1. op[t].call \in QueueCall /\ IsOp(op[t])
  BY InCall DEF Places, Going
<1> DEFINE x == IF Takes(op[t].call) /\ IsMutex(op[t].call.q)
                THEN InheritanceOccurred(k, queue[op[t].call.q].holder)
                ELSE op[t].inherited
           o == [op[t] EXCEPT !.pc = "unlockTx", !.next = "blocked", !.inherited = x]
<1>2. op' = [op EXCEPT ![t] = o]
  BY DEF Places
<1> HIDE DEF x
<1>3. IsOp(o) /\ o.call = op[t].call
  <2>1. o = [op[t] EXCEPT !.pc = "unlockTx", !.next = "blocked", !.inherited = x]
    OBVIOUS
  <2> HIDE DEF o
  <2> QED
    BY <1>1, <2>1 DEF IsOp
<1> HIDE DEF o
<1>4. Calling'
  BY <1>1, <1>2, <1>3, PlaceMoves
<1>5. Formed' /\ Moved
  BY SameMoves DEF Places
<1> QED
  BY <1>4, <1>5

LEMMA UnlockMoves ==
    ASSUME Formed, Calling, NEW t \in Users, UnlocksTx(t) \/ UnlocksRx(t)
    PROVE  Formed' /\ Moved /\ Calling'
<1> DEFINE q == op[t].call.q
           c == [queue[q] EXCEPT !.tx = Unlocked]
           d == [queue[q] EXCEPT !.rx = Unlocked]
<1>1. op[t].call \in QueueCall /\ q \in DOMAIN Queues
  BY InCall DEF UnlocksTx, UnlocksRx, Going
<1>2. IsQueue(queue[q])
  BY <1>1 DEF Formed
<1>3. /\ IsQueue(c) /\ c.n = queue[q].n /\ c.buf = queue[q].buf
      /\ c.read = queue[q].read /\ c.write = queue[q].write
  BY <1>2 DEF IsQueue
<1>4. /\ IsQueue(d) /\ d.n = queue[q].n /\ d.buf = queue[q].buf
      /\ d.read = queue[q].read /\ d.write = queue[q].write
  BY <1>2 DEF IsQueue
<1>5. items' = items /\ out' = out
      /\ (queue' = [queue EXCEPT ![q] = c] \/ queue' = [queue EXCEPT ![q] = d])
  BY DEF UnlocksTx, UnlocksRx
<1>6. Goto(t, "unlockRx") \/ Goto(t, "resume")
  BY DEF UnlocksTx, UnlocksRx
<1>7. Calling'
  BY <1>1, <1>6, GotoMoves
<1> HIDE DEF q, c, d
<1> QED
  BY <1>1, <1>3, <1>4, <1>5, <1>7, OthersMove

LEMMA ResumeMoves ==
    ASSUME Formed, Calling, NEW t \in Users, Resumes(t)
    PROVE  Formed' /\ Moved /\ Calling'
<1>1. Formed' /\ Moved
  BY SameMoves DEF Resumes
<1>2. op[t].pc = "resume"
  BY DEF Resumes, Going
<1>3. CASE op[t].next = "delayed"
  BY <1>1, <1>3, ReturnMoves DEF Resumes
<1>4. CASE op[t].next # "delayed"
  <2>1. op[t].call \in QueueCall
    BY <1>2, <1>4 DEF Calling
  <2>2. Goto(t, "try") \/ Goto(t, "recheck") \/ Returns(t, "fail")
    BY <1>4 DEF Resumes
  <2> QED
    BY <1>1, <2>1, <2>2, GotoMoves, ReturnMoves
<1> QED
  BY <1>3, <1>4

LEMMA DelayMoves ==
    ASSUME Formed, Calling, NEW t \in Users, vTaskDelay(t)
    PROVE  Formed' /\ Moved /\ Calling'
<1>1. Formed' /\ Moved
  BY SameMoves DEF vTaskDelay
<1>2. PICK call : op' = [op EXCEPT ![t] = [NoOp EXCEPT !.call = call, !.pc = "resume",
                                           !.next = "delayed", !.since = Now(k)]]
  BY DEF vTaskDelay
<1> DEFINE now == Now(k)
           o == [NoOp EXCEPT !.call = call, !.pc = "resume", !.next = "delayed",
                             !.since = now]
<1>3. op' = [op EXCEPT ![t] = o]
  BY <1>2
<1> HIDE DEF now
<1>4. IsOp(o) /\ o.pc = "resume" /\ o.next = "delayed"
  <2>1. o = [NoOp EXCEPT !.call = call, !.pc = "resume", !.next = "delayed",
                         !.since = now]
    OBVIOUS
  <2> HIDE DEF o
  <2> QED
    BY <2>1, NoOpIs DEF IsOp
<1> HIDE DEF o
<1> QED
  BY <1>1, <1>3, <1>4, PlaceMoves

LEMMA CallMoves ==
    ASSUME Stored, NEW t \in Users, Calls(t)
    PROVE  Formed' /\ Moved /\ Calling'
<1>1. PICK call \in plan[t] :
        /\ call.fn \in QueueCalls
        /\ IF HoldsAgain(t, call) THEN Recurses(t, call)
           ELSE Try(t, [NoOp EXCEPT !.call = call, !.ticks = call.wait, !.since = Now(k)])
  BY DEF Calls
<1>2. call \in QueueCall /\ call.q \in DOMAIN Queues
  BY <1>1, PlannedIsCall, CallIsLegal DEF Stored, Callers
<1>3. CASE HoldsAgain(t, call)
  <2> DEFINE q == call.q
             m == IF Takes(call) THEN queue[q].recursion + 1 ELSE queue[q].recursion - 1
             c == [queue[q] EXCEPT !.recursion = m]
  <2>1. /\ queue' = [queue EXCEPT ![q] = c] /\ items' = items /\ out' = out
        /\ Returns(t, "pass")
    BY <1>1, <1>3 DEF Recurses
  <2> HIDE DEF m
  <2>2. IsQueue(queue[q])
    BY <1>2 DEF Stored, Formed
  <2>3. /\ IsQueue(c) /\ c.n = queue[q].n /\ c.buf = queue[q].buf
        /\ c.read = queue[q].read /\ c.write = queue[q].write
    BY <2>2 DEF IsQueue
  <2>4. Calling'
    BY <2>1, ReturnMoves DEF Stored
  <2> HIDE DEF c, q
  <2> QED
    BY <1>2, <2>1, <2>3, <2>4, OthersMove DEF Stored, q
<1>4. CASE ~HoldsAgain(t, call)
  <2> DEFINE wait == call.wait
             now == Now(k)
             o == [NoOp EXCEPT !.call = call, !.ticks = wait, !.since = now]
  <2>1. Try(t, o)
    BY <1>1, <1>4
  <2> HIDE DEF wait, now
  <2>2. IsOp(o) /\ o.call = call
    <3>1. o = [NoOp EXCEPT !.call = call, !.ticks = wait, !.since = now]
      OBVIOUS
    <3> HIDE DEF o
    <3> QED
      BY <3>1, NoOpIs DEF IsOp
  <2> HIDE DEF o
  <2> QED
    BY <1>2, <2>1, <2>2, TryMoves DEF Stored
<1> QED
  BY <1>3, <1>4

LEMMA TaskMoves ==
    ASSUME Stored, NEW t \in Users, Task(t)
    PROVE  Formed' /\ Moved /\ Calling'
<1> USE DEF Stored
<1>1. CASE Calls(t)
  BY <1>1, CallMoves
<1>2. CASE vTaskDelay(t)
  BY <1>2, DelayMoves
<1>3. CASE Finishes(t)
  BY <1>3, SameMoves DEF Finishes, Calling
<1>4. CASE Suspends(t)
  <2>1. op[t].call \in QueueCall /\ Goto(t, "lock")
    BY <1>4, InCall DEF Suspends, Going
  <2> QED
    BY <1>4, <2>1, SameMoves, GotoMoves DEF Suspends
<1>5. CASE LocksAndChecks(t)
  BY <1>5, LockMoves
<1>6. CASE Tests(t)
  <2>1. op[t].call \in QueueCall
    BY <1>6, InCall DEF Tests, Going
  <2> QED
    BY <1>6, <2>1, SameMoves, GotoMoves DEF Tests
<1>7. CASE Places(t)
  BY <1>7, PlacesMoves
<1>8. CASE UnlocksTx(t) \/ UnlocksRx(t)
  BY <1>8, UnlockMoves
<1>9. CASE Resumes(t)
  BY <1>9, ResumeMoves
<1>10. CASE Retries(t)
  <2>1. op[t].call \in QueueCall /\ IsOp(op[t]) /\ Try(t, op[t])
    BY <1>10, InCall DEF Retries, Going
  <2> QED
    BY <2>1, TryMoves
<1>11. CASE Rechecks(t)
  <2>1. op[t].call \in QueueCall
    BY <1>11, InCall DEF Rechecks, Going
  <2>2. Goto(t, "try") \/ Goto(t, "disinherit") \/ Returns(t, "fail")
    BY <1>11 DEF Rechecks
  <2> QED
    BY <1>11, <2>1, <2>2, SameMoves, GotoMoves, ReturnMoves DEF Rechecks
<1>12. CASE Disinherits(t)
  BY <1>12, SameMoves, ReturnMoves DEF Disinherits
<1> QED
  BY <1>1, <1>2, <1>3, <1>4, <1>5, <1>6, <1>7, <1>8, <1>9, <1>10, <1>11, <1>12 DEF Task

LEMMA InterruptMoves ==
    ASSUME Stored, Interrupt
    PROVE  Formed' /\ Moved /\ Calling'
<1>1. Calling'
  BY DEF Stored, Interrupt, Calling
<1>2. PICK call \in plan["isr"] :
        /\ call.fn \in QueueCalls
        /\ \/ Sends(call) /\ ~Gives(call) /\ xQueueGenericSendFromISR(call)
           \/ Gives(call) /\ xQueueGiveFromISR(call)
           \/ call.fn \in {"receive", "take"} /\ xQueueReceiveFromISR(call)
  BY DEF Interrupt
<1> DEFINE q == call.q
<1>3. call \in QueueCall /\ q \in DOMAIN Queues /\ (Gives(call) => q \notin Data)
  <2>1. "isr" \in Callers
    BY DEF Callers
  <2> QED
    BY <1>2, <2>1, PlannedIsCall, CallIsLegal DEF Stored, Data
<1>4. IsQueue(queue[q])
  BY <1>3 DEF Stored, Formed
<1>5. CASE Sends(call) /\ ~Gives(call) /\ xQueueGenericSendFromISR(call)
  <2> DEFINE copy == CopyItem(queue, q, Len(items) + 1, Position(call))
             locked == [copy EXCEPT !.tx = queue[q].tx + 1]
  <2>1. IsQueue(copy) /\ copy.tx = queue[q].tx
    BY <1>4 DEF CopyItem, IsQueue
  <2>2. CanProceed(queue, call) /\ Recorded(call)
    BY <1>5 DEF xQueueGenericSendFromISR
  <2>3. \/ queue' = [queue EXCEPT ![q] = copy]
        \/ queue' = [[queue EXCEPT ![q] = copy] EXCEPT ![q].tx = @ + 1]
    BY <1>5 DEF xQueueGenericSendFromISR
  <2> HIDE DEF copy
  <2>4. /\ IsQueue(locked) /\ locked.n = copy.n /\ locked.buf = copy.buf
        /\ locked.read = copy.read /\ locked.write = copy.write
    BY <2>1 DEF IsQueue
  <2>5. queue' = [queue EXCEPT ![q] = copy] \/ queue' = [queue EXCEPT ![q] = locked]
    BY <1>3, <2>1, <2>3 DEF Stored, Formed
  <2> HIDE DEF locked, q
  <2> QED
    BY <1>1, <1>3, <1>5, <2>1, <2>2, <2>4, <2>5, SendMoves DEF Stored, copy, q
<1>6. CASE Gives(call) /\ xQueueGiveFromISR(call)
  <2> DEFINE given == [queue[q] EXCEPT !.n = @ + 1]
             locked == [queue[q] EXCEPT !.n = @ + 1, !.tx = @ + 1]
  <2>1. \/ queue' = [queue EXCEPT ![q] = given]
        \/ queue' = [queue EXCEPT ![q] = locked]
    BY <1>3, <1>4, <1>6 DEF xQueueGiveFromISR, Stored, Formed, IsQueue
  <2>2. IsQueue(given)
    BY <1>4 DEF IsQueue
  <2>3. IsQueue(locked)
    <3> DEFINE n == queue[q].n + 1
               tx == queue[q].tx + 1
    <3>1. locked = [queue[q] EXCEPT !.n = n, !.tx = tx]
      OBVIOUS
    <3> HIDE DEF locked, n, tx
    <3> QED
      BY <1>4, <3>1 DEF IsQueue
  <2>4. UNCHANGED <<items, out>>
    BY <1>6 DEF xQueueGiveFromISR
  <2> HIDE DEF given, locked, q
  <2> QED
    BY <1>1, <1>3, <1>6, <2>1, <2>2, <2>3, <2>4, OthersMove DEF Stored
<1>7. CASE call.fn \in {"receive", "take"} /\ xQueueReceiveFromISR(call)
  <2> DEFINE copy == prvCopyDataFromQueue(queue[q], q)
             taken == [copy EXCEPT !.n = @ - 1]
             locked == [taken EXCEPT !.rx = queue[q].rx + 1]
  <2>1. IsQueue(copy) /\ copy.rx = queue[q].rx
    BY <1>4 DEF prvCopyDataFromQueue, IsQueue
  <2>2. CanProceed(queue, call) /\ Recorded(call) /\ (call.fn = "receive" \/ Takes(call))
    BY <1>7 DEF xQueueReceiveFromISR, Takes
  <2>3. \/ queue' = [queue EXCEPT ![q] = taken]
        \/ queue' = [[queue EXCEPT ![q] = taken] EXCEPT ![q].rx = @ + 1]
    BY <1>7 DEF xQueueReceiveFromISR
  <2> HIDE DEF copy
  <2>4. /\ IsQueue(taken) /\ taken.n = copy.n - 1 /\ taken.buf = copy.buf
        /\ taken.read = copy.read /\ taken.write = copy.write /\ taken.rx = copy.rx
    BY <2>1 DEF IsQueue
  <2> HIDE DEF taken
  <2>5. /\ IsQueue(locked) /\ locked.n = copy.n - 1 /\ locked.buf = copy.buf
        /\ locked.read = copy.read /\ locked.write = copy.write
    BY <2>4 DEF IsQueue
  <2>6. queue' = [queue EXCEPT ![q] = taken] \/ queue' = [queue EXCEPT ![q] = locked]
    BY <1>3, <2>1, <2>3, <2>4 DEF Stored, Formed
  <2> HIDE DEF locked, q
  <2> QED
    BY <1>1, <1>3, <2>1, <2>2, <2>4, <2>5, <2>6, TakeMoves DEF Stored, copy, q
<1> QED
  BY <1>2, <1>5, <1>6, <1>7

\* One item moves at most, whoever makes the step.
LEMMA StepMoves ==
    ASSUME Stored, [Next]_vars
    PROVE  plan' \in Scenarios /\ Formed' /\ Moved /\ Calling'
<1>1. CASE PendSV /\ queueUnchanged
  BY <1>1, SameMoves DEF Stored, queueUnchanged, Calling
<1>2. CASE xPortSysTickHandler /\ queueUnchanged
  BY <1>2, SameMoves DEF Stored, queueUnchanged, Calling
<1>3. CASE prvIdleTask /\ queueUnchanged
  BY <1>3, SameMoves DEF Stored, queueUnchanged, Calling
<1>4. ASSUME NEW t \in Users, Task(t) PROVE plan' \in Scenarios /\ Formed' /\ Moved /\ Calling'
  <2>1. plan' = plan
    BY <1>4 DEF Task, Calls, vTaskDelay, Finishes, Suspends, LocksAndChecks, Tests, Places,
                UnlocksTx, UnlocksRx, Resumes, Retries, Rechecks, Disinherits, cpuUnchanged
  <2> QED
    BY <1>4, <2>1, TaskMoves DEF Stored
<1>5. CASE Interrupt
  <2>1. plan' = plan
    BY <1>5 DEF Interrupt, cpuUnchanged
  <2> QED
    BY <1>5, <2>1, InterruptMoves DEF Stored
<1>6. CASE UNCHANGED vars
  BY <1>6, SameMoves DEF Stored, vars, Calling
<1> QED
  BY <1>1, <1>2, <1>3, <1>4, <1>5, <1>6 DEF Next

-----------------------------------------------------------------------------
(* The refinement.                                                         *)

LEMMA MappingIs ==
    /\ Bounded = [q \in Data |-> Size(q)]
    /\ \A q \in Data : Held[q] = ContentsOf(q, queue[q]) /\ Taken[q] = out[q]
    /\ \A q \in Data : Held'[q] = ContentsOf(q, queue'[q]) /\ Taken'[q] = out'[q]
BY DEF Bounded, Held, Taken, Size, Contents, ContentsOf, Slot

LEMMA HeldType ==
    ASSUME Rings, NEW q \in Data
    PROVE  /\ q \in DOMAIN Queues /\ Ring(q, queue[q])
           /\ Held[q] = ContentsOf(q, queue[q]) /\ Held[q] \in Seq(Nat)
           /\ Len(Held[q]) = queue[q].n /\ Taken[q] = out[q] /\ out[q] \in Seq(Nat)
           /\ queue[q].n <= Size(q) /\ queue[q].n \in Nat /\ Size(q) \in Nat
<1>1. q \in DOMAIN Queues /\ Ring(q, queue[q]) /\ out[q] \in Seq(Nat)
  BY DEF Rings, Data
<1> QED
  BY <1>1, ContentsType, RingIs, MappingIs

LEMMA SameHeld ==
    ASSUME Rings, NEW q \in Data, SameData(q)
    PROVE  Ring(q, queue'[q]) /\ Held'[q] = Held[q] /\ Taken'[q] = Taken[q]
<1>1. Ring(q, queue[q])
  BY HeldType
<1>2. Ring(q, queue'[q])
  BY <1>1 DEF SameData, Ring
<1>3. ContentsOf(q, queue'[q]) = ContentsOf(q, queue[q])
  BY DEF SameData, ContentsOf
<1> QED
  BY <1>2, <1>3, MappingIs DEF SameData

\* An item put is Append, a push to the front or a replacement.
LEMMA PutHeld ==
    ASSUME Rings, NEW q \in Data, PutsItem(q)
    PROVE  /\ Ring(q, queue'[q]) /\ Taken'[q] = Taken[q]
           /\ \E item \in {Held'[q][i] : i \in DOMAIN Held'[q]} \cap Nat :
                \/ Held'[q] = Append(Held[q], item)
                \/ Held'[q] = <<item>> \o Held[q]
                \/ Held'[q] = <<item>> /\ Bounded[q] = 1
           /\ Len(Held'[q]) <= Bounded[q]
<1>1. PICK item \in Nat : PutsBack(q, item) \/ PutsBefore(q, item)
  BY DEF PutsItem
<1>2. /\ q \in DOMAIN Queues /\ Ring(q, queue[q])
      /\ Held[q] = ContentsOf(q, queue[q]) /\ Held[q] \in Seq(Nat)
      /\ Held'[q] = ContentsOf(q, queue'[q]) /\ Bounded[q] = Size(q)
  BY HeldType, MappingIs
<1>3. Taken'[q] = Taken[q]
  BY MappingIs DEF PutsItem
<1> DEFINE new == ContentsOf(q, queue'[q])
           old == ContentsOf(q, queue[q])
<1>4. CASE PutsBack(q, item)
  <2>1. Ring(q, queue'[q]) /\ new = Append(old, item)
    <3>1. /\ queue[q].n < Size(q) /\ queue'[q].n = queue[q].n + 1
          /\ queue'[q].buf = [queue[q].buf EXCEPT ![queue[q].write] = item]
          /\ queue'[q].write = NextSlot(q, queue[q].write)
          /\ queue'[q].read = queue[q].read
      BY <1>4 DEF PutsBack
    <3>2. Written(q, queue[q].buf, queue'[q].buf, queue[q].write, item)
      BY <1>2, <3>1, RingIs, WrittenIs
    <3> DEFINE c == queue[q]
               d == queue'[q]
    <3>3. /\ Ring(q, c) /\ c.n < Size(q) /\ d.n = c.n + 1 /\ d.read = c.read
          /\ d.write = NextSlot(q, c.write) /\ Written(q, c.buf, d.buf, c.write, item)
      BY <1>2, <3>1, <3>2
    <3>4. new = ContentsOf(q, d) /\ old = ContentsOf(q, c)
      OBVIOUS
    <3> HIDE DEF new, old, c, d
    <3>5. Ring(q, d) /\ ContentsOf(q, d) = AtBack(ContentsOf(q, c), item)
      BY <1>2, <3>3, BackIs
    <3> QED
      BY <3>4, <3>5 DEF d, AtBack
  <2>2. \E i \in DOMAIN new : new[i] = item
    <3> HIDE DEF old
    <3>1. Append(old, item)[Len(old) + 1] = item /\ Len(old) + 1 \in DOMAIN Append(old, item)
      BY <1>2 DEF old
    <3> HIDE DEF new
    <3> QED
      BY <2>1, <3>1
  <2>3. Len(new) <= Size(q)
    <3>1. Len(new) = queue'[q].n
      BY <1>2, <2>1, ContentsType
    <3> HIDE DEF new
    <3> QED
      BY <1>2, <2>1, <3>1, RingIs
  <2> HIDE DEF new, old
  <2> QED
    BY <1>2, <1>3, <2>1, <2>2, <2>3 DEF new, old
<1>5. CASE PutsBefore(q, item)
  <2>1. CASE queue[q].n < Size(q) /\ queue'[q].n = queue[q].n + 1
    <3>1. Ring(q, queue'[q]) /\ new = <<item>> \o old
      <4>1. /\ queue'[q].buf = [queue[q].buf EXCEPT ![queue[q].read] = item]
            /\ queue'[q].read = PreviousSlot(q, queue[q].read)
            /\ queue'[q].write = queue[q].write
        BY <1>5 DEF PutsBefore
      <4>2. Written(q, queue[q].buf, queue'[q].buf, queue[q].read, item)
        BY <1>2, <4>1, RingIs, WrittenIs
      <4> DEFINE c == queue[q]
                 d == queue'[q]
      <4>3. /\ Ring(q, c) /\ c.n < Size(q) /\ d.n = c.n + 1 /\ d.write = c.write
            /\ d.read = PreviousSlot(q, c.read)
            /\ Written(q, c.buf, d.buf, c.read, item)
        BY <1>2, <2>1, <4>1, <4>2
      <4>4. new = ContentsOf(q, d) /\ old = ContentsOf(q, c)
        OBVIOUS
      <4> HIDE DEF new, old, c, d
      <4>5. Ring(q, d) /\ ContentsOf(q, d) = AtFront(ContentsOf(q, c), item)
        BY <1>2, <4>3, FrontIs
      <4> QED
        BY <4>4, <4>5 DEF d, AtFront
    <3>2. \E i \in DOMAIN new : new[i] = item
      <4>1. (<<item>> \o old)[1] = item /\ 1 \in DOMAIN (<<item>> \o old)
        <5>1. old \in Seq(Nat) /\ <<item>> \in Seq(Nat) /\ Len(<<item>>) = 1
              /\ <<item>>[1] = item
          BY <1>2
        <5> DEFINE one == <<item>>
                   both == one \o old
        <5> HIDE DEF old, one
        <5>2. both[1] = one[1] /\ DOMAIN both = 1..(1 + Len(old)) /\ Len(old) \in Nat
          BY <5>1, FirstBefore DEF one
        <5> HIDE DEF both
        <5>3. both[1] = item /\ 1 \in DOMAIN both
          BY <5>1, <5>2 DEF one
        <5> QED
          BY <5>3 DEF both, one
      <4> HIDE DEF new, old
      <4> QED
        BY <3>1, <4>1
    <3>3. Len(new) <= Size(q)
      BY <1>2, <3>1, ContentsType, RingIs
    <3> HIDE DEF new, old
    <3> QED
      BY <1>2, <1>3, <3>1, <3>2, <3>3 DEF new, old
  <2>2. CASE Size(q) = 1 /\ queue'[q].n = 1
    <3>1. Ring(q, queue'[q]) /\ new = <<item>>
      <4>1. /\ queue'[q].buf = [queue[q].buf EXCEPT ![queue[q].read] = item]
            /\ queue'[q].read = PreviousSlot(q, queue[q].read)
            /\ queue'[q].write = queue[q].write
        BY <1>5 DEF PutsBefore
      <4>2. Written(q, queue[q].buf, queue'[q].buf, queue[q].read, item)
        BY <1>2, <4>1, RingIs, WrittenIs
      <4> HIDE DEF new, old
      <4>3. Ring(q, queue'[q])
        BY <1>2, <2>2, <4>1, <4>2, OverwriteIs
      <4>4. new = <<item>>
        BY <1>2, <2>2, <4>1, <4>2, OverwriteIs DEF new, old
      <4> QED
        BY <4>3, <4>4
    <3>2. (\E i \in DOMAIN new : new[i] = item) /\ Len(new) <= Size(q)
      <4>1. <<item>>[1] = item /\ 1 \in DOMAIN <<item>> /\ Len(<<item>>) = 1
        OBVIOUS
      <4> HIDE DEF new
      <4> QED
        BY <2>2, <3>1, <4>1
    <3> HIDE DEF new
    <3> QED
      BY <1>2, <1>3, <2>2, <3>1, <3>2 DEF new
  <2> QED
    BY <1>5, <2>1, <2>2 DEF PutsBefore
<1> QED
  BY <1>1, <1>4, <1>5

LEMMA TakeHeld ==
    ASSUME Rings, NEW q \in Data, TakesItem(q)
    PROVE  /\ Ring(q, queue'[q]) /\ Held[q] # <<>>
           /\ Held'[q] = Tail(Held[q]) /\ Head(Held[q]) \in Nat
           /\ Taken'[q] = Append(Taken[q], Head(Held[q]))
<1>1. /\ q \in DOMAIN Queues /\ Ring(q, queue[q]) /\ Held[q] = ContentsOf(q, queue[q])
      /\ Held'[q] = ContentsOf(q, queue'[q])
  BY HeldType, MappingIs
<1>2. /\ Ring(q, queue'[q]) /\ ContentsOf(q, queue[q]) # <<>>
      /\ ContentsOf(q, queue'[q]) = Tail(ContentsOf(q, queue[q]))
      /\ Oldest(queue[q], q) = Head(ContentsOf(q, queue[q])) /\ Oldest(queue[q], q) \in Nat
  BY <1>1, ReceiveIs DEF TakesItem
<1>3. Taken'[q] = Append(Taken[q], Oldest(queue[q], q))
  BY MappingIs DEF TakesItem
<1> QED
  BY <1>1, <1>2, <1>3

\* The buffers stay circular buffers of what was put and not yet taken.
LEMMA RingsKept ==
    ASSUME Rings, Moved
    PROVE  Rings'
<1> SUFFICES ASSUME NEW q \in Data
             PROVE  Ring(q, queue'[q]) /\ out'[q] \in Seq(Nat)
  BY DEF Rings, Ring, Data
<1>1. out[q] \in Seq(Nat)
  BY DEF Rings
<1>2. CASE SameData(q)
  BY <1>1, <1>2, SameHeld DEF SameData
<1>3. CASE PutsItem(q)
  BY <1>1, <1>3, PutHeld DEF PutsItem
<1>4. CASE TakesItem(q)
  <2>1. Ring(q, queue'[q]) /\ Head(Held[q]) \in Nat
        /\ Taken'[q] = Append(Taken[q], Head(Held[q]))
    BY <1>4, TakeHeld
  <2>2. Taken'[q] = out'[q] /\ Taken[q] = out[q]
    BY MappingIs
  <2> DEFINE h == Head(Held[q])
  <2> HIDE DEF h
  <2>3. out'[q] = Append(out[q], h) /\ h \in Nat
    BY <2>1, <2>2 DEF h
  <2> QED
    BY <1>1, <2>1, <2>3
<1> QED
  BY <1>2, <1>3, <1>4 DEF Moved

LEMMA StoredInductive ==
    ASSUME Stored, [Next]_vars
    PROVE  Stored'
BY StepMoves, RingsKept DEF Stored

LEMMA NewQueueIs ==
    ASSUME NEW q \in DOMAIN Queues, NEW c, c = xQueueGenericCreate(q)
    PROVE  /\ IsQueue(c)
           /\ q \in Data => Ring(q, c) /\ c.n = 0
<1> DEFINE zeros == [i \in 0 .. Size(q) - 1 |-> 0]
           last == Size(q) - 1
           n == IF Queues[q].kind = "mutex" THEN 1 ELSE 0
<1>1. Size(q) \in Nat \ {0}
  BY SizeIs
<1>2. zeros \in [0 .. Size(q) - 1 -> Nat] /\ last \in 0 .. Size(q) - 1
      /\ 0 \in 0 .. Size(q) - 1 /\ 0 \in 0 .. Size(q)
  BY <1>1
<1>3. c = [[n |-> 0, buf |-> zeros, write |-> 0, read |-> last, rx |-> Unlocked,
            tx |-> Unlocked, holder |-> NoTask, recursion |-> 0] EXCEPT !.n = n]
  BY DEF xQueueGenericCreate, xQueueGenericReset, Size
<1> HIDE DEF zeros, last, n
<1>4. c = [n |-> n, buf |-> zeros, write |-> 0, read |-> last,
           rx |-> Unlocked, tx |-> Unlocked, holder |-> NoTask, recursion |-> 0]
  BY <1>3
<1>5. IsQueue(c)
  BY <1>4 DEF IsQueue
<1>6. ASSUME q \in Data PROVE Ring(q, c) /\ c.n = 0
  <2>1. n = 0
    BY <1>6 DEF n, Data, HoldsData
  <2>2. Slot(Size(q), Slot(Size(q), last, 1), 0) = 0
    <3>1. Slot(Size(q), last, 1) = 0
      <4>1. 1 \in 0 .. Size(q) /\ last + 1 = Size(q) /\ last + 1 - Size(q) = 0
        BY <1>1 DEF last
      <4>2. Slot(Size(q), last, 1) =
              IF last + 1 < Size(q) THEN last + 1 ELSE last + 1 - Size(q)
        BY <1>1, <1>2, <4>1, SlotIs
      <4> QED
        BY <1>1, <4>1, <4>2
    <3> QED
      BY <1>1, <1>2, <3>1, SlotRound
  <2> QED
    BY <1>2, <1>4, <2>1, <2>2 DEF Ring
<1> QED
  BY <1>5, <1>6

LEMMA StoredInit == Init => Stored /\ Fifo!Init
<1> SUFFICES ASSUME Init PROVE Stored /\ Fifo!Init
  OBVIOUS
<1>1. /\ queue = [q \in DOMAIN Queues |-> xQueueGenericCreate(q)]
      /\ op = [t \in Users |-> NoOp] /\ plan \in Scenarios /\ items = <<>>
      /\ out = [q \in DOMAIN Queues |-> <<>>]
  BY DEF Init, QueueInit
<1>2. \A q \in DOMAIN Queues :
        IsQueue(queue[q]) /\ (q \in Data => Ring(q, queue[q]) /\ queue[q].n = 0)
  BY <1>1, NewQueueIs
<1>3. Formed
  BY <1>1, <1>2 DEF Formed
<1>4. Calling
  BY <1>1, NoOpIs DEF Calling
<1>5. Rings
  BY <1>1, <1>2 DEF Rings, Data
<1>6. ASSUME NEW q \in Data PROVE Held[q] = <<>> /\ Taken[q] = <<>>
  <2>1. Held[q] \in Seq(Nat) /\ Len(Held[q]) = 0
    BY <1>2, <1>5, HeldType DEF Data
  <2> QED
    BY <1>1, <2>1 DEF Taken, Data
<1>7. Fifo!Init
  <2>1. DOMAIN Bounded = Data
    BY DEF Bounded
  <2>2. Held = [q \in Data |-> <<>>] /\ Taken = [q \in Data |-> <<>>]
    BY <1>6 DEF Held, Taken
  <2> QED
    BY <2>1, <2>2, MappingIs DEF Fifo!Init
<1> QED
  BY <1>1, <1>3, <1>4, <1>5, <1>7 DEF Stored

\* A step of the kernel is a step of the bounded sequences or leaves them alone.
LEMMA StepIsFifo ==
    ASSUME Stored, [Next]_vars
    PROVE  [Fifo!Next]_<<Held, Taken>>
<1>1. Rings /\ Moved
  BY StepMoves DEF Stored
<1>2. /\ Held = [q \in Data |-> Held[q]] /\ Held' = [q \in Data |-> Held'[q]]
      /\ Taken = [q \in Data |-> Taken[q]] /\ Taken' = [q \in Data |-> Taken'[q]]
      /\ DOMAIN Bounded = Data
  BY DEF Held, Taken, Bounded
<1>3. CASE \A q \in Data : SameData(q)
  <2>1. \A q \in Data : Held'[q] = Held[q] /\ Taken'[q] = Taken[q]
    BY <1>1, <1>3, SameHeld
  <2>2. Held' = Held /\ Taken' = Taken
    BY <1>2, <2>1
  <2> QED
    BY <2>2
<1>4. ASSUME NEW q \in Data, \A r \in Data \ {q} : SameData(r), PutsItem(q)
      PROVE  Fifo!Next
  <2>1. \A r \in Data \ {q} : Held'[r] = Held[r] /\ Taken'[r] = Taken[r]
    BY <1>1, <1>4, SameHeld
  <2>2. /\ Taken'[q] = Taken[q] /\ Len(Held'[q]) <= Bounded[q]
        /\ \E item \in {Held'[q][i] : i \in DOMAIN Held'[q]} \cap Nat :
             \/ Held'[q] = Append(Held[q], item)
             \/ Held'[q] = <<item>> \o Held[q]
             \/ Held'[q] = <<item>> /\ Bounded[q] = 1
    BY <1>1, <1>4, PutHeld
  <2>3. Taken' = Taken
    BY <1>2, <2>1, <2>2
  <2> DEFINE s == Held'[q]
  <2>4. \A r \in Data : Held'[r] = IF r = q THEN s ELSE Held[r]
    BY <2>1
  <2> HIDE DEF s
  <2>5. Held' = [Held EXCEPT ![q] = s]
    BY <1>2, <2>4
  <2>6. Held' = [Held EXCEPT ![q] = Held'[q]]
    BY <2>5 DEF s
  <2>7. Fifo!Put(q, Held'[q])
    BY <2>2, <2>3, <2>6 DEF Fifo!Put
  <2> QED
    BY <1>2, <2>7 DEF Fifo!Next
<1>5. ASSUME NEW q \in Data, \A r \in Data \ {q} : SameData(r), TakesItem(q)
      PROVE  Fifo!Next
  <2>1. \A r \in Data \ {q} : Held'[r] = Held[r] /\ Taken'[r] = Taken[r]
    BY <1>1, <1>5, SameHeld
  <2>2. /\ Held[q] # <<>> /\ Held'[q] = Tail(Held[q])
        /\ Taken'[q] = Append(Taken[q], Head(Held[q]))
    BY <1>1, <1>5, TakeHeld
  <2> DEFINE s == Tail(Held[q])
             d == Append(Taken[q], Head(Held[q]))
  <2>3. \A r \in Data : /\ Held'[r] = IF r = q THEN s ELSE Held[r]
                        /\ Taken'[r] = IF r = q THEN d ELSE Taken[r]
    BY <2>1, <2>2
  <2> HIDE DEF s, d
  <2>4. Held' = [Held EXCEPT ![q] = s] /\ Taken' = [Taken EXCEPT ![q] = d]
    BY <1>2, <2>3
  <2>5. /\ Held' = [Held EXCEPT ![q] = Tail(Held[q])]
        /\ Taken' = [Taken EXCEPT ![q] = Append(Taken[q], Head(Held[q]))]
    BY <2>4 DEF s, d
  <2>6. Fifo!Take(q)
    BY <1>2, <2>2, <2>5 DEF Fifo!Take
  <2> QED
    BY <1>2, <2>6 DEF Fifo!Next
<1> QED
  BY <1>1, <1>3, <1>4, <1>5 DEF Moved

\* Whatever tasks and interrupts do between the critical sections of each other's
\* calls, every data queue is a bounded sequence: an item is added at an end or
\* replaces the only one, no more are held than its length, and each is taken
\* once, from the front (the copies and the counts of queue.c).
THEOREM QueuesAreBoundedSequences == Spec => FifoSpec
<1>1. Init => Stored /\ Fifo!Init
  BY StoredInit
<1>2. Stored /\ [Next]_vars => Stored'
  BY StoredInductive
<1>3. Stored /\ [Next]_vars => [Fifo!Next]_<<Held, Taken>>
  BY StepIsFifo
<1> QED
  BY <1>1, <1>2, <1>3, PTL DEF Spec, FifoSpec, Fifo!Spec

-----------------------------------------------------------------------------
(* list.c: lists that hold an item at most once.                           *)

NoDup(s) == \A i, j \in 1 .. Len(s) : s[i] = s[j] => i = j

LEMMA SetOf ==
    ASSUME NEW T, NEW s \in Seq(T)
    PROVE  /\ ToSet(s) = {s[i] : i \in 1 .. Len(s)} /\ ToSet(s) \subseteq T
           /\ s # <<>> => Head(s) \in ToSet(s) /\ Head(s) = s[1] /\ Len(s) \in Nat \ {0}
           /\ s = <<>> => ToSet(s) = {}
<1>1. DOMAIN s = 1 .. Len(s)
  OBVIOUS
<1>2. ToSet(s) = {s[i] : i \in 1 .. Len(s)} /\ ToSet(s) \subseteq T
  BY <1>1 DEF ToSet
<1>3. s # <<>> => Head(s) = s[1] /\ Len(s) \in Nat \ {0}
  OBVIOUS
<1>4. s # <<>> => 1 \in 1 .. Len(s)
  BY <1>3
<1> QED
  BY <1>2, <1>3, <1>4

\* An item in front of the one at place i, or behind the last.
LEMMA InsertedIs ==
    ASSUME NEW T, NEW s \in Seq(T), NEW e \in T, NEW i \in 1 .. Len(s) + 1
    PROVE  /\ InsertAt(s, i, e) \in Seq(T) /\ Len(InsertAt(s, i, e)) = Len(s) + 1
           /\ \A j \in 1 .. Len(s) + 1 : InsertAt(s, i, e)[j] =
                IF j < i THEN s[j] ELSE IF j = i THEN e ELSE s[j - 1]
<1>1. Len(s) \in Nat /\ i \in Nat /\ i - 1 \in 0 .. Len(s) /\ (i - 1) + 1 = i
  OBVIOUS
<1> DEFINE a == SubSeq(s, 1, i - 1)
           m == <<e>>
           z == SubSeq(s, i, Len(s))
<1>2. /\ a \in Seq(T) /\ Len(a) = i - 1 /\ \A j \in 1 .. i - 1 : a[j] = s[j]
      /\ z \in Seq(T) /\ Len(z) = Len(s) - (i - 1)
      /\ \A j \in 1 .. Len(s) - (i - 1) : z[j] = s[(i - 1) + j]
  BY <1>1, SplitAt
<1>3. m \in Seq(T) /\ Len(m) = 1 /\ m[1] = e
  OBVIOUS
<1>4. InsertAt(s, i, e) = (a \o m) \o z
  BY DEF InsertAt
<1> HIDE DEF a, m, z
<1>5. /\ a \o m \in Seq(T) /\ Len(a \o m) = i
      /\ \A j \in 1 .. i - 1 : (a \o m)[j] = s[j]
      /\ (a \o m)[i] = e
  <2>0. a \in Seq(T) /\ m \in Seq(T)
    BY <1>2, <1>3
  <2>1. /\ a \o m \in Seq(T) /\ Len(a \o m) = Len(a) + Len(m)
        /\ \A j \in 1 .. Len(a) : (a \o m)[j] = a[j]
        /\ \A j \in 1 .. Len(m) : (a \o m)[Len(a) + j] = m[j]
    BY <2>0, ConcatIs
  <2>2. Len(a) + Len(m) = i /\ Len(a) = i - 1 /\ 1 \in 1 .. Len(m) /\ Len(a) + 1 = i
    BY <1>1, <1>2, <1>3
  <2> QED
    BY <1>2, <1>3, <2>1, <2>2
<1> DEFINE y == a \o m
<1> HIDE DEF y
<1>6. /\ y \in Seq(T) /\ Len(y) = i /\ \A j \in 1 .. i - 1 : y[j] = s[j]
      /\ y[i] = e /\ InsertAt(s, i, e) = y \o z
  BY <1>4, <1>5 DEF y
<1>7. /\ y \o z \in Seq(T) /\ Len(y \o z) = Len(y) + Len(z)
      /\ \A j \in 1 .. Len(y) : (y \o z)[j] = y[j]
      /\ \A j \in 1 .. Len(z) : (y \o z)[Len(y) + j] = z[j]
  BY <1>2, <1>6, ConcatIs
<1>8. ASSUME NEW j \in 1 .. Len(s) + 1
      PROVE  (y \o z)[j] = IF j < i THEN s[j] ELSE IF j = i THEN e ELSE s[j - 1]
  <2>1. CASE j <= i
    <3>1. j \in 1 .. Len(y)
      BY <1>1, <1>6, <2>1
    <3> QED
      BY <1>1, <1>6, <1>7, <2>1, <3>1
  <2>2. CASE j > i
    <3>1. /\ j - i \in 1 .. Len(z) /\ Len(y) + (j - i) = j
          /\ j - i \in 1 .. Len(s) - (i - 1) /\ (i - 1) + (j - i) = j - 1
      BY <1>1, <1>2, <1>6, <2>2
    <3>2. (y \o z)[Len(y) + (j - i)] = z[j - i] /\ z[j - i] = s[(i - 1) + (j - i)]
      BY <1>2, <1>7, <3>1
    <3>3. (y \o z)[j] = s[j - 1]
      BY <3>1, <3>2
    <3> QED
      BY <1>1, <2>2, <3>3
  <2>3. j <= i \/ j > i
    BY <1>1
  <2> QED
    BY <2>1, <2>2, <2>3
<1>9. Len(y) + Len(z) = Len(s) + 1
  BY <1>1, <1>2, <1>6
<1> QED
  BY <1>6, <1>7, <1>8, <1>9

LEMMA InsertedSet ==
    ASSUME NEW T, NEW s \in Seq(T), NEW e \in T, NEW i \in 1 .. Len(s) + 1
    PROVE  /\ InsertAt(s, i, e) \in Seq(T) /\ Len(InsertAt(s, i, e)) = Len(s) + 1
           /\ ToSet(InsertAt(s, i, e)) = ToSet(s) \cup {e}
           /\ NoDup(s) /\ e \notin ToSet(s) => NoDup(InsertAt(s, i, e))
<1> DEFINE r == InsertAt(s, i, e)
<1>1. /\ r \in Seq(T) /\ Len(r) = Len(s) + 1
      /\ \A j \in 1 .. Len(s) + 1 :
            r[j] = IF j < i THEN s[j] ELSE IF j = i THEN e ELSE s[j - 1]
  BY InsertedIs
<1> HIDE DEF r
<1>2. ToSet(r) = {r[j] : j \in 1 .. Len(r)} /\ ToSet(s) = {s[j] : j \in 1 .. Len(s)}
  BY <1>1, SetOf
<1>3. Len(s) \in Nat /\ i \in Nat
  OBVIOUS
<1>4. ToSet(r) \subseteq ToSet(s) \cup {e}
  <2> SUFFICES ASSUME NEW j \in 1 .. Len(r), r[j] # e
               PROVE  r[j] \in ToSet(s)
    BY <1>2
  <2>1. CASE j < i
    <3>1. j \in 1 .. Len(s) /\ r[j] = s[j]
      BY <1>1, <1>3, <2>1
    <3> QED
      BY <1>2, <3>1
  <2>2. CASE j >= i
    <3>1. j # i /\ j \in 1 .. Len(s) + 1
      BY <1>1
    <3>2. j - 1 \in 1 .. Len(s) /\ r[j] = s[j - 1]
      BY <1>1, <1>3, <2>2, <3>1
    <3> QED
      BY <1>2, <3>2
  <2> QED
    BY <1>3, <2>1, <2>2
<1>5. ToSet(s) \cup {e} \subseteq ToSet(r)
  <2>1. i \in 1 .. Len(r) /\ r[i] = e
    BY <1>1, <1>3
  <2>2. ASSUME NEW j \in 1 .. Len(s) PROVE s[j] \in ToSet(r)
    <3>1. CASE j < i
      <4>1. j \in 1 .. Len(r) /\ r[j] = s[j]
        BY <1>1, <1>3, <3>1
      <4> QED
        BY <1>2, <4>1
    <3>2. CASE j >= i
      <4>1. j + 1 \in 1 .. Len(s) + 1 /\ ~(j + 1 < i) /\ j + 1 # i /\ (j + 1) - 1 = j
        BY <1>3, <3>2
      <4>2. j + 1 \in 1 .. Len(r) /\ r[j + 1] = s[j]
        BY <1>1, <4>1
      <4> QED
        BY <1>2, <4>2
    <3> QED
      BY <1>3, <3>1, <3>2
  <2> QED
    BY <1>2, <2>1, <2>2
<1>6. ASSUME NoDup(s), e \notin ToSet(s), NEW a \in 1 .. Len(r), NEW b \in 1 .. Len(r),
             r[a] = r[b]
      PROVE  a = b
  <2>1. a \in 1 .. Len(s) + 1 /\ b \in 1 .. Len(s) + 1
    BY <1>1
  <2>2. ASSUME NEW j \in 1 .. Len(s) + 1
        PROVE  \/ j = i /\ r[j] = e
               \/ \E m \in 1 .. Len(s) : /\ r[j] = s[m] /\ s[m] # e
                                         /\ j = IF m < i THEN m ELSE m + 1
    <3>1. CASE j < i
      <4>1. j \in 1 .. Len(s) /\ r[j] = s[j]
        BY <1>1, <1>3, <3>1
      <4> QED
        BY <1>2, <1>6, <3>1, <4>1
    <3>2. CASE j = i
      BY <1>1, <3>2
    <3>3. CASE j > i
      <4>1. j - 1 \in 1 .. Len(s) /\ r[j] = s[j - 1] /\ ~(j - 1 < i) /\ (j - 1) + 1 = j
        BY <1>1, <1>3, <3>3
      <4> QED
        BY <1>2, <1>6, <4>1
    <3> QED
      BY <1>3, <3>1, <3>2, <3>3
  <2>3. \/ a = i /\ r[a] = e
        \/ \E m \in 1 .. Len(s) : /\ r[a] = s[m] /\ s[m] # e
                                  /\ a = IF m < i THEN m ELSE m + 1
    BY <2>1, <2>2
  <2>4. \/ b = i /\ r[b] = e
        \/ \E m \in 1 .. Len(s) : /\ r[b] = s[m] /\ s[m] # e
                                  /\ b = IF m < i THEN m ELSE m + 1
    BY <2>1, <2>2
  <2> QED
    BY <1>6, <2>3, <2>4 DEF NoDup
<1>7. NoDup(s) /\ e \notin ToSet(s) => NoDup(r)
  BY <1>6 DEF NoDup
<1> QED
  BY <1>1, <1>4, <1>5, <1>7 DEF r

\* uxListRemove.
LEMMA RemovedSet ==
    ASSUME NEW T, NEW s \in Seq(T), NEW e
    PROVE  /\ uxListRemove(s, e) \in Seq(T) /\ ToSet(uxListRemove(s, e)) \subseteq ToSet(s)
           /\ ToSet(s) \ {e} \subseteq ToSet(uxListRemove(s, e))
           /\ NoDup(s) => /\ ToSet(uxListRemove(s, e)) = ToSet(s) \ {e}
                          /\ NoDup(uxListRemove(s, e))
<1>1. CASE e \notin ToSet(s)
  BY <1>1 DEF uxListRemove
<1>2. CASE e \in ToSet(s)
  <2> DEFINE i == CHOOSE j \in 1 .. Len(s) : s[j] = e
             r == uxListRemove(s, e)
  <2>1. i \in 1 .. Len(s) /\ s[i] = e
    BY <1>2, SetOf
  <2>2. r = RemoveAt(s, i)
    BY <1>2 DEF uxListRemove
  <2> HIDE DEF i, r
  <2> DEFINE a == SubSeq(s, 1, i - 1)
             z == SubSeq(s, i + 1, Len(s))
  <2>3. Len(s) \in Nat /\ i \in Nat /\ i - 1 \in 0 .. Len(s) /\ i \in 0 .. Len(s)
    BY <2>1
  <2>4. /\ a \in Seq(T) /\ Len(a) = i - 1 /\ \A j \in 1 .. i - 1 : a[j] = s[j]
    BY <2>3, SplitAt
  <2>5. /\ z \in Seq(T) /\ Len(z) = Len(s) - i
        /\ \A j \in 1 .. Len(s) - i : z[j] = s[i + j]
    BY <2>3, SplitAt
  <2>6. r = a \o z
    BY <2>2 DEF RemoveAt
  <2> HIDE DEF a, z
  <2>a. a \in Seq(T) /\ z \in Seq(T)
    BY <2>4, <2>5
  <2>7. /\ a \o z \in Seq(T) /\ Len(a \o z) = Len(a) + Len(z)
        /\ \A j \in 1 .. Len(a) : (a \o z)[j] = a[j]
        /\ \A j \in 1 .. Len(z) : (a \o z)[Len(a) + j] = z[j]
    BY <2>a, ConcatIs
  <2>8. r \in Seq(T) /\ Len(r) = Len(s) - 1
    BY <2>3, <2>4, <2>5, <2>6, <2>7
  <2>9. ASSUME NEW j \in 1 .. Len(s) - 1
        PROVE  r[j] = IF j < i THEN s[j] ELSE s[j + 1]
    <3>1. CASE j < i
      <4>1. j \in 1 .. i - 1 /\ j \in 1 .. Len(a)
        BY <2>3, <2>4, <3>1
      <4> QED
        BY <2>4, <2>6, <2>7, <3>1, <4>1
    <3>2. CASE j >= i
      <4>1. /\ j - (i - 1) \in 1 .. Len(z) /\ j - (i - 1) \in 1 .. Len(s) - i
            /\ Len(a) + (j - (i - 1)) = j /\ i + (j - (i - 1)) = j + 1
        BY <2>3, <2>4, <2>5, <3>2
      <4>2. /\ (a \o z)[Len(a) + (j - (i - 1))] = z[j - (i - 1)]
            /\ z[j - (i - 1)] = s[i + (j - (i - 1))]
        BY <2>5, <2>7, <4>1
      <4>3. (a \o z)[j] = s[j + 1]
        BY <4>1, <4>2
      <4> QED
        BY <2>3, <2>6, <3>2, <4>3
    <3> QED
      BY <2>3, <3>1, <3>2
  <2>10. ToSet(r) = {r[j] : j \in 1 .. Len(r)} /\ ToSet(s) = {s[j] : j \in 1 .. Len(s)}
    BY <2>8, SetOf
  <2>11. ASSUME NEW j \in 1 .. Len(r)
         PROVE  \E m \in 1 .. Len(s) : /\ r[j] = s[m] /\ m # i
                                       /\ j = IF m < i THEN m ELSE m - 1
    <3>1. CASE j < i
      <4>1. j \in 1 .. Len(s) - 1 /\ j \in 1 .. Len(s) /\ j # i
        BY <2>3, <2>8, <3>1
      <4> QED
        BY <2>9, <3>1, <4>1
    <3>2. CASE j >= i
      <4>1. /\ j \in 1 .. Len(s) - 1 /\ j + 1 \in 1 .. Len(s) /\ j + 1 # i
            /\ ~(j < i) /\ ~(j + 1 < i) /\ (j + 1) - 1 = j
        BY <2>3, <2>8, <3>2
      <4>2. r[j] = s[j + 1]
        BY <2>9, <4>1
      <4> QED
        BY <4>1, <4>2
    <3> QED
      BY <2>3, <3>1, <3>2
  <2>12. ToSet(r) \subseteq ToSet(s)
    BY <2>10, <2>11
  <2>13. ASSUME NEW m \in 1 .. Len(s), s[m] # e PROVE s[m] \in ToSet(r)
    <3>1. CASE m < i
      <4>1. m \in 1 .. Len(s) - 1 /\ m \in 1 .. Len(r)
        BY <2>3, <2>8, <3>1
      <4>2. r[m] = s[m]
        BY <2>9, <3>1, <4>1
      <4> QED
        BY <2>10, <4>1, <4>2
    <3>2. CASE m > i
      <4>1. /\ m - 1 \in 1 .. Len(s) - 1 /\ m - 1 \in 1 .. Len(r) /\ ~(m - 1 < i)
            /\ (m - 1) + 1 = m
        BY <2>3, <2>8, <3>2
      <4>2. r[m - 1] = s[m]
        BY <2>9, <4>1
      <4> QED
        BY <2>10, <4>1, <4>2
    <3> QED
      BY <2>1, <2>3, <2>13, <3>1, <3>2
  <2>14. ToSet(s) \ {e} \subseteq ToSet(r)
    BY <2>10, <2>13
  <2>15. ASSUME NoDup(s) PROVE e \notin ToSet(r) /\ NoDup(r)
    <3>1. ASSUME NEW j \in 1 .. Len(r) PROVE r[j] # e
      BY <2>1, <2>11, <2>15 DEF NoDup
    <3>2. ASSUME NEW j \in 1 .. Len(r), NEW l \in 1 .. Len(r), r[j] = r[l] PROVE j = l
      <4>1. PICK m \in 1 .. Len(s) : r[j] = s[m] /\ m # i /\ j = IF m < i THEN m ELSE m - 1
        BY <2>11
      <4>2. PICK n \in 1 .. Len(s) : r[l] = s[n] /\ n # i /\ l = IF n < i THEN n ELSE n - 1
        BY <2>11
      <4>3. m = n
        BY <2>15, <3>2, <4>1, <4>2 DEF NoDup
      <4> QED
        BY <4>1, <4>2, <4>3
    <3> QED
      BY <2>10, <3>1, <3>2 DEF NoDup
  <2> QED
    BY <2>8, <2>12, <2>14, <2>15 DEF r
<1> QED
  BY <1>1, <1>2

\* The tail of a list holds all but the head.
LEMMA TailSet ==
    ASSUME NEW T, NEW s \in Seq(T), s # <<>>
    PROVE  /\ Tail(s) \in Seq(T) /\ Len(Tail(s)) = Len(s) - 1
           /\ ToSet(s) = ToSet(Tail(s)) \cup {Head(s)}
           /\ NoDup(s) => Head(s) \notin ToSet(Tail(s)) /\ NoDup(Tail(s))
<1> DEFINE r == Tail(s)
<1>1. /\ r \in Seq(T) /\ Len(r) = Len(s) - 1 /\ Len(s) \in Nat \ {0} /\ Head(s) = s[1]
      /\ \A j \in 1 .. Len(s) - 1 : r[j] = s[j + 1]
  OBVIOUS
<1>2. ToSet(s) = ToSet(r) \cup {Head(s)}
  BY ElemsHead DEF Elems, ToSet
<1> HIDE DEF r
<1>3. ToSet(r) = {r[j] : j \in 1 .. Len(r)}
  BY <1>1, SetOf
<1>4. ASSUME NoDup(s) PROVE Head(s) \notin ToSet(r) /\ NoDup(r)
  <2>1. ASSUME NEW j \in 1 .. Len(r)
        PROVE  j + 1 \in 1 .. Len(s) /\ r[j] = s[j + 1] /\ j + 1 # 1 /\ 1 \in 1 .. Len(s)
    BY <1>1
  <2>2. ASSUME NEW j \in 1 .. Len(r) PROVE r[j] # Head(s)
    BY <1>1, <1>4, <2>1 DEF NoDup
  <2>3. ASSUME NEW j \in 1 .. Len(r), NEW l \in 1 .. Len(r), r[j] = r[l] PROVE j = l
    <3>1. j + 1 = l + 1
      BY <1>4, <2>1, <2>3 DEF NoDup
    <3> QED
      BY <3>1
  <2> QED
    BY <1>3, <2>2, <2>3 DEF NoDup
<1> QED
  BY <1>1, <1>2, <1>4 DEF r

LEMMA TurnSet ==
    ASSUME NEW T, NEW s \in Seq(T), s # <<>>
    PROVE  /\ Turn(s) \in Seq(T) /\ Turn(s) # <<>>
           /\ ToSet(Turn(s)) = ToSet(s)
           /\ NoDup(s) => NoDup(Turn(s))
<1> DEFINE a == Tail(s)
           z == <<Head(s)>>
           r == a \o z
<1>1. /\ a \in Seq(T) /\ Len(a) = Len(s) - 1 /\ ToSet(s) = ToSet(a) \cup {Head(s)}
      /\ NoDup(s) => Head(s) \notin ToSet(a) /\ NoDup(a)
  BY TailSet
<1>2. Head(s) \in T /\ Len(s) \in Nat \ {0}
  OBVIOUS
<1>3. z \in Seq(T) /\ Len(z) = 1 /\ z[1] = Head(s)
  BY <1>2
<1> HIDE DEF a, z
<1>a. a \in Seq(T) /\ z \in Seq(T)
  BY <1>1, <1>3
<1>4. /\ r \in Seq(T) /\ Len(r) = Len(a) + Len(z)
      /\ \A j \in 1 .. Len(a) : r[j] = a[j]
      /\ \A j \in 1 .. Len(z) : r[Len(a) + j] = z[j]
  BY <1>a, ConcatIs
<1>5. Len(r) = Len(s) /\ r[Len(s)] = Head(s) /\ \A j \in 1 .. Len(s) - 1 : r[j] = a[j]
  BY <1>1, <1>2, <1>3, <1>4
<1>6. ToSet(r) = ToSet(a) \cup ToSet(z)
  <2>1. Elems(a \o z) = Elems(a) \cup Elems(z)
    BY <1>a, ElemsConcat
  <2> QED
    BY <2>1 DEF Elems, ToSet
<1>7. ToSet(z) = {Head(s)}
  <2>1. ToSet(z) = {z[j] : j \in 1 .. Len(z)}
    BY <1>a, SetOf
  <2> QED
    BY <1>3, <2>1
<1> HIDE DEF r
<1>8. ToSet(a) = {a[j] : j \in 1 .. Len(a)}
  BY <1>1, SetOf
<1>9. ASSUME NoDup(s), NEW j \in 1 .. Len(r), NEW l \in 1 .. Len(r), r[j] = r[l]
      PROVE  j = l
  <2>1. ASSUME NEW m \in 1 .. Len(r)
        PROVE  \/ m = Len(s) /\ r[m] = Head(s)
               \/ m \in 1 .. Len(a) /\ r[m] = a[m] /\ a[m] # Head(s)
    BY <1>1, <1>2, <1>5, <1>8, <1>9
  <2> QED
    BY <1>1, <1>9, <2>1 DEF NoDup
<1>10. r # <<>>
  BY <1>2, <1>5
<1> QED
  BY <1>1, <1>4, <1>6, <1>7, <1>9, <1>10 DEF r, Turn, a, z, NoDup

-----------------------------------------------------------------------------
(* The kernel's data.                                                      *)

Fields == {"cur", "running", "tasks", "ready", "top", "delayed", "overflow", "suspended",
           "termination", "pending", "events", "tick", "overflows", "unblock", "locks",
           "pended", "yield", "pendsv", "wake", "prio", "base", "held", "item", "bits",
           "nstate", "nvalue"}

\* y is x but for the fields "changed".
IsKernel(x) == DOMAIN x = Fields
Frame(x, y, changed) == IsKernel(y) /\ \A f \in Fields \ changed : y[f] = x[f]

Ring0(x) ==
    /\ x.ready \in [Priorities -> Seq(Tasks \cup {End})]
    /\ \A p \in Priorities : NoDup(x.ready[p]) /\ End \in ToSet(x.ready[p])
Ready(x) == {t \in Tasks : \E p \in Priorities : t \in ToSet(x.ready[p])}

ReadyLists(x) ==
    /\ Ring0(x) /\ Idle \in ToSet(x.ready[0])
    /\ x.top \in SUBSET Priorities /\ 0 \in x.top

BlockedLists(x) ==
    /\ x.delayed \in Seq(Users) /\ x.overflow \in Seq(Users) /\ x.pending \in Seq(Users)
    /\ x.termination = <<>>

WaitLists(x) ==
    /\ x.events \in [EventLists -> Seq(Users)]
    /\ \A l \in EventLists : NoDup(x.events[l])
    /\ \A l, m \in EventLists : l # m => ToSet(x.events[l]) \cap ToSet(x.events[m]) = {}

Ticks == 0 .. MaxDelay
Values(x) ==
    /\ x.cur \in Tasks \cup {End}
    /\ x.prio \in [Tasks -> Priorities] /\ x.base \in [Tasks -> Priorities]
    /\ x.item \in [Tasks -> 1 .. MaxPriorities]
    /\ x.locks \in Nat /\ x.pended \in Nat /\ x.overflows \in Nat
    /\ x.tick \in Ticks /\ x.unblock \in Ticks /\ x.wake \in [Tasks -> Ticks]

Lists(x) == IsKernel(x) /\ ReadyLists(x) /\ BlockedLists(x) /\ WaitLists(x) /\ Values(x)

\* Who waits in an event list is not ready.
Apart(x) == \A l \in EventLists : ToSet(x.events[l]) \cap Ready(x) = {}

LEMMA NamesAre ==
    /\ Idle \in Tasks /\ Idle \notin Users /\ Users \subseteq Tasks
    /\ End \notin Tasks /\ NoTask \notin Tasks /\ IsFiniteSet(Users)
    /\ MaxPriorities \in Nat \ {0} /\ 0 \in Priorities
    /\ TickModulus \in Nat \ {0, 1} /\ 0 \in Ticks /\ MaxDelay \in Ticks /\ Never = MaxDelay
<1>1. IsFiniteSet(Users)
  BY KernelAssumption, FS_Subset DEF Users
<1>2. MaxPriorities \in Nat \ {0} /\ 0 \in Priorities
  BY KernelAssumption DEF Priorities
<1>3. TickModulus \in Nat \ {0, 1} /\ 0 \in Ticks /\ MaxDelay \in Ticks
  BY KernelAssumption DEF Ticks, MaxDelay
<1> QED
  BY <1>1, <1>2, <1>3, KernelAssumption DEF Users, Never

LEMMA MinIn ==
    ASSUME NEW A \in SUBSET Nat, A # {}
    PROVE  Min(A) \in A
<1>1. \E n \in A : \A m \in A : n =< m
  BY LeastNat
<1> QED
  BY <1>1 DEF Min

LEMMA MaxOfPair ==
    ASSUME NEW a \in Nat, NEW b \in Nat
    PROVE  Max({a, b}) = IF a >= b THEN a ELSE b
<1>1. ASSUME NEW x \in {a, b}, \A y \in {a, b} : x >= y
      PROVE  x = IF a >= b THEN a ELSE b
  BY <1>1
<1>2. \E x \in {a, b} : \A y \in {a, b} : x >= y
  OBVIOUS
<1> DEFINE c == CHOOSE x \in {a, b} : \A y \in {a, b} : x >= y
<1>3. c \in {a, b} /\ \A y \in {a, b} : c >= y
  BY <1>2
<1> HIDE DEF c
<1>4. c = IF a >= b THEN a ELSE b
  BY <1>1, <1>3
<1> QED
  BY <1>4 DEF Max, c

\* portGET_HIGHEST_PRIORITY finds one of the bits that are set.
LEMMA HighestIn ==
    ASSUME NEW x, x.top \in SUBSET Priorities, x.top # {}
    PROVE  HighestReady(x) \in x.top
<1> DEFINE A == {MaxPriorities - p : p \in x.top}
<1>1. \A p \in x.top : p \in Nat /\ MaxPriorities - p \in Nat
  BY NamesAre DEF Priorities
<1>2. A \in SUBSET Nat /\ A # {}
  BY <1>1
<1>3. PICK n \in A : \A m \in A : n <= m
  <2> HIDE DEF A
  <2> QED
    BY <1>2, LeastNat
<1>4. PICK p \in x.top : n = MaxPriorities - p
  BY <1>3
<1>5. ASSUME NEW q \in x.top PROVE q <= p
  <2>1. MaxPriorities - p <= MaxPriorities - q
    BY <1>3, <1>4
  <2> QED
    BY <1>1, <2>1, NamesAre
<1> QED
  BY <1>4, <1>5 DEF HighestReady

\* vListInsert puts the item somewhere in the list.
LEMMA InsertIs ==
    ASSUME NEW T, NEW s \in Seq(T), NEW e \in T, NEW v, NEW values
    PROVE  /\ vListInsert(s, e, v, values) \in Seq(T)
           /\ ToSet(vListInsert(s, e, v, values)) = ToSet(s) \cup {e}
           /\ NoDup(s) /\ e \notin ToSet(s) => NoDup(vListInsert(s, e, v, values))
<1> DEFINE after == {i \in 1 .. Len(s) : values[s[i]] > v}
           i == IF after = {} THEN Len(s) + 1 ELSE Min(after)
<1>1. i \in 1 .. Len(s) + 1
  <2>1. after \in SUBSET Nat /\ after \subseteq 1 .. Len(s)
    OBVIOUS
  <2>2. after # {} => Min(after) \in after
    <3> HIDE DEF after
    <3> QED
      BY <2>1, MinIn
  <2>3. Len(s) \in Nat
    OBVIOUS
  <2> HIDE DEF after
  <2>4. CASE after = {}
    BY <2>3, <2>4
  <2>5. CASE after # {}
    <3>1. Min(after) \in 1 .. Len(s)
      BY <2>1, <2>2, <2>5
    <3>2. Min(after) \in 1 .. Len(s) + 1
      BY <2>3, <3>1
    <3> QED
      BY <2>5, <3>2
  <2> QED
    BY <2>4, <2>5
<1>2. vListInsert(s, e, v, values) = InsertAt(s, i, e)
  BY DEF vListInsert
<1> HIDE DEF i
<1> QED
  BY <1>1, <1>2, InsertedSet

\* vListInsertEnd adds the item to a ring.
LEMMA InsertEndIs ==
    ASSUME NEW T, NEW s \in Seq(T), s # <<>>, NEW e \in T
    PROVE  /\ vListInsertEnd(s, e) \in Seq(T)
           /\ ToSet(vListInsertEnd(s, e)) = ToSet(s) \cup {e}
           /\ NoDup(s) /\ e \notin ToSet(s) => NoDup(vListInsertEnd(s, e))
<1>1. Len(s) \in 1 .. Len(s) + 1
  OBVIOUS
<1> QED
  BY <1>1, InsertedSet DEF vListInsertEnd

\* uxListRemove on xStateListItem: the task is not ready, all else is as it was.
LEMMA RemoveStateIs ==
    ASSUME NEW x, Lists(x), NEW t \in Users
    PROVE  /\ Lists(RemoveState(x, t))
           /\ Frame(x, RemoveState(x, t),
                    {"ready", "delayed", "overflow", "suspended", "termination"})
           /\ Ready(RemoveState(x, t)) = Ready(x) \ {t}
           /\ \A p \in Priorities :
                ToSet(RemoveState(x, t).ready[p]) = ToSet(x.ready[p]) \ {t}
<1> DEFINE y == RemoveState(x, t)
<1>1. /\ Frame(x, y, {"ready", "delayed", "overflow", "suspended", "termination"})
      /\ y.ready = [p \in Priorities |-> uxListRemove(x.ready[p], t)]
      /\ y.delayed = uxListRemove(x.delayed, t)
      /\ y.overflow = uxListRemove(x.overflow, t)
      /\ y.termination = uxListRemove(x.termination, t)
  BY DEF RemoveState, Lists, IsKernel, Frame, Fields
<1> HIDE DEF y
<1>2. ASSUME NEW p \in Priorities
      PROVE  /\ y.ready[p] \in Seq(Tasks \cup {End}) /\ NoDup(y.ready[p])
             /\ ToSet(y.ready[p]) = ToSet(x.ready[p]) \ {t}
  <2>1. x.ready[p] \in Seq(Tasks \cup {End}) /\ NoDup(x.ready[p])
    BY DEF Lists, ReadyLists, Ring0
  <2> QED
    BY <1>1, <2>1, RemovedSet
<1>3. y.ready \in [Priorities -> Seq(Tasks \cup {End})]
  BY <1>1, <1>2
<1>4. ReadyLists(y)
  <2>1. t # End /\ t # Idle /\ 0 \in Priorities
    BY NamesAre
  <2>2. y.top = x.top
    BY <1>1 DEF Frame, Fields
  <2> QED
    BY <1>2, <1>3, <2>1, <2>2 DEF ReadyLists, Lists, Ring0
<1>5. BlockedLists(y)
  <2>1. y.delayed \in Seq(Users) /\ y.overflow \in Seq(Users)
    BY <1>1, RemovedSet DEF Lists, BlockedLists
  <2>2. y.termination = <<>>
    <3>1. x.termination = <<>> /\ t \notin ToSet(<<>>)
      BY DEF Lists, BlockedLists, ToSet
    <3> QED
      BY <1>1, <3>1 DEF uxListRemove
  <2>3. y.pending = x.pending
    BY <1>1 DEF Frame, Fields
  <2> QED
    BY <2>1, <2>2, <2>3 DEF Lists, BlockedLists
<1>6. WaitLists(y) /\ Values(y)
  BY <1>1 DEF Lists, WaitLists, Values, Frame, Fields
<1>7. Ready(y) = Ready(x) \ {t}
  BY <1>2 DEF Ready
<1> QED
  BY <1>1, <1>2, <1>4, <1>5, <1>6, <1>7 DEF Lists, Frame, y

\* uxListRemove on xEventListItem: the task waits for nothing.
LEMMA RemoveEventIs ==
    ASSUME NEW x, Lists(x), NEW t \in Users
    PROVE  /\ Lists(RemoveEvent(x, t))
           /\ Frame(x, RemoveEvent(x, t), {"events", "pending"})
           /\ \A l \in EventLists :
                ToSet(RemoveEvent(x, t).events[l]) = ToSet(x.events[l]) \ {t}
<1> DEFINE y == RemoveEvent(x, t)
<1>0. x.events \in [EventLists -> Seq(Users)]
  BY DEF Lists, WaitLists
<1>1. /\ Frame(x, y, {"events", "pending"})
      /\ y.events = [l \in EventLists |-> uxListRemove(x.events[l], t)]
      /\ y.pending = uxListRemove(x.pending, t)
  BY <1>0 DEF RemoveEvent, Lists, IsKernel, Frame, Fields
<1> HIDE DEF y
<1>2. ASSUME NEW l \in EventLists
      PROVE  /\ y.events[l] \in Seq(Users) /\ NoDup(y.events[l])
             /\ ToSet(y.events[l]) = ToSet(x.events[l]) \ {t}
  <2>1. x.events[l] \in Seq(Users) /\ NoDup(x.events[l])
    BY DEF Lists, WaitLists
  <2> QED
    BY <1>1, <2>1, RemovedSet
<1>3. WaitLists(y)
  <2>1. y.events \in [EventLists -> Seq(Users)]
    BY <1>1, <1>2
  <2>2. \A l, m \in EventLists : l # m => ToSet(y.events[l]) \cap ToSet(y.events[m]) = {}
    BY <1>2 DEF Lists, WaitLists
  <2> QED
    BY <1>2, <2>1, <2>2 DEF WaitLists
<1>4. BlockedLists(y)
  <2>1. y.pending \in Seq(Users)
    BY <1>1, RemovedSet DEF Lists, BlockedLists
  <2>2. y.delayed = x.delayed /\ y.overflow = x.overflow /\ y.termination = x.termination
    BY <1>1 DEF Frame, Fields
  <2> QED
    BY <2>1, <2>2 DEF Lists, BlockedLists
<1>5. ReadyLists(y) /\ Values(y)
  BY <1>1 DEF Lists, ReadyLists, Ring0, Values, Frame, Fields
<1> QED
  BY <1>1, <1>2, <1>3, <1>4, <1>5 DEF Lists, Frame, y

\* A task that is in no ready list enters that of its priority.
LEMMA AddReadyIs ==
    ASSUME NEW x, Lists(x), NEW t \in Users, t \notin Ready(x)
    PROVE  /\ Lists(prvAddTaskToReadyList(x, t))
           /\ Frame(x, prvAddTaskToReadyList(x, t), {"ready", "top"})
           /\ Ready(prvAddTaskToReadyList(x, t)) = Ready(x) \cup {t}
<1> DEFINE y == prvAddTaskToReadyList(x, t)
           r == x.prio[t]
<1>1. t \in Tasks /\ r \in Priorities /\ t \notin ToSet(x.ready[r])
  BY NamesAre DEF Lists, Values, Ready
<1>2. x.ready \in [Priorities -> Seq(Tasks \cup {End})]
  BY DEF Lists, ReadyLists, Ring0
<1>3. /\ Frame(x, y, {"ready", "top"}) /\ y.top = x.top \cup {r}
      /\ y.ready = [x.ready EXCEPT ![r] = vListInsertEnd(x.ready[r], t)]
  BY DEF prvAddTaskToReadyList, Lists, IsKernel, Frame, Fields
<1> HIDE DEF y, r
<1>4. x.ready[r] \in Seq(Tasks \cup {End}) /\ NoDup(x.ready[r]) /\ x.ready[r] # <<>>
  <2>1. /\ x.ready[r] \in Seq(Tasks \cup {End}) /\ NoDup(x.ready[r])
        /\ End \in ToSet(x.ready[r])
    BY <1>1 DEF Lists, ReadyLists, Ring0
  <2> QED
    BY <2>1, SetOf
<1>5. /\ vListInsertEnd(x.ready[r], t) \in Seq(Tasks \cup {End})
      /\ ToSet(vListInsertEnd(x.ready[r], t)) = ToSet(x.ready[r]) \cup {t}
      /\ NoDup(vListInsertEnd(x.ready[r], t))
  BY <1>1, <1>4, InsertEndIs
<1>6. ASSUME NEW p \in Priorities
      PROVE  /\ y.ready[p] \in Seq(Tasks \cup {End}) /\ NoDup(y.ready[p])
             /\ ToSet(y.ready[p]) = IF p = r THEN ToSet(x.ready[p]) \cup {t}
                                    ELSE ToSet(x.ready[p])
  <2>1. CASE p = r
    BY <1>1, <1>2, <1>3, <1>5, <2>1
  <2>2. CASE p # r
    BY <1>1, <1>2, <1>3, <2>2 DEF Lists, ReadyLists, Ring0
  <2> QED
    BY <2>1, <2>2
<1>7. y.ready \in [Priorities -> Seq(Tasks \cup {End})]
  BY <1>2, <1>3, <1>5
<1>8. ReadyLists(y)
  <2>1. /\ \A p \in Priorities : End \in ToSet(x.ready[p])
        /\ Idle \in ToSet(x.ready[0]) /\ x.top \in SUBSET Priorities /\ 0 \in x.top
    BY DEF Lists, ReadyLists, Ring0
  <2>2. 0 \in Priorities
    BY NamesAre
  <2>3. y.top \in SUBSET Priorities /\ 0 \in y.top
    BY <1>1, <1>3, <2>1
  <2> QED
    BY <1>6, <1>7, <2>1, <2>2, <2>3 DEF ReadyLists, Ring0
<1>9. BlockedLists(y) /\ WaitLists(y) /\ Values(y)
  BY <1>3 DEF Lists, BlockedLists, WaitLists, Values, Frame, Fields
<1>10. Ready(y) = Ready(x) \cup {t}
  BY <1>1, <1>6 DEF Ready
<1> QED
  BY <1>3, <1>8, <1>9, <1>10 DEF Lists, Frame, y

\* A bit is reset only when its list is empty, which that of the idle task never is.
LEMMA ResetIs ==
    ASSUME NEW x, Lists(x), NEW p
    PROVE  /\ Lists(taskRESET_READY_PRIORITY(x, p))
           /\ Frame(x, taskRESET_READY_PRIORITY(x, p), {"top"})
           /\ Ready(taskRESET_READY_PRIORITY(x, p)) = Ready(x)
<1> DEFINE y == taskRESET_READY_PRIORITY(x, p)
<1>1. Frame(x, y, {"top"}) /\ (y.top = x.top \/ (listEMPTY(x.ready[p]) /\ y.top = x.top \ {p}))
  BY DEF taskRESET_READY_PRIORITY, Lists, IsKernel, Frame, Fields
<1> HIDE DEF y
<1>2. ~listEMPTY(x.ready[0])
  <2>1. /\ x.ready[0] \in Seq(Tasks \cup {End}) /\ End \in ToSet(x.ready[0])
        /\ Idle \in ToSet(x.ready[0]) /\ Idle # End
    BY NamesAre DEF Lists, ReadyLists, Ring0
  <2>2. PICK i \in 1 .. Len(x.ready[0]), j \in 1 .. Len(x.ready[0]) :
            x.ready[0][i] = End /\ x.ready[0][j] = Idle
    BY <2>1, SetOf
  <2>3. i # j
    BY <2>1, <2>2
  <2> QED
    BY <2>2, <2>3 DEF listEMPTY
<1>3. y.top \in SUBSET Priorities /\ 0 \in y.top
  BY <1>1, <1>2 DEF Lists, ReadyLists
<1>4. y.ready = x.ready
  BY <1>1 DEF Frame, Fields
<1>5. ReadyLists(y) /\ Ready(y) = Ready(x)
  BY <1>3, <1>4 DEF Lists, ReadyLists, Ring0, Ready
<1>6. BlockedLists(y) /\ WaitLists(y) /\ Values(y)
  BY <1>1 DEF Lists, BlockedLists, WaitLists, Values, Frame, Fields
<1> QED
  BY <1>1, <1>5, <1>6 DEF Lists, Frame, y

LEMMA UnreadyIs ==
    ASSUME NEW x, Lists(x), NEW t \in Users, NEW p
    PROVE  /\ Lists(Unready(x, t, p))
           /\ Frame(x, Unready(x, t, p),
                    {"ready", "top", "delayed", "overflow", "suspended", "termination"})
           /\ Ready(Unready(x, t, p)) = Ready(x) \ {t}
<1> DEFINE y == RemoveState(x, t)
           z == taskRESET_READY_PRIORITY(y, p)
<1>1. /\ Lists(y) /\ Ready(y) = Ready(x) \ {t}
      /\ Frame(x, y, {"ready", "delayed", "overflow", "suspended", "termination"})
  BY RemoveStateIs
<1>2. Unready(x, t, p) = z
  BY DEF Unready
<1> HIDE DEF y
<1>3. Lists(z) /\ Frame(y, z, {"top"}) /\ Ready(z) = Ready(y)
  BY <1>1, ResetIs
<1> HIDE DEF z
<1>4. Frame(x, z, {"ready", "top", "delayed", "overflow", "suspended", "termination"})
  BY <1>1, <1>3 DEF Frame
<1> QED
  BY <1>1, <1>2, <1>3, <1>4

LEMMA UnblockTimeIs ==
    ASSUME NEW x, Lists(x)
    PROVE  /\ Lists(prvResetNextTaskUnblockTime(x))
           /\ Frame(x, prvResetNextTaskUnblockTime(x), {"unblock"})
           /\ Ready(prvResetNextTaskUnblockTime(x)) = Ready(x)
<1> DEFINE y == prvResetNextTaskUnblockTime(x)
<1>1. /\ Frame(x, y, {"unblock"})
      /\ y.unblock = IF x.delayed = <<>> THEN Never ELSE x.wake[Head(x.delayed)]
  BY DEF prvResetNextTaskUnblockTime, Lists, IsKernel, Frame, Fields
<1> HIDE DEF y
<1>2. x.delayed # <<>> => x.wake[Head(x.delayed)] \in Ticks
  <2>1. x.delayed \in Seq(Users) /\ x.wake \in [Tasks -> Ticks] /\ Users \subseteq Tasks
    BY NamesAre DEF Lists, BlockedLists, Values
  <2> QED
    BY <2>1, SetOf
<1>3. y.unblock \in Ticks
  BY <1>1, <1>2, NamesAre
<1>4. ReadyLists(y) /\ Ready(y) = Ready(x)
  <2>1. y.ready = x.ready /\ y.top = x.top
    BY <1>1 DEF Frame, Fields
  <2> QED
    BY <2>1 DEF Lists, ReadyLists, Ring0, Ready
<1>5. BlockedLists(y) /\ WaitLists(y) /\ Values(y)
  BY <1>1, <1>3 DEF Lists, BlockedLists, WaitLists, Values, Frame, Fields
<1> QED
  BY <1>1, <1>4, <1>5 DEF Lists, Frame, y

-----------------------------------------------------------------------------
(* The loops of tasks.c and queue.c that go through a list, item by item.  *)

\* The bodies of the loops, and what makes the tasks in main().
Body(loop, list, x, i) ==
    CASE loop = "pended" -> ReadyPended(x, i)
      [] loop = "ticks" -> CountPended(x, i)
      [] loop = "due" -> UnblockDelayed(x, i)
      [] loop = "waiting" -> xTaskRemoveFromEventList(x, list)
      [] loop = "create" -> xTaskCreate(x, i, Priority[i])

\* What holds at first and after each round holds at the end.
LEMMA Along ==
    ASSUME NEW n \in Nat, NEW A, 0 \in A, \A i \in 1 .. n : i - 1 \in A => i \in A
    PROVE  \A i \in 0 .. n : i \in A
<1> DEFINE bad == {i \in 0 .. n : i \notin A}
<1>1. ASSUME bad # {} PROVE FALSE
  <2>1. bad \in SUBSET Nat
    OBVIOUS
  <2>2. PICK m \in bad : \A i \in bad : m <= i
    <3> HIDE DEF bad
    <3> QED
      BY <1>1, <2>1, LeastNat
  <2>3. m \in 1 .. n /\ m - 1 \in 0 .. n /\ m - 1 < m
    BY <2>2
  <2>4. m - 1 \in A
    BY <2>2, <2>3
  <2> QED
    BY <2>2, <2>3, <2>4
<1> QED
  BY <1>1

LEMMA MaxIn ==
    ASSUME NEW m \in Nat, NEW S \in SUBSET (1 .. m), S # {}
    PROVE  Max(S) \in S /\ (m \in S => Max(S) = m)
<1> DEFINE A == {m - i : i \in S}
<1>1. A \in SUBSET Nat /\ A # {}
  OBVIOUS
<1>2. PICK a \in A : \A c \in A : a <= c
  <2> HIDE DEF A
  <2> QED
    BY <1>1, LeastNat
<1>3. PICK i \in S : a = m - i
  BY <1>2
<1>4. \A j \in S : i >= j
  <2> SUFFICES ASSUME NEW j \in S PROVE i >= j
    OBVIOUS
  <2>1. m - i <= m - j /\ i \in Nat /\ j \in Nat
    BY <1>2, <1>3
  <2> QED
    BY <2>1
<1>5. \E j \in S : \A l \in S : j >= l
  BY <1>3, <1>4
<1> DEFINE c == CHOOSE j \in S : \A l \in S : j >= l
<1>6. c \in S /\ \A l \in S : c >= l
  BY <1>5
<1>7. Max(S) = c
  BY DEF Max
<1> HIDE DEF c
<1>8. m \in S => c = m
  BY <1>6
<1> QED
  BY <1>6, <1>7, <1>8

Unrolled(loop, list, b, s, n, g) ==
    g = [S \in SUBSET (1 .. n) |->
            IF S = {} THEN b ELSE Body(loop, list, g[S \ {Max(S)}], s[Max(S)])]

\* The function that a fold chooses exists.
LEMMA Unrolls ==
    ASSUME NEW loop, NEW list, NEW b, NEW s, NEW n \in Nat
    PROVE  \E g : Unrolled(loop, list, b, s, n, g)
<1> DEFINE A == {m \in 0 .. n : \E g : Unrolled(loop, list, b, s, m, g)}
<1>1. 0 \in A
  <2> DEFINE g == [S \in SUBSET (1 .. 0) |-> b]
  <2>1. \A S \in SUBSET (1 .. 0) : S = {}
    OBVIOUS
  <2>2. g = [S \in SUBSET (1 .. 0) |->
                IF S = {} THEN b ELSE Body(loop, list, g[S \ {Max(S)}], s[Max(S)])]
    BY <2>1
  <2>3. Unrolled(loop, list, b, s, 0, g)
    BY <2>2 DEF Unrolled
  <2> QED
    BY <2>3
<1>2. ASSUME NEW m \in 1 .. n, m - 1 \in A PROVE m \in A
  <2>1. PICK g : Unrolled(loop, list, b, s, m - 1, g)
    BY <1>2
  <2> DEFINE h == [S \in SUBSET (1 .. m) |->
                    IF m \in S THEN Body(loop, list, g[S \ {m}], s[m]) ELSE g[S]]
             e(S) == IF S = {} THEN b ELSE Body(loop, list, h[S \ {Max(S)}], s[Max(S)])
  <2>2. m \in Nat /\ m - 1 \in Nat /\ \A S \in SUBSET (1 .. m) : m \notin S => S \in SUBSET (1 .. m - 1)
    OBVIOUS
  <2>3. \A S \in SUBSET (1 .. m) : S \ {m} \in SUBSET (1 .. m - 1)
    BY <2>2
  <2>4. SUBSET (1 .. m - 1) \subseteq SUBSET (1 .. m)
    BY <2>2
  <2>5. ASSUME NEW S \in SUBSET (1 .. m - 1) PROVE S \in SUBSET (1 .. m) /\ h[S] = g[S]
    <3>1. m \notin S /\ S \in SUBSET (1 .. m)
      BY <2>2, <2>4
    <3> QED
      BY <3>1
  <2>6. ASSUME NEW S \in SUBSET (1 .. m), m \in S
        PROVE  h[S] = e(S)
    <3>1. Max(S) = m /\ S # {}
      BY <2>2, <2>6, MaxIn
    <3>2. h[S \ {m}] = g[S \ {m}]
      BY <2>3, <2>5
    <3>3. h[S] = Body(loop, list, g[S \ {m}], s[m])
      BY <2>6
    <3> HIDE DEF h
    <3> QED
      BY <3>1, <3>2, <3>3
  <2>7. ASSUME NEW S \in SUBSET (1 .. m), m \notin S
        PROVE  h[S] = e(S)
    <3>1. S \in SUBSET (1 .. m - 1)
      BY <2>2, <2>7
    <3>2. h[S] = g[S]
      BY <2>5, <3>1
    <3>3. g[S] = IF S = {} THEN b ELSE Body(loop, list, g[S \ {Max(S)}], s[Max(S)])
      BY <2>1, <3>1 DEF Unrolled
    <3>4. S \ {Max(S)} \in SUBSET (1 .. m - 1)
      BY <3>1
    <3>5. h[S \ {Max(S)}] = g[S \ {Max(S)}]
      BY <2>5, <3>4
    <3> HIDE DEF h
    <3> QED
      BY <3>2, <3>3, <3>5
  <2>8. h = [S \in SUBSET (1 .. m) |-> h[S]]
    OBVIOUS
  <2>9. \A S \in SUBSET (1 .. m) : h[S] = e(S)
    BY <2>6, <2>7
  <2> HIDE DEF h
  <2>10. h = [S \in SUBSET (1 .. m) |-> e(S)]
    BY <2>8, <2>9
  <2>11. Unrolled(loop, list, b, s, m, h)
    BY <2>10 DEF Unrolled
  <2> QED
    BY <2>11
<1> HIDE DEF A
<1>3. n \in A
  BY <1>1, <1>2, Along
<1> QED
  BY <1>3 DEF A

\* The rounds of a loop, from b to what the fold yields.
Rounds(loop, list, b, s, n, r) ==
    /\ r[0] = b
    /\ \A i \in 1 .. n : r[i] = Body(loop, list, r[i - 1], s[i])

LEMMA RoundsOf ==
    ASSUME NEW loop, NEW list, NEW b, NEW s, NEW n \in Nat, NEW g,
           Unrolled(loop, list, b, s, n, g)
    PROVE  \E r : Rounds(loop, list, b, s, n, r) /\ r[n] = g[1 .. n]
<1> DEFINE r == [i \in 0 .. n |-> g[1 .. i]]
<1>1. r[0] = b
  <2>1. 1 .. 0 = {} /\ {} \in SUBSET (1 .. n)
    OBVIOUS
  <2>2. g[{}] = b
    BY <2>1 DEF Unrolled
  <2> QED
    BY <2>1, <2>2
<1>2. ASSUME NEW i \in 1 .. n PROVE r[i] = Body(loop, list, r[i - 1], s[i])
  <2>1. /\ i \in 1 .. i /\ (1 .. i) \ {i} = 1 .. i - 1 /\ i \in Nat
        /\ 1 .. i \in SUBSET (1 .. n) /\ 1 .. i \in SUBSET (1 .. i) /\ 1 .. i # {}
        /\ i \in 0 .. n /\ i - 1 \in 0 .. n
    <3>1. i \in Nat /\ i \in 1 .. i /\ i \in 0 .. n /\ i - 1 \in 0 .. n
      OBVIOUS
    <3>2. (1 .. i) \ {i} = 1 .. i - 1
      OBVIOUS
    <3>3. 1 .. i \in SUBSET (1 .. n) /\ 1 .. i \in SUBSET (1 .. i)
      OBVIOUS
    <3> QED
      BY <3>1, <3>2, <3>3
  <2>2. Max(1 .. i) = i
    BY <2>1, MaxIn
  <2>3. g[1 .. i] = Body(loop, list, g[(1 .. i) \ {Max(1 .. i)}], s[Max(1 .. i)])
    BY <2>1 DEF Unrolled
  <2> QED
    BY <2>1, <2>2, <2>3
<1>3. r[n] = g[1 .. n]
  OBVIOUS
<1> HIDE DEF r
<1> QED
  BY <1>1, <1>2, <1>3 DEF Rounds

\* xTaskResumeAll goes through the pending list and through the pended ticks.
LEMMA PendedLoop ==
    ASSUME NEW T, NEW s \in Seq(T), NEW b
    PROVE  \E r : Rounds("pended", "none", b, s, Len(s), r)
                  /\ r[Len(s)] = FoldLeft(ReadyPended, b, s)
<1> DEFINE Is(g) == g = [S \in SUBSET (1 .. Len(s)) |->
                IF S = {} THEN b ELSE ReadyPended(g[S \ {Max(S)}], s[Max(S)])]
<1>1. DOMAIN s = 1 .. Len(s) /\ Len(s) \in Nat
  OBVIOUS
<1>2. FoldLeft(ReadyPended, b, s) = (CHOOSE g : Is(g))[1 .. Len(s)]
  BY <1>1 DEF FoldLeft, MapThenFoldSet
<1>3. \A g : Is(g) <=> Unrolled("pended", "none", b, s, Len(s), g)
  BY DEF Unrolled, Body
<1>4. \E g : Is(g)
  BY <1>1, <1>3, Unrolls
<1>5. Is(CHOOSE g : Is(g))
  BY <1>4
<1> DEFINE h == CHOOSE g : Is(g)
<1>6. Unrolled("pended", "none", b, s, Len(s), h) /\ FoldLeft(ReadyPended, b, s) = h[1 .. Len(s)]
  <2> HIDE DEF Is
  <2> QED
    BY <1>2, <1>3, <1>5
<1> HIDE DEF h
<1> QED
  BY <1>1, <1>6, RoundsOf
LEMMA TicksLoop ==
    ASSUME NEW T, NEW s \in Seq(T), NEW b
    PROVE  \E r : Rounds("ticks", "none", b, s, Len(s), r)
                  /\ r[Len(s)] = FoldLeft(CountPended, b, s)
<1> DEFINE Is(g) == g = [S \in SUBSET (1 .. Len(s)) |->
                IF S = {} THEN b ELSE CountPended(g[S \ {Max(S)}], s[Max(S)])]
<1>1. DOMAIN s = 1 .. Len(s) /\ Len(s) \in Nat
  OBVIOUS
<1>2. FoldLeft(CountPended, b, s) = (CHOOSE g : Is(g))[1 .. Len(s)]
  BY <1>1 DEF FoldLeft, MapThenFoldSet
<1>3. \A g : Is(g) <=> Unrolled("ticks", "none", b, s, Len(s), g)
  BY DEF Unrolled, Body
<1>4. \E g : Is(g)
  BY <1>1, <1>3, Unrolls
<1>5. Is(CHOOSE g : Is(g))
  BY <1>4
<1> DEFINE h == CHOOSE g : Is(g)
<1>6. Unrolled("ticks", "none", b, s, Len(s), h) /\ FoldLeft(CountPended, b, s) = h[1 .. Len(s)]
  <2> HIDE DEF Is
  <2> QED
    BY <1>2, <1>3, <1>5
<1> HIDE DEF h
<1> QED
  BY <1>1, <1>6, RoundsOf
\* xTaskIncrementTick goes through the delayed list.
LEMMA DueLoop ==
    ASSUME NEW T, NEW s \in Seq(T), NEW b
    PROVE  \E r : Rounds("due", "none", b, s, Len(s), r)
                  /\ r[Len(s)] = FoldLeft(UnblockDelayed, b, s)
<1> DEFINE Is(g) == g = [S \in SUBSET (1 .. Len(s)) |->
                IF S = {} THEN b ELSE UnblockDelayed(g[S \ {Max(S)}], s[Max(S)])]
<1>1. DOMAIN s = 1 .. Len(s) /\ Len(s) \in Nat
  OBVIOUS
<1>2. FoldLeft(UnblockDelayed, b, s) = (CHOOSE g : Is(g))[1 .. Len(s)]
  BY <1>1 DEF FoldLeft, MapThenFoldSet
<1>3. \A g : Is(g) <=> Unrolled("due", "none", b, s, Len(s), g)
  BY DEF Unrolled, Body
<1>4. \E g : Is(g)
  BY <1>1, <1>3, Unrolls
<1>5. Is(CHOOSE g : Is(g))
  BY <1>4
<1> DEFINE h == CHOOSE g : Is(g)
<1>6. Unrolled("due", "none", b, s, Len(s), h) /\ FoldLeft(UnblockDelayed, b, s) = h[1 .. Len(s)]
  <2> HIDE DEF Is
  <2> QED
    BY <1>2, <1>3, <1>5
<1> HIDE DEF h
<1> QED
  BY <1>1, <1>6, RoundsOf
\* prvUnlockQueue goes through an event list.
LEMMA WaitingLoop ==
    ASSUME NEW x, NEW list, NEW count, NEW n \in Nat,
           n = Min({Max({count, 0}), Len(x.events[list])})
    PROVE  \E r : Rounds("waiting", list, x, x, n, r)
                  /\ r[n] = UnlockWakes(x, list, count)
<1> DEFINE Is(g) == g = [S \in SUBSET (1 .. n) |->
                IF S = {} THEN x ELSE xTaskRemoveFromEventList(g[S \ {Max(S)}], list)]
<1>2. UnlockWakes(x, list, count) = (CHOOSE g : Is(g))[1 .. n]
  BY DEF UnlockWakes, FoldLeft, MapThenFoldSet
<1>3. \A g : Is(g) <=> Unrolled("waiting", list, x, x, n, g)
  BY DEF Unrolled, Body
<1>4. \E g : Is(g)
  BY <1>3, Unrolls
<1>5. Is(CHOOSE g : Is(g))
  BY <1>4
<1> DEFINE h == CHOOSE g : Is(g)
<1>6. /\ Unrolled("waiting", list, x, x, n, h)
      /\ UnlockWakes(x, list, count) = h[1 .. n]
  <2> HIDE DEF Is
  <2> QED
    BY <1>2, <1>3, <1>5
<1> HIDE DEF h
<1> QED
  BY <1>6, RoundsOf

\* main() creates the tasks.
Made(order) == FoldLeft(LAMBDA kk, t : xTaskCreate(kk, t, Priority[t]),
                        prvInitialiseTaskLists, order)

LEMMA CreateLoop ==
    ASSUME NEW T, NEW s \in Seq(T)
    PROVE  \E r : Rounds("create", "none", prvInitialiseTaskLists, s, Len(s), r)
                  /\ r[Len(s)] = Made(s)
<1> DEFINE b == prvInitialiseTaskLists
           Is(g) == g = [S \in SUBSET (1 .. Len(s)) |->
                IF S = {} THEN b
                ELSE xTaskCreate(g[S \ {Max(S)}], s[Max(S)], Priority[s[Max(S)]])]
<1>1. DOMAIN s = 1 .. Len(s) /\ Len(s) \in Nat
  OBVIOUS
<1>2. Made(s) = (CHOOSE g : Is(g))[1 .. Len(s)]
  BY <1>1 DEF Made, FoldLeft, MapThenFoldSet
<1> HIDE DEF b
<1>3. \A g : Is(g) <=> Unrolled("create", "none", b, s, Len(s), g)
  BY DEF Unrolled, Body
<1>4. \E g : Is(g)
  BY <1>1, <1>3, Unrolls
<1>5. Is(CHOOSE g : Is(g))
  BY <1>4
<1> DEFINE h == CHOOSE g : Is(g)
<1>6. Unrolled("create", "none", b, s, Len(s), h) /\ Made(s) = h[1 .. Len(s)]
  <2> HIDE DEF Is
  <2> QED
    BY <1>2, <1>3, <1>5
<1> HIDE DEF h
<1> QED
  BY <1>1, <1>6, RoundsOf DEF b

LEMMA CreatedIs ==
    ASSUME NEW order, NEW lists
    PROVE  Created(order, lists) =
             [vTaskStartScheduler(Made(order)) EXCEPT !.events = [l \in lists |-> <<>>]]
BY DEF Created, Made, FoldLeft, MapThenFoldSet

-----------------------------------------------------------------------------
(* Tasks are made ready.                                                   *)

\* Between x and y tasks became ready and left event lists; the current task and
\* who suspended the scheduler are the same.
Readied(x, y) ==
    /\ Lists(y) /\ y.cur = x.cur /\ y.locks = x.locks
    /\ x.pendsv => y.pendsv
    /\ Ready(x) \subseteq Ready(y)
    /\ \A l \in EventLists : ToSet(y.events[l]) \subseteq ToSet(x.events[l])
    /\ Apart(x) => Apart(y)

SameTime(x, y) == y.tick = x.tick /\ y.overflows = x.overflows /\ y.pended = x.pended

LEMMA ReadiedNone == ASSUME NEW x, Lists(x) PROVE Readied(x, x) /\ SameTime(x, x)
BY DEF Readied, SameTime

LEMMA ReadiedTwice ==
    ASSUME NEW x, NEW y, NEW z, Readied(x, y), Readied(y, z)
    PROVE  Readied(x, z)
BY DEF Readied

LEMMA SameTimeTwice ==
    ASSUME NEW x, NEW y, NEW z, SameTime(x, y), SameTime(y, z)
    PROVE  SameTime(x, z)
BY DEF SameTime

\* Fields that none of this is about.
LEMMA OtherFields ==
    ASSUME NEW x, Lists(x), NEW y, NEW S,
           S \subseteq {"running", "tasks", "suspended", "yield", "pendsv", "held", "bits",
                        "nstate", "nvalue"},
           Frame(x, y, S)
    PROVE  /\ Lists(y) /\ Ready(y) = Ready(x) /\ y.events = x.events
           /\ y.cur = x.cur /\ y.locks = x.locks /\ SameTime(x, y)
           /\ Apart(x) => Apart(y)
           /\ (x.pendsv => y.pendsv) => Readied(x, y)
<1>1. /\ IsKernel(y)
      /\ y.ready = x.ready /\ y.top = x.top /\ y.delayed = x.delayed
      /\ y.overflow = x.overflow /\ y.pending = x.pending
      /\ y.termination = x.termination /\ y.events = x.events
      /\ y.cur = x.cur /\ y.prio = x.prio /\ y.base = x.base /\ y.item = x.item
      /\ y.locks = x.locks /\ y.pended = x.pended /\ y.overflows = x.overflows
      /\ y.tick = x.tick /\ y.unblock = x.unblock /\ y.wake = x.wake
  BY DEF Frame, Fields
<1>2. Ready(y) = Ready(x)
  BY <1>1 DEF Ready
<1>3. Lists(y)
  BY <1>1 DEF Lists, ReadyLists, Ring0, BlockedLists, WaitLists, Values
<1>4. Apart(x) => Apart(y)
  BY <1>1, <1>2 DEF Apart
<1> QED
  BY <1>1, <1>2, <1>3, <1>4 DEF Readied, SameTime

LEMMA YieldIs ==
    ASSUME NEW x, Lists(x), NEW c
    PROVE  /\ Readied(x, YieldIf(c, x)) /\ SameTime(x, YieldIf(c, x))
           /\ Ready(YieldIf(c, x)) = Ready(x) /\ YieldIf(c, x).events = x.events
           /\ Frame(x, YieldIf(c, x), {"pendsv"})
           /\ (c \/ x.pendsv) => YieldIf(c, x).pendsv
<1> DEFINE y == YieldIf(c, x)
<1>1. Frame(x, y, {"pendsv"}) /\ ((c \/ x.pendsv) => y.pendsv)
  BY DEF YieldIf, portYIELD, Lists, IsKernel, Frame, Fields
<1> HIDE DEF y
<1>2. /\ (x.pendsv => y.pendsv) => Readied(x, y)
      /\ SameTime(x, y) /\ Ready(y) = Ready(x) /\ y.events = x.events
  BY <1>1, OtherFields
<1> QED
  BY <1>1, <1>2 DEF y

\* A task that waits for nothing any more is readied.
LEMMA MadeReady ==
    ASSUME NEW x, Lists(x), NEW t \in Users,
           \A l \in EventLists : t \notin ToSet(x.events[l])
    PROVE  LET y == prvAddTaskToReadyList(RemoveState(x, t), t)
           IN Readied(x, y) /\ SameTime(x, y) /\ y.events = x.events
              /\ Ready(y) = Ready(x) \cup {t}
              /\ Frame(x, y, {"ready", "top", "delayed", "overflow", "suspended",
                              "termination"})
<1> DEFINE w == RemoveState(x, t)
           y == prvAddTaskToReadyList(w, t)
<1>1. /\ Lists(w) /\ Ready(w) = Ready(x) \ {t}
      /\ Frame(x, w, {"ready", "delayed", "overflow", "suspended", "termination"})
  BY RemoveStateIs
<1> HIDE DEF w
<1>2. t \notin Ready(w)
  BY <1>1
<1>3. /\ Lists(y) /\ Frame(w, y, {"ready", "top"}) /\ Ready(y) = Ready(w) \cup {t}
  BY <1>1, <1>2, AddReadyIs
<1> HIDE DEF y
<1>4. t \in Tasks
  BY NamesAre
<1>5. /\ y.cur = x.cur /\ y.locks = x.locks /\ y.pendsv = x.pendsv /\ y.events = x.events
      /\ y.tick = x.tick /\ y.overflows = x.overflows /\ y.pended = x.pended
  BY <1>1, <1>3 DEF Frame, Fields
<1>6. Ready(y) = Ready(x) \cup {t}
  BY <1>1, <1>3
<1>7. Apart(x) => Apart(y)
  BY <1>5, <1>6 DEF Apart
<1>8. Frame(x, y, {"ready", "top", "delayed", "overflow", "suspended", "termination"})
  BY <1>1, <1>3 DEF Frame
<1> QED
  BY <1>3, <1>5, <1>6, <1>7, <1>8 DEF Readied, SameTime, y, w

LEMMA MadeReadyOrPends ==
    ASSUME NEW x, Lists(x), NEW t \in Users,
           \A l \in EventLists : t \notin ToSet(x.events[l])
    PROVE  LET y == MakeReadyOrPend(x, t)
           IN Readied(x, y) /\ SameTime(x, y) /\ y.events = x.events
<1>1. CASE x.locks = 0
  BY <1>1, MadeReady DEF MakeReadyOrPend
<1>2. CASE x.locks # 0
  <2> DEFINE y == [x EXCEPT !.pending = Append(@, t)]
  <2>1. Frame(x, y, {"pending"}) /\ y.pending = Append(x.pending, t)
    BY DEF Lists, IsKernel, Frame, Fields
  <2>2. MakeReadyOrPend(x, t) = y
    BY <1>2 DEF MakeReadyOrPend
  <2> HIDE DEF y
  <2>3. y.pending \in Seq(Users)
    BY <2>1 DEF Lists, BlockedLists
  <2>4. Ready(y) = Ready(x) /\ y.events = x.events /\ ReadyLists(y)
    <3>1. y.ready = x.ready /\ y.top = x.top /\ y.events = x.events
      BY <2>1 DEF Frame, Fields
    <3> QED
      BY <3>1 DEF Lists, ReadyLists, Ring0, Ready
  <2>5. BlockedLists(y) /\ WaitLists(y) /\ Values(y)
    BY <2>1, <2>3 DEF Lists, BlockedLists, WaitLists, Values, Frame, Fields
  <2>6. Lists(y)
    BY <2>1, <2>4, <2>5 DEF Lists, Frame
  <2>7. y.cur = x.cur /\ y.locks = x.locks /\ y.pendsv = x.pendsv
        /\ y.tick = x.tick /\ y.overflows = x.overflows /\ y.pended = x.pended
    BY <2>1 DEF Frame, Fields
  <2> QED
    BY <2>2, <2>4, <2>6, <2>7 DEF Readied, SameTime, Apart
<1> QED
  BY <1>1, <1>2

\* What a wakeup does: the head of an event list leaves it.
Woken(x, y, list) ==
    /\ Readied(x, y) /\ SameTime(x, y)
    /\ \E t \in ToSet(x.events[list]) :
        /\ ToSet(y.events[list]) = ToSet(x.events[list]) \ {t}
        /\ y.events[list] = Tail(x.events[list])
    /\ \A l \in EventLists \ {list} : y.events[l] = x.events[l]

LEMMA WakesHead ==
    ASSUME NEW x, Lists(x), NEW list \in EventLists, x.events[list] # <<>>
    PROVE  Woken(x, xTaskRemoveFromEventList(x, list), list)
<1> DEFINE t == Head(x.events[list])
           w == [x EXCEPT !.events[list] = Tail(@)]
           m == MakeReadyOrPend(w, t)
           v == [m EXCEPT !.yield = @ \/ Outranks(x, t)]
           z == prvResetNextTaskUnblockTime(v)
<1>1. /\ x.events \in [EventLists -> Seq(Users)] /\ x.events[list] \in Seq(Users)
      /\ NoDup(x.events[list])
  BY DEF Lists, WaitLists
<1>2. t \in ToSet(x.events[list]) /\ t \in Users
  BY <1>1, SetOf
<1>3. /\ Tail(x.events[list]) \in Seq(Users) /\ NoDup(Tail(x.events[list]))
      /\ ToSet(Tail(x.events[list])) = ToSet(x.events[list]) \ {t}
  BY <1>1, TailSet
<1>4. /\ Frame(x, w, {"events"})
      /\ w.events = [x.events EXCEPT ![list] = Tail(x.events[list])]
  BY DEF Lists, IsKernel, Frame, Fields
<1>5. z = xTaskRemoveFromEventList(x, list)
  BY DEF xTaskRemoveFromEventList
<1> HIDE DEF t, w
<1>6. /\ w.events \in [EventLists -> Seq(Users)]
      /\ w.events[list] = Tail(x.events[list])
      /\ \A l \in EventLists \ {list} : w.events[l] = x.events[l]
  BY <1>1, <1>3, <1>4
<1>7. \A l \in EventLists : /\ ToSet(w.events[l]) \subseteq ToSet(x.events[l])
                            /\ t \notin ToSet(w.events[l]) /\ NoDup(w.events[l])
  <2> SUFFICES ASSUME NEW l \in EventLists
               PROVE  /\ ToSet(w.events[l]) \subseteq ToSet(x.events[l])
                      /\ t \notin ToSet(w.events[l]) /\ NoDup(w.events[l])
    OBVIOUS
  <2>1. CASE l = list
    BY <1>3, <1>6, <2>1
  <2>2. CASE l # list
    <3>1. ToSet(x.events[l]) \cap ToSet(x.events[list]) = {} /\ NoDup(x.events[l])
      BY <2>2 DEF Lists, WaitLists
    <3>2. w.events[l] = x.events[l]
      BY <1>6, <2>2
    <3> QED
      BY <1>2, <3>1, <3>2
  <2> QED
    BY <2>1, <2>2
<1>8. Lists(w) /\ Readied(x, w) /\ SameTime(x, w)
  <2>1. WaitLists(w)
    BY <1>6, <1>7 DEF Lists, WaitLists
  <2>2. w.ready = x.ready /\ w.top = x.top /\ w.cur = x.cur /\ w.locks = x.locks
        /\ w.pendsv = x.pendsv /\ w.tick = x.tick /\ w.overflows = x.overflows
        /\ w.pended = x.pended
    BY <1>4 DEF Frame, Fields
  <2>3. ReadyLists(w) /\ Ready(w) = Ready(x)
    BY <2>2 DEF Lists, ReadyLists, Ring0, Ready
  <2>4. BlockedLists(w) /\ Values(w)
    BY <1>4 DEF Lists, BlockedLists, Values, Frame, Fields
  <2>5. Lists(w)
    BY <1>4, <2>1, <2>3, <2>4 DEF Lists, Frame
  <2>6. Apart(x) => Apart(w)
    BY <1>7, <2>3 DEF Apart
  <2> QED
    BY <1>7, <2>2, <2>3, <2>5, <2>6 DEF Readied, SameTime
<1>9. Readied(w, m) /\ SameTime(w, m) /\ m.events = w.events /\ Lists(m)
  <2>1. \A l \in EventLists : t \notin ToSet(w.events[l])
    BY <1>7
  <2>2. Readied(w, m) /\ SameTime(w, m) /\ m.events = w.events
    BY <1>2, <1>8, <2>1, MadeReadyOrPends
  <2> QED
    BY <2>2 DEF Readied
<1> DEFINE h == m.yield \/ Outranks(x, t)
<1> HIDE DEF m
<1>10. Frame(m, v, {"yield"})
  <2>1. v = [m EXCEPT !.yield = h]
    OBVIOUS
  <2> HIDE DEF v, h
  <2> QED
    BY <1>9, <2>1 DEF Lists, IsKernel, Frame, Fields
<1> HIDE DEF v
<1>11. /\ Lists(v) /\ v.events = m.events /\ SameTime(m, v) /\ Readied(m, v)
  <2>1. v.pendsv = m.pendsv
    BY <1>10 DEF Frame, Fields
  <2> QED
    BY <1>9, <1>10, <2>1, OtherFields
<1>12. Lists(z) /\ Frame(v, z, {"unblock"}) /\ Ready(z) = Ready(v)
  BY <1>11, UnblockTimeIs
<1> HIDE DEF z
<1>13. z.events = v.events /\ SameTime(v, z) /\ Readied(v, z)
  <2>1. /\ z.events = v.events /\ z.tick = v.tick /\ z.overflows = v.overflows
        /\ z.pended = v.pended /\ z.cur = v.cur /\ z.locks = v.locks /\ z.pendsv = v.pendsv
    BY <1>12 DEF Frame, Fields
  <2> QED
    BY <1>12, <2>1 DEF SameTime, Readied, Apart
<1>14. Readied(x, z) /\ SameTime(x, z)
  BY <1>8, <1>9, <1>11, <1>13, ReadiedTwice, SameTimeTwice
<1>15. z.events = w.events
  BY <1>9, <1>11, <1>13
<1> QED
  BY <1>2, <1>3, <1>5, <1>6, <1>14, <1>15 DEF Woken

\* A waiter is woken, if there is one.
LEMMA WakeIs ==
    ASSUME NEW x, Lists(x), NEW list \in EventLists, NEW c
    PROVE  /\ x.events[list] # <<>> => Woken(x, Wake(x, list, c), list)
           /\ x.events[list] = <<>> => Wake(x, list, c).events = x.events
           /\ Readied(x, Wake(x, list, c)) /\ SameTime(x, Wake(x, list, c))
           /\ \A l \in EventLists \ {list} : Wake(x, list, c).events[l] = x.events[l]
<1>1. CASE x.events[list] = <<>>
  BY <1>1, YieldIs DEF Wake
<1>2. CASE x.events[list] # <<>>
  <2> DEFINE y == xTaskRemoveFromEventList(x, list)
             d == WakesHigher(x, list)
             z == YieldIf(d, y)
  <2>1. Woken(x, y, list)
    BY <1>2, WakesHead
  <2>2. Wake(x, list, c) = z
    BY <1>2 DEF Wake
  <2> HIDE DEF y, d
  <2>3. Readied(y, z) /\ SameTime(y, z) /\ z.events = y.events
    BY <2>1, YieldIs DEF Woken, Readied
  <2> HIDE DEF z
  <2>4. Readied(x, z) /\ SameTime(x, z)
    BY <2>1, <2>3, ReadiedTwice, SameTimeTwice DEF Woken
  <2> QED
    BY <1>2, <2>1, <2>2, <2>3, <2>4 DEF Woken
<1> QED
  BY <1>1, <1>2

\* The bodies of the loops over the pending and the delayed list.
LEMMA PendedReadies ==
    ASSUME NEW x, Lists(x), NEW t \in Users
    PROVE  Readied(x, ReadyPended(x, t)) /\ SameTime(x, ReadyPended(x, t))
<1> DEFINE w == RemoveEvent(x, t)
           m == prvAddTaskToReadyList(RemoveState(w, t), t)
           h == m.yield \/ x.prio[t] >= x.prio[x.cur]
           z == [m EXCEPT !.yield = h]
<1>1. ReadyPended(x, t) = z
  BY DEF ReadyPended
<1>2. /\ Lists(w) /\ Frame(x, w, {"events", "pending"})
      /\ \A l \in EventLists : ToSet(w.events[l]) = ToSet(x.events[l]) \ {t}
  BY RemoveEventIs
<1> HIDE DEF w
<1>3. Readied(x, w) /\ SameTime(x, w)
  <2>1. w.ready = x.ready /\ w.cur = x.cur /\ w.locks = x.locks /\ w.pendsv = x.pendsv
        /\ w.tick = x.tick /\ w.overflows = x.overflows /\ w.pended = x.pended
    BY <1>2 DEF Frame, Fields
  <2>2. Ready(w) = Ready(x)
    BY <2>1 DEF Ready
  <2> QED
    BY <1>2, <2>1, <2>2 DEF Readied, SameTime, Apart
<1>4. Readied(w, m) /\ SameTime(w, m) /\ Lists(m)
  <2>1. \A l \in EventLists : t \notin ToSet(w.events[l])
    BY <1>2
  <2>2. Readied(w, m) /\ SameTime(w, m)
    BY <1>2, <2>1, MadeReady
  <2> QED
    BY <2>2 DEF Readied
<1> HIDE DEF m, h
<1>5. Frame(m, z, {"yield"})
  BY <1>4 DEF Lists, IsKernel, Frame, Fields
<1> HIDE DEF z
<1>6. Readied(m, z) /\ SameTime(m, z)
  <2>1. z.pendsv = m.pendsv
    BY <1>5 DEF Frame, Fields
  <2> QED
    BY <1>4, <1>5, <2>1, OtherFields
<1> QED
  BY <1>1, <1>3, <1>4, <1>6, ReadiedTwice, SameTimeTwice

LEMMA DueReadies ==
    ASSUME NEW x, Lists(x), NEW t \in Users
    PROVE  Readied(x, UnblockDelayed(x, t)) /\ SameTime(x, UnblockDelayed(x, t))
<1> DEFINE v == RemoveState(x, t)
           w == RemoveEvent(v, t)
           z == prvAddTaskToReadyList(w, t)
<1>1. UnblockDelayed(x, t) = z
  BY DEF UnblockDelayed
<1>2. /\ Lists(v) /\ Ready(v) = Ready(x) \ {t}
      /\ Frame(x, v, {"ready", "delayed", "overflow", "suspended", "termination"})
  BY RemoveStateIs
<1> HIDE DEF v
<1>3. /\ Lists(w) /\ Frame(v, w, {"events", "pending"})
      /\ \A l \in EventLists : ToSet(w.events[l]) = ToSet(v.events[l]) \ {t}
  BY <1>2, RemoveEventIs
<1> HIDE DEF w
<1>4. Ready(w) = Ready(v) /\ t \in Tasks
  <2>1. w.ready = v.ready
    BY <1>3 DEF Frame, Fields
  <2> QED
    BY <2>1, NamesAre DEF Ready
<1>5. t \notin Ready(w)
  BY <1>2, <1>4
<1>6. /\ Lists(z) /\ Frame(w, z, {"ready", "top"}) /\ Ready(z) = Ready(w) \cup {t}
  BY <1>3, <1>5, AddReadyIs
<1> HIDE DEF z
<1>7. /\ z.cur = x.cur /\ z.locks = x.locks /\ z.pendsv = x.pendsv
      /\ z.tick = x.tick /\ z.overflows = x.overflows /\ z.pended = x.pended
      /\ z.events = w.events /\ v.events = x.events
  BY <1>2, <1>3, <1>6 DEF Frame, Fields
<1>8. Ready(z) = Ready(x) \cup {t}
  BY <1>2, <1>4, <1>6
<1>9. Apart(x) => Apart(z)
  BY <1>3, <1>7, <1>8 DEF Apart
<1> QED
  BY <1>1, <1>3, <1>6, <1>7, <1>8, <1>9 DEF Readied, SameTime

-----------------------------------------------------------------------------
(* The tick.                                                               *)

\* The ticks that the tick count has counted.
Count(x) == x.overflows * TickModulus + x.tick

LEMMA CountNow ==
    ASSUME NEW x, Lists(x)
    PROVE  Count(x) \in Nat /\ Now(x) \in Nat /\ Now(x) = Count(x) + x.pended
<1>1. /\ x.overflows \in Nat /\ x.tick \in Nat /\ x.pended \in Nat /\ TickModulus \in Nat
  BY NamesAre DEF Lists, Values, Ticks
<1>2. x.overflows * TickModulus \in Nat
  BY <1>1
<1> DEFINE m == x.overflows * TickModulus
<1> HIDE DEF m
<1>3. m \in Nat
  BY <1>2 DEF m
<1>4. Count(x) = m + x.tick /\ Now(x) = m + x.tick + x.pended
  BY DEF Count, Now, m
<1> QED
  BY <1>1, <1>3, <1>4

LEMMA SameTimeCount ==
    ASSUME NEW x, NEW y, SameTime(x, y)
    PROVE  Count(y) = Count(x) /\ Now(y) = Now(x) /\ y.pended = x.pended
BY DEF SameTime, Count, Now

LEMMA TurnLists ==
    ASSUME NEW x, Lists(x)
    PROVE  /\ Readied(x, taskSWITCH_DELAYED_LISTS(x))
           /\ taskSWITCH_DELAYED_LISTS(x).tick = x.tick
           /\ taskSWITCH_DELAYED_LISTS(x).overflows = x.overflows + 1
           /\ taskSWITCH_DELAYED_LISTS(x).pended = x.pended
<1> DEFINE w == [x EXCEPT !.delayed = x.overflow, !.overflow = x.delayed,
                          !.overflows = @ + 1]
           z == prvResetNextTaskUnblockTime(w)
<1>1. /\ Frame(x, w, {"delayed", "overflow", "overflows"})
      /\ w.delayed = x.overflow /\ w.overflow = x.delayed
      /\ w.overflows = x.overflows + 1
  BY DEF Lists, IsKernel, Frame, Fields
<1>2. taskSWITCH_DELAYED_LISTS(x) = z
  BY DEF taskSWITCH_DELAYED_LISTS
<1> HIDE DEF w
<1>3. ReadyLists(w) /\ Ready(w) = Ready(x) /\ WaitLists(w)
  BY <1>1 DEF Lists, ReadyLists, Ring0, Ready, WaitLists, Frame, Fields
<1>4. BlockedLists(w) /\ Values(w)
  <2>1. BlockedLists(w)
    BY <1>1 DEF Lists, BlockedLists, Frame, Fields
  <2>2. Values(w)
    BY <1>1 DEF Lists, Values, Frame, Fields
  <2> QED
    BY <2>1, <2>2
<1>5. Lists(w)
  BY <1>1, <1>3, <1>4 DEF Lists, Frame
<1>6. Lists(z) /\ Frame(w, z, {"unblock"}) /\ Ready(z) = Ready(w)
  BY <1>5, UnblockTimeIs
<1> HIDE DEF z
<1>7. /\ z.cur = x.cur /\ z.locks = x.locks /\ z.pendsv = x.pendsv /\ z.events = x.events
      /\ z.tick = x.tick /\ z.pended = x.pended /\ z.overflows = w.overflows
  BY <1>1, <1>6 DEF Frame, Fields
<1> QED
  BY <1>1, <1>2, <1>3, <1>6, <1>7 DEF Readied, Apart

LEMMA DueIn ==
    ASSUME NEW x, Lists(x)
    PROVE  Due(x) \in Seq(Users)
<1> DEFINE s == x.delayed
           late == {i \in 1 .. Len(s) : x.tick < x.wake[s[i]]}
           n == IF late = {} THEN Len(s) ELSE Min(late) - 1
<1>1. s \in Seq(Users) /\ Len(s) \in Nat
  BY DEF Lists, BlockedLists
<1>2. late \in SUBSET Nat /\ late \subseteq 1 .. Len(s)
  BY <1>1
<1>3. Due(x) = SubSeq(s, 1, n)
  BY DEF Due
<1> HIDE DEF s, late
<1>4. late # {} => Min(late) \in 1 .. Len(s)
  BY <1>2, MinIn
<1>5. n \in 0 .. Len(s)
  BY <1>1, <1>4
<1> HIDE DEF n
<1> QED
  BY <1>1, <1>3, <1>5, SplitAt

\* The tasks that are due are readied.
LEMMA DueLoopIs ==
    ASSUME NEW x, Lists(x), NEW s \in Seq(Users)
    PROVE  Readied(x, FoldLeft(UnblockDelayed, x, s))
           /\ SameTime(x, FoldLeft(UnblockDelayed, x, s))
<1>1. PICK r : /\ Rounds("due", "none", x, s, Len(s), r)
               /\ r[Len(s)] = FoldLeft(UnblockDelayed, x, s)
  BY DueLoop
<1> DEFINE A == {i \in 0 .. Len(s) : Readied(x, r[i]) /\ SameTime(x, r[i])}
<1>2. 0 \in A
  <2>1. 0 \in 0 .. Len(s) /\ r[0] = x
    BY <1>1 DEF Rounds
  <2> QED
    BY <2>1, ReadiedNone
<1>3. ASSUME NEW i \in 1 .. Len(s), i - 1 \in A PROVE i \in A
  <2>1. r[i] = UnblockDelayed(r[i - 1], s[i]) /\ s[i] \in Users /\ i \in 0 .. Len(s)
    BY <1>1 DEF Rounds, Body
  <2>2. Readied(x, r[i - 1]) /\ SameTime(x, r[i - 1]) /\ Lists(r[i - 1])
    BY <1>3 DEF Readied
  <2>3. Readied(r[i - 1], r[i]) /\ SameTime(r[i - 1], r[i])
    BY <2>1, <2>2, DueReadies
  <2>4. Readied(x, r[i]) /\ SameTime(x, r[i])
    BY <2>2, <2>3, ReadiedTwice, SameTimeTwice
  <2> QED
    BY <2>1, <2>4
<1>4. Len(s) \in A
  <2>1. Len(s) \in Nat /\ Len(s) \in 0 .. Len(s)
    OBVIOUS
  <2> HIDE DEF A
  <2> QED
    BY <1>2, <1>3, <2>1, Along
<1> QED
  BY <1>1, <1>4

\* One more tick: counted at once, or later if the scheduler is suspended.
LEMMA TickIs ==
    ASSUME NEW x, Lists(x)
    PROVE  LET y == xTaskIncrementTick(x).k
           IN /\ Readied(x, y) /\ Now(y) = Now(x) + 1
              /\ IF x.locks = 0 THEN Count(y) = Count(x) + 1 /\ y.pended = x.pended
                 ELSE y.tick = x.tick /\ y.overflows = x.overflows /\ y.pended = x.pended + 1
<1>1. CASE x.locks # 0
  <2> DEFINE y == [x EXCEPT !.pended = @ + 1]
  <2>1. xTaskIncrementTick(x).k = y
    BY <1>1 DEF xTaskIncrementTick
  <2>2. Frame(x, y, {"pended"}) /\ y.pended = x.pended + 1
    BY DEF Lists, IsKernel, Frame, Fields
  <2> HIDE DEF y
  <2>3. ReadyLists(y) /\ Ready(y) = Ready(x) /\ WaitLists(y) /\ BlockedLists(y)
    BY <2>2 DEF Lists, ReadyLists, Ring0, Ready, WaitLists, BlockedLists, Frame, Fields
  <2>4. Values(y)
    BY <2>2 DEF Lists, Values, Frame, Fields
  <2>5. /\ y.cur = x.cur /\ y.locks = x.locks /\ y.pendsv = x.pendsv
        /\ y.events = x.events /\ y.tick = x.tick /\ y.overflows = x.overflows
    BY <2>2 DEF Frame, Fields
  <2>6. Lists(y)
    BY <2>2, <2>3, <2>4 DEF Lists, Frame
  <2>7. Readied(x, y)
    BY <2>3, <2>5, <2>6 DEF Readied, Apart
  <2>8. Count(y) = Count(x)
    BY <2>5 DEF Count
  <2>9. Now(y) = Now(x) + 1
    <3>1. /\ Count(x) \in Nat /\ Now(x) = Count(x) + x.pended
          /\ Now(y) = Count(y) + y.pended
      BY <2>6, CountNow
    <3>2. x.pended \in Nat
      BY DEF Lists, Values
    <3> QED
      BY <2>2, <2>8, <3>1, <3>2
  <2> QED
    BY <1>1, <2>1, <2>2, <2>5, <2>7, <2>9
<1>2. CASE x.locks = 0
  <2> DEFINE tick == (x.tick + 1) % TickModulus
             w == [x EXCEPT !.tick = tick]
             v == IF tick = 0 THEN taskSWITCH_DELAYED_LISTS(w) ELSE w
             due == IF tick >= v.unblock THEN Due(v) ELSE <<>>
             m == FoldLeft(UnblockDelayed, v, due)
             z == IF tick >= v.unblock THEN prvResetNextTaskUnblockTime(m) ELSE m
  <2>1. xTaskIncrementTick(x).k = z
    BY <1>2 DEF xTaskIncrementTick
  <2>2. /\ tick \in Ticks /\ tick = (IF x.tick = MaxDelay THEN 0 ELSE x.tick + 1)
    <3>1. x.tick \in 0 .. TickModulus - 1 /\ TickModulus \in Nat \ {0, 1}
      BY NamesAre DEF Lists, Values, Ticks, MaxDelay
    <3>2. CASE x.tick = TickModulus - 1
      <4>1. x.tick + 1 = TickModulus /\ TickModulus % TickModulus = 0
        BY <3>1, <3>2
      <4> QED
        BY <3>1, <3>2, <4>1 DEF Ticks, MaxDelay
    <3>3. CASE x.tick # TickModulus - 1
      <4>1. x.tick + 1 \in 0 .. TickModulus - 1
        BY <3>1, <3>3
      <4>2. (x.tick + 1) % TickModulus = x.tick + 1
        BY <3>1, <4>1
      <4> QED
        BY <3>3, <4>1, <4>2 DEF Ticks, MaxDelay
    <3> QED
      BY <3>2, <3>3
  <2>3. Frame(x, w, {"tick"}) /\ w.tick = tick
    BY DEF Lists, IsKernel, Frame, Fields
  <2> HIDE DEF tick, w
  <2>4. Lists(w) /\ Readied(x, w)
    <3>1. ReadyLists(w) /\ Ready(w) = Ready(x) /\ WaitLists(w) /\ BlockedLists(w)
      BY <2>3 DEF Lists, ReadyLists, Ring0, Ready, WaitLists, BlockedLists, Frame, Fields
    <3>2. Values(w)
      BY <2>2, <2>3 DEF Lists, Values, Frame, Fields
    <3>3. w.cur = x.cur /\ w.locks = x.locks /\ w.pendsv = x.pendsv /\ w.events = x.events
      BY <2>3 DEF Frame, Fields
    <3>4. Lists(w)
      BY <2>3, <3>1, <3>2 DEF Lists, Frame
    <3> QED
      BY <3>1, <3>3, <3>4 DEF Readied, Apart
  <2>5. /\ Readied(w, v) /\ Lists(v) /\ v.tick = tick /\ v.pended = x.pended
        /\ v.overflows = x.overflows + (IF tick = 0 THEN 1 ELSE 0)
    <3>0. w.overflows = x.overflows /\ w.pended = x.pended /\ x.overflows \in Nat
      BY <2>3 DEF Frame, Fields, Lists, Values
    <3>1. CASE tick = 0
      <4>1. /\ Readied(w, v) /\ v.tick = w.tick /\ v.overflows = w.overflows + 1
            /\ v.pended = w.pended
        BY <2>4, <3>1, TurnLists
      <4> QED
        BY <2>3, <3>0, <3>1, <4>1 DEF Readied
    <3>2. CASE tick # 0
      BY <2>3, <2>4, <3>0, <3>2, ReadiedNone
    <3> QED
      BY <3>1, <3>2
  <2> HIDE DEF v
  <2>6. due \in Seq(Users)
    BY <2>5, DueIn
  <2> HIDE DEF due
  <2>7. Readied(v, m) /\ SameTime(v, m) /\ Lists(m)
    BY <2>5, <2>6, DueLoopIs DEF Readied
  <2> HIDE DEF m
  <2>8. Readied(m, z) /\ SameTime(m, z)
    <3> DEFINE u == prvResetNextTaskUnblockTime(m)
    <3>1. Lists(u) /\ Frame(m, u, {"unblock"}) /\ Ready(u) = Ready(m)
      BY <2>7, UnblockTimeIs
    <3> HIDE DEF u
    <3>2. /\ u.cur = m.cur /\ u.locks = m.locks /\ u.pendsv = m.pendsv
          /\ u.events = m.events /\ u.tick = m.tick /\ u.overflows = m.overflows
          /\ u.pended = m.pended
      BY <3>1 DEF Frame, Fields
    <3>3. Readied(m, u) /\ SameTime(m, u)
      BY <3>1, <3>2 DEF Readied, SameTime, Apart
    <3>4. z = u \/ z = m
      BY DEF u
    <3> HIDE DEF z
    <3> QED
      BY <2>7, <3>3, <3>4, ReadiedNone
  <2> HIDE DEF z
  <2>9. Readied(x, z)
    BY <2>4, <2>5, <2>7, <2>8, ReadiedTwice
  <2>10. /\ z.tick = tick /\ z.pended = x.pended
         /\ z.overflows = x.overflows + (IF tick = 0 THEN 1 ELSE 0)
    BY <2>5, <2>7, <2>8 DEF SameTime
  <2>11. Count(z) = Count(x) + 1
    <3>1. x.overflows \in Nat /\ x.tick \in Ticks /\ TickModulus \in Nat \ {0, 1}
      BY NamesAre DEF Lists, Values
    <3>2. CASE x.tick = MaxDelay
      <4>1. z.tick = 0 /\ z.overflows = x.overflows + 1 /\ x.tick = TickModulus - 1
        BY <2>2, <2>10, <3>2 DEF MaxDelay
      <4>2. (x.overflows + 1) * TickModulus = x.overflows * TickModulus + TickModulus
        BY <3>1
      <4>3. x.overflows * TickModulus \in Nat
        BY <3>1
      <4> DEFINE p == x.overflows * TickModulus
      <4>4. Count(z) = p + TickModulus + 0 /\ Count(x) = p + (TickModulus - 1) /\ p \in Nat
        BY <4>1, <4>2, <4>3 DEF Count
      <4> HIDE DEF p
      <4> QED
        BY <3>1, <4>4
    <3>3. CASE x.tick # MaxDelay
      <4>1. z.tick = x.tick + 1 /\ z.overflows = x.overflows /\ x.tick \in Nat
        BY <2>2, <2>10, <3>1, <3>3 DEF Ticks
      <4>2. x.overflows * TickModulus \in Nat
        BY <3>1
      <4> DEFINE p == x.overflows * TickModulus
      <4>4. Count(z) = p + (x.tick + 1) /\ Count(x) = p + x.tick /\ p \in Nat
        BY <4>1, <4>2 DEF Count
      <4> HIDE DEF p
      <4> QED
        BY <4>1, <4>4
    <3> QED
      BY <3>2, <3>3
  <2>12. Now(z) = Now(x) + 1
    <3>1. /\ Count(x) \in Nat /\ Now(x) = Count(x) + x.pended
          /\ Now(z) = Count(z) + z.pended /\ x.pended \in Nat
      BY <2>9, CountNow DEF Readied, Lists, Values
    <3> QED
      BY <2>10, <2>11, <3>1
  <2> QED
    BY <1>2, <2>1, <2>9, <2>10, <2>11, <2>12
<1> QED
  BY <1>1, <1>2

-----------------------------------------------------------------------------
(* The scheduler resumes.                                                  *)

LEMMA PendedLoopIs ==
    ASSUME NEW x, Lists(x), NEW s \in Seq(Users)
    PROVE  Readied(x, FoldLeft(ReadyPended, x, s))
           /\ SameTime(x, FoldLeft(ReadyPended, x, s))
<1>1. PICK r : /\ Rounds("pended", "none", x, s, Len(s), r)
               /\ r[Len(s)] = FoldLeft(ReadyPended, x, s)
  BY PendedLoop
<1> DEFINE A == {i \in 0 .. Len(s) : Readied(x, r[i]) /\ SameTime(x, r[i])}
<1>2. 0 \in A
  <2>1. 0 \in 0 .. Len(s) /\ r[0] = x
    BY <1>1 DEF Rounds
  <2> QED
    BY <2>1, ReadiedNone
<1>3. ASSUME NEW i \in 1 .. Len(s), i - 1 \in A PROVE i \in A
  <2>1. r[i] = ReadyPended(r[i - 1], s[i]) /\ s[i] \in Users /\ i \in 0 .. Len(s)
    BY <1>1 DEF Rounds, Body
  <2>2. Readied(x, r[i - 1]) /\ SameTime(x, r[i - 1]) /\ Lists(r[i - 1])
    BY <1>3 DEF Readied
  <2>3. Readied(r[i - 1], r[i]) /\ SameTime(r[i - 1], r[i])
    BY <2>1, <2>2, PendedReadies
  <2>4. Readied(x, r[i]) /\ SameTime(x, r[i])
    BY <2>2, <2>3, ReadiedTwice, SameTimeTwice
  <2> QED
    BY <2>1, <2>4
<1>4. Len(s) \in A
  <2>1. Len(s) \in Nat /\ Len(s) \in 0 .. Len(s)
    OBVIOUS
  <2> HIDE DEF A
  <2> QED
    BY <1>2, <1>3, <2>1, Along
<1> QED
  BY <1>1, <1>4

LEMMA CountsOne ==
    ASSUME NEW x, Lists(x), x.locks = 0, NEW i
    PROVE  /\ Readied(x, CountPended(x, i)) /\ Count(CountPended(x, i)) = Count(x) + 1
<1> DEFINE r == xTaskIncrementTick(x)
           y == r.k
           h == y.yield \/ r.switch
           z == [y EXCEPT !.yield = h]
<1>1. CountPended(x, i) = z
  BY DEF CountPended
<1>2. Readied(x, y) /\ Count(y) = Count(x) + 1 /\ Lists(y)
  <2>1. Readied(x, y) /\ Count(y) = Count(x) + 1
    BY TickIs
  <2> HIDE DEF y
  <2> QED
    BY <2>1 DEF Readied
<1> HIDE DEF y, h
<1>3. Frame(y, z, {"yield"})
  BY <1>2 DEF Lists, IsKernel, Frame, Fields
<1> HIDE DEF z
<1>4. Readied(y, z) /\ SameTime(y, z)
  <2>1. z.pendsv = y.pendsv
    BY <1>3 DEF Frame, Fields
  <2> QED
    BY <1>2, <1>3, <2>1, OtherFields
<1> QED
  BY <1>1, <1>2, <1>4, ReadiedTwice, SameTimeCount

LEMMA TicksLoopIs ==
    ASSUME NEW x, Lists(x), x.locks = 0, NEW n \in Nat
    PROVE  LET y == FoldLeft(CountPended, x, [i \in 1 .. n |-> i])
           IN Readied(x, y) /\ Count(y) = Count(x) + n
<1> DEFINE s == [i \in 1 .. n |-> i]
<1>1. s \in Seq(Nat) /\ Len(s) = n
  <2>1. s \in [1 .. n -> Nat]
    OBVIOUS
  <2> HIDE DEF s
  <2> QED
    BY <2>1, FunctionIsSeq
<1> HIDE DEF s
<1>2. PICK r : /\ Rounds("ticks", "none", x, s, n, r)
               /\ r[n] = FoldLeft(CountPended, x, s)
  BY <1>1, TicksLoop
<1> DEFINE A == {i \in 0 .. n : Readied(x, r[i]) /\ Count(r[i]) = Count(x) + i}
<1>3. Count(x) \in Nat
  BY CountNow
<1>4. 0 \in A
  <2>1. 0 \in 0 .. n /\ r[0] = x /\ Count(x) = Count(x) + 0
    BY <1>2, <1>3 DEF Rounds
  <2> QED
    BY <2>1, ReadiedNone
<1>5. ASSUME NEW i \in 1 .. n, i - 1 \in A PROVE i \in A
  <2>1. r[i] = CountPended(r[i - 1], s[i]) /\ i \in 0 .. n
    BY <1>2 DEF Rounds, Body
  <2>2. /\ Readied(x, r[i - 1]) /\ Count(r[i - 1]) = Count(x) + (i - 1)
        /\ Lists(r[i - 1]) /\ r[i - 1].locks = 0
    BY <1>5 DEF Readied
  <2>3. Readied(r[i - 1], r[i]) /\ Count(r[i]) = Count(r[i - 1]) + 1
    BY <2>1, <2>2, CountsOne
  <2>4. Readied(x, r[i]) /\ Count(r[i]) = Count(x) + i
    BY <1>3, <2>2, <2>3, ReadiedTwice
  <2> QED
    BY <2>1, <2>4
<1>6. n \in A
  <2>1. n \in 0 .. n
    OBVIOUS
  <2> HIDE DEF A
  <2> QED
    BY <1>4, <1>5, <2>1, Along
<1> QED
  BY <1>2, <1>6 DEF s

\* The pended ticks are counted, the pending tasks readied.
LEMMA ResumedIs ==
    ASSUME NEW x, Lists(x), x.locks = 1
    PROVE  LET y == xTaskResumeAll(x)
           IN /\ Readied([x EXCEPT !.locks = 0], y) /\ y.locks = 0 /\ y.cur = x.cur
              /\ Ready(x) \subseteq Ready(y) /\ (Apart(x) => Apart(y))
              /\ \A l \in EventLists : ToSet(y.events[l]) \subseteq ToSet(x.events[l])
              /\ Count(y) = Count(x) + x.pended /\ y.pended = 0 /\ Now(y) = Now(x)
<1> DEFINE o == [x EXCEPT !.locks = @ - 1]
           p == FoldLeft(ReadyPended, o, x.pending)
           q == IF x.pending = <<>> THEN p ELSE prvResetNextTaskUnblockTime(p)
           s == [i \in 1 .. x.pended |-> i]
           c == FoldLeft(CountPended, q, s)
           d == [c EXCEPT !.pended = 0]
           e == d.yield
           y == YieldIf(e, d)
<1>1. /\ Frame(x, o, {"locks"}) /\ o.locks = 0 /\ o = [x EXCEPT !.locks = 0]
  BY DEF Lists, IsKernel, Frame, Fields
<1>2. y = xTaskResumeAll(x)
  <2>1. xTaskResumeAll(x) = IF o.locks # 0 THEN o ELSE y
    BY DEF xTaskResumeAll
  <2> HIDE DEF y
  <2> QED
    BY <1>1, <2>1
<1> HIDE DEF o
<1>3. /\ Lists(o) /\ Ready(o) = Ready(x) /\ o.events = x.events /\ (Apart(x) => Apart(o))
      /\ SameTime(x, o) /\ o.cur = x.cur
  <2>1. /\ ReadyLists(o) /\ Ready(o) = Ready(x) /\ WaitLists(o) /\ BlockedLists(o)
    BY <1>1 DEF Lists, ReadyLists, Ring0, Ready, WaitLists, BlockedLists, Frame, Fields
  <2>2. Values(o)
    BY <1>1 DEF Lists, Values, Frame, Fields
  <2>3. /\ o.events = x.events /\ o.tick = x.tick /\ o.overflows = x.overflows
        /\ o.pended = x.pended /\ o.cur = x.cur
    BY <1>1 DEF Frame, Fields
  <2> QED
    BY <1>1, <2>1, <2>2, <2>3 DEF Lists, Frame, Apart, SameTime
<1>4. Readied(o, p) /\ SameTime(o, p) /\ Lists(p)
  <2>1. x.pending \in Seq(Users)
    BY DEF Lists, BlockedLists
  <2> QED
    BY <1>3, <2>1, PendedLoopIs DEF Readied
<1> HIDE DEF p
<1>5. Readied(p, q) /\ SameTime(p, q) /\ Lists(q)
  <2> DEFINE u == prvResetNextTaskUnblockTime(p)
  <2>1. Lists(u) /\ Frame(p, u, {"unblock"}) /\ Ready(u) = Ready(p)
    BY <1>4, UnblockTimeIs
  <2> HIDE DEF u
  <2>2. /\ u.cur = p.cur /\ u.locks = p.locks /\ u.pendsv = p.pendsv
        /\ u.events = p.events /\ u.tick = p.tick /\ u.overflows = p.overflows
        /\ u.pended = p.pended
    BY <2>1 DEF Frame, Fields
  <2>3. Readied(p, u) /\ SameTime(p, u)
    BY <2>1, <2>2 DEF Readied, SameTime, Apart
  <2>4. q = u \/ q = p
    BY DEF u
  <2> HIDE DEF q
  <2>5. Readied(p, q) /\ SameTime(p, q)
    BY <1>4, <2>3, <2>4, ReadiedNone
  <2> QED
    BY <2>5 DEF Readied
<1> HIDE DEF q
<1>6. q.locks = 0 /\ x.pended \in Nat
  BY <1>1, <1>4, <1>5 DEF Readied, Lists, Values
<1>7. Readied(q, c) /\ Count(c) = Count(q) + x.pended /\ Lists(c)
  <2>1. Readied(q, c) /\ Count(c) = Count(q) + x.pended
    BY <1>5, <1>6, TicksLoopIs
  <2> HIDE DEF c
  <2> QED
    BY <2>1 DEF Readied
<1> HIDE DEF c
<1>8. Frame(c, d, {"pended"}) /\ d.pended = 0
  BY <1>7 DEF Lists, IsKernel, Frame, Fields
<1> HIDE DEF d
<1>9. Readied(c, d) /\ Lists(d) /\ Count(d) = Count(c)
  <2>1. ReadyLists(d) /\ Ready(d) = Ready(c) /\ WaitLists(d) /\ BlockedLists(d)
    BY <1>7, <1>8 DEF Lists, ReadyLists, Ring0, Ready, WaitLists, BlockedLists, Frame, Fields
  <2>2. Values(d)
    BY <1>7, <1>8 DEF Lists, Values, Frame, Fields
  <2>3. /\ d.events = c.events /\ d.tick = c.tick /\ d.overflows = c.overflows
        /\ d.cur = c.cur /\ d.locks = c.locks /\ d.pendsv = c.pendsv
    BY <1>8 DEF Frame, Fields
  <2>4. Lists(d)
    BY <1>8, <2>1, <2>2 DEF Lists, Frame
  <2> QED
    BY <2>1, <2>3, <2>4 DEF Readied, Apart, Count
<1> HIDE DEF e
<1>10. Readied(d, y) /\ SameTime(d, y)
  BY <1>9, YieldIs
<1> HIDE DEF y
<1>11. Readied(o, y)
  BY <1>4, <1>5, <1>7, <1>9, <1>10, ReadiedTwice
<1>12. Count(y) = Count(x) + x.pended /\ y.pended = 0
  <2>1. Count(o) = Count(x) /\ Count(p) = Count(o) /\ Count(q) = Count(p)
    BY <1>3, <1>4, <1>5, SameTimeCount
  <2>2. Count(y) = Count(d) /\ y.pended = d.pended
    BY <1>10, SameTimeCount
  <2> QED
    BY <1>7, <1>8, <1>9, <2>1, <2>2
<1>13. Now(y) = Now(x)
  <2>1. /\ Now(y) = Count(y) + y.pended /\ Now(x) = Count(x) + x.pended
        /\ Count(x) \in Nat
    BY <1>11, CountNow DEF Readied
  <2> QED
    BY <1>6, <1>12, <2>1
<1> QED
  BY <1>1, <1>2, <1>3, <1>11, <1>12, <1>13 DEF Readied

\* prvUnlockQueue wakes a task for each item, as long as there are any.
LEMMA UnlockedIs ==
    ASSUME NEW x, Lists(x), NEW list \in EventLists, NEW count \in Int
    PROVE  LET y == UnlockWakes(x, list, count)
               gone == ToSet(x.events[list]) \ ToSet(y.events[list])
           IN /\ Readied(x, y) /\ SameTime(x, y)
              /\ \A l \in EventLists \ {list} : y.events[l] = x.events[l]
              /\ IsFiniteSet(gone)
              /\ y.events[list] # <<>> => Cardinality(gone) = Max({count, 0})
<1> DEFINE c == Max({count, 0})
           n == Min({c, Len(x.events[list])})
<1>1. c \in Nat /\ c = IF count >= 0 THEN count ELSE 0
  <2>1. CASE count >= 0
    <3>1. c = IF count >= 0 THEN count ELSE 0
      BY <2>1, MaxOfPair
    <3> QED
      BY <2>1, <3>1
  <2>2. CASE ~(count >= 0)
    <3>1. \A v \in {count, 0} : (\A u \in {count, 0} : v >= u) => v = 0
      BY <2>2
    <3>2. \A u \in {count, 0} : 0 >= u
      BY <2>2
    <3>3. \E v \in {count, 0} : \A u \in {count, 0} : v >= u
      BY <3>2
    <3>4. c = 0
      BY <3>1, <3>3 DEF Max
    <3> QED
      BY <2>2, <3>4
  <2> QED
    BY <2>1, <2>2
<1> HIDE DEF c
<1>2. x.events[list] \in Seq(Users) /\ Len(x.events[list]) \in Nat
  BY DEF Lists, WaitLists
<1>3. n \in Nat /\ n <= c /\ n <= Len(x.events[list])
      /\ (n = c \/ n = Len(x.events[list]))
  <2> DEFINE m == Len(x.events[list])
  <2>1. m \in Nat
    BY <1>2
  <2> HIDE DEF m
  <2>2. \E v \in {c, m} : \A u \in {c, m} : v =< u
    BY <1>1, <2>1
  <2>3. Min({c, m}) \in {c, m} /\ \A u \in {c, m} : Min({c, m}) =< u
    BY <2>2 DEF Min
  <2> QED
    BY <1>1, <2>1, <2>3 DEF m
<1>4. PICK r : /\ Rounds("waiting", list, x, x, n, r)
               /\ r[n] = UnlockWakes(x, list, count)
  <2>1. n = Min({Max({count, 0}), Len(x.events[list])})
    BY DEF c
  <2> HIDE DEF n
  <2> QED
    BY <1>3, <2>1, WaitingLoop
<1> HIDE DEF n
<1> DEFINE gone(i) == ToSet(x.events[list]) \ ToSet(r[i].events[list])
           P(i) == /\ Readied(x, r[i]) /\ SameTime(x, r[i])
                   /\ \A l \in EventLists \ {list} : r[i].events[l] = x.events[l]
                   /\ IsFiniteSet(gone(i)) /\ Cardinality(gone(i)) = i
                   /\ r[i].events[list] \in Seq(Users)
                   /\ Len(r[i].events[list]) = Len(x.events[list]) - i
           A == {i \in 0 .. n : P(i)}
<1>5. 0 \in A
  <2>1. 0 \in 0 .. n /\ r[0] = x
    BY <1>3, <1>4 DEF Rounds
  <2>2. gone(0) = {}
    BY <2>1
  <2>3. IsFiniteSet(gone(0)) /\ Cardinality(gone(0)) = 0
    BY <2>2, FS_EmptySet
  <2> HIDE DEF gone
  <2> QED
    BY <1>2, <2>1, <2>3, ReadiedNone
<1>6. ASSUME NEW i \in 1 .. n, i - 1 \in A PROVE i \in A
  <2>1. r[i] = xTaskRemoveFromEventList(r[i - 1], list) /\ i \in 0 .. n
    BY <1>3, <1>4 DEF Rounds, Body
  <2>2. P(i - 1)
    BY <1>6
  <2>3. /\ Lists(r[i - 1]) /\ r[i - 1].events[list] \in Seq(Users)
        /\ Len(r[i - 1].events[list]) = Len(x.events[list]) - (i - 1)
        /\ Len(x.events[list]) - (i - 1) >= 1
    BY <1>2, <1>3, <2>2 DEF Readied
  <2>4. r[i - 1].events[list] # <<>>
    BY <2>3
  <2>5. Woken(r[i - 1], r[i], list)
    BY <2>1, <2>3, <2>4, WakesHead
  <2>6. PICK t \in ToSet(r[i - 1].events[list]) :
            ToSet(r[i].events[list]) = ToSet(r[i - 1].events[list]) \ {t}
    BY <2>5 DEF Woken
  <2>7. gone(i) = gone(i - 1) \cup {t} /\ t \notin gone(i - 1)
    <3>1. t \in ToSet(x.events[list])
      BY <2>2, <2>6 DEF Readied
    <3> QED
      BY <2>6, <3>1
  <2>8. IsFiniteSet(gone(i)) /\ Cardinality(gone(i)) = i
    <3> DEFINE G == gone(i - 1)
               H == gone(i)
    <3>1. IsFiniteSet(G) /\ Cardinality(G) = i - 1 /\ H = G \cup {t} /\ t \notin G
      BY <2>2, <2>7
    <3> HIDE DEF G, H
    <3>2. IsFiniteSet(H) /\ Cardinality(H) = (i - 1) + 1
      BY <3>1, FS_AddElement
    <3> QED
      BY <3>2 DEF H
  <2>9. /\ r[i].events[list] \in Seq(Users)
        /\ Len(r[i].events[list]) = Len(x.events[list]) - i
    <3>1. r[i].events[list] = Tail(r[i - 1].events[list])
      BY <2>5 DEF Woken
    <3>2. /\ Tail(r[i - 1].events[list]) \in Seq(Users)
          /\ Len(Tail(r[i - 1].events[list])) = Len(r[i - 1].events[list]) - 1
      BY <2>3, <2>4, TailSet
    <3> QED
      BY <1>2, <2>3, <3>1, <3>2
  <2>10. /\ Readied(x, r[i]) /\ SameTime(x, r[i])
         /\ \A l \in EventLists \ {list} : r[i].events[l] = x.events[l]
    <3>1. Readied(x, r[i - 1]) /\ SameTime(x, r[i - 1])
      BY <2>2
    <3>2. Readied(r[i - 1], r[i]) /\ SameTime(r[i - 1], r[i])
      BY <2>5 DEF Woken
    <3>3. \A l \in EventLists \ {list} : r[i].events[l] = x.events[l]
      BY <2>2, <2>5 DEF Woken
    <3> QED
      BY <3>1, <3>2, <3>3, ReadiedTwice, SameTimeTwice
  <2> HIDE DEF gone
  <2> QED
    BY <2>1, <2>8, <2>9, <2>10
<1>7. n \in A
  <2>1. n \in 0 .. n
    BY <1>3
  <2> HIDE DEF A
  <2> QED
    BY <1>3, <1>5, <1>6, <2>1, Along
<1>8. P(n)
  BY <1>7
<1>9. r[n].events[list] # <<>> => Cardinality(gone(n)) = c
  <2>1. ASSUME r[n].events[list] # <<>> PROVE n # Len(x.events[list])
    <3>1. r[n].events[list] \in Seq(Users) /\ Len(r[n].events[list]) # 0
      BY <1>8, <2>1
    <3> QED
      BY <1>2, <1>8, <3>1
  <2> HIDE DEF gone
  <2> QED
    BY <1>3, <1>8, <2>1
<1> QED
  BY <1>4, <1>8, <1>9 DEF c

-----------------------------------------------------------------------------
(* Priorities change.                                                      *)

\* Nothing that a wakeup or a timeout depends on changes.
Kept(x, y) == Readied(x, y) /\ SameTime(x, y) /\ y.events = x.events

LEMMA KeptNone == ASSUME NEW x, Lists(x) PROVE Kept(x, x)
BY ReadiedNone DEF Kept

LEMMA KeptOther ==
    ASSUME NEW x, Lists(x), NEW y, NEW S,
           S \subseteq {"running", "tasks", "suspended", "yield", "held", "bits",
                        "nstate", "nvalue"},
           Frame(x, y, S)
    PROVE  Kept(x, y)
<1>1. y.pendsv = x.pendsv
  BY DEF Frame, Fields
<1>2. S \subseteq {"running", "tasks", "suspended", "yield", "pendsv", "held", "bits",
                        "nstate", "nvalue"}
  OBVIOUS
<1> QED
  BY <1>1, <1>2, OtherFields DEF Kept

\* A task leaves its ready list and enters another one.
LEMMA Requeued ==
    ASSUME NEW x, Lists(x), NEW t \in Users,
           \A l \in EventLists : t \notin ToSet(x.events[l]),
           NEW u, Lists(u), Ready(u) = Ready(x) \ {t},
           Frame(x, u, {"ready", "top", "delayed", "overflow", "suspended", "termination",
                        "prio", "item", "held"})
    PROVE  Kept(x, prvAddTaskToReadyList(u, t))
<1> DEFINE y == prvAddTaskToReadyList(u, t)
<1>1. t \notin Ready(u) /\ t \in Tasks
  BY NamesAre
<1>2. Lists(y) /\ Frame(u, y, {"ready", "top"}) /\ Ready(y) = Ready(u) \cup {t}
  BY <1>1, AddReadyIs
<1> HIDE DEF y
<1>3. /\ y.cur = x.cur /\ y.locks = x.locks /\ y.pendsv = x.pendsv /\ y.events = x.events
      /\ y.tick = x.tick /\ y.overflows = x.overflows /\ y.pended = x.pended
  BY <1>2 DEF Frame, Fields
<1>4. Ready(y) = Ready(x) \cup {t}
  BY <1>2
<1>5. Apart(x) => Apart(y)
  BY <1>3, <1>4 DEF Apart
<1> QED
  BY <1>2, <1>3, <1>4, <1>5 DEF Kept, Readied, SameTime, y

LEMMA PrioritySet ==
    ASSUME NEW x, Lists(x), NEW t \in Tasks, NEW p \in Priorities
    PROVE  /\ Kept(x, SetPriority(x, t, p)) /\ Lists(SetPriority(x, t, p))
           /\ Frame(x, SetPriority(x, t, p), {"prio", "item"})
           /\ Ready(SetPriority(x, t, p)) = Ready(x)
<1> DEFINE v == IF x.bits[t] = NoBits THEN MaxPriorities - p ELSE x.item[t]
           y == [x EXCEPT !.prio[t] = p, !.item[t] = v]
<1>1. SetPriority(x, t, p) = y
  BY DEF SetPriority
<1>2. v \in 1 .. MaxPriorities
  <2>1. MaxPriorities - p \in 1 .. MaxPriorities
    BY NamesAre DEF Priorities
  <2>2. x.item[t] \in 1 .. MaxPriorities
    BY DEF Lists, Values
  <2> QED
    BY <2>1, <2>2
<1> HIDE DEF v
<1>3. /\ Frame(x, y, {"prio", "item"}) /\ y.prio = [x.prio EXCEPT ![t] = p]
      /\ y.item = [x.item EXCEPT ![t] = v]
  BY DEF Lists, IsKernel, Frame, Fields
<1> HIDE DEF y
<1>4. y.prio \in [Tasks -> Priorities] /\ y.item \in [Tasks -> 1 .. MaxPriorities]
  BY <1>2, <1>3 DEF Lists, Values
<1>5. ReadyLists(y) /\ Ready(y) = Ready(x) /\ WaitLists(y) /\ BlockedLists(y)
  BY <1>3 DEF Lists, ReadyLists, Ring0, Ready, WaitLists, BlockedLists, Frame, Fields
<1>6. /\ y.cur = x.cur /\ y.locks = x.locks /\ y.pendsv = x.pendsv /\ y.events = x.events
      /\ y.tick = x.tick /\ y.overflows = x.overflows /\ y.pended = x.pended
      /\ y.base = x.base /\ y.unblock = x.unblock /\ y.wake = x.wake
  BY <1>3 DEF Frame, Fields
<1>7. Values(y)
  BY <1>4, <1>6 DEF Lists, Values
<1>8. Lists(y)
  BY <1>3, <1>5, <1>7 DEF Lists, Frame
<1> QED
  BY <1>1, <1>3, <1>5, <1>6, <1>8 DEF Kept, Readied, SameTime, Apart

LEMMA InheritIs ==
    ASSUME NEW x, Lists(x), Apart(x), x.cur \in Tasks, NEW h \in Users \cup {NoTask}
    PROVE  Kept(x, xTaskPriorityInherit(x, h))
<1>1. CASE h = NoTask \/ x.prio[h] >= x.prio[x.cur]
  BY <1>1, KeptNone DEF xTaskPriorityInherit
<1>2. CASE ~(h = NoTask \/ x.prio[h] >= x.prio[x.cur])
  <2> DEFINE p == x.prio[h]
             w == SetPriority(x, h, x.prio[x.cur])
             u == Unready(w, h, p)
             y == prvAddTaskToReadyList(u, h)
  <2>1. xTaskPriorityInherit(x, h) = IF h \in ToSet(x.ready[p]) THEN y ELSE w
    BY <1>2 DEF xTaskPriorityInherit
  <2>2. h \in Users /\ h \in Tasks /\ x.prio[x.cur] \in Priorities /\ p \in Priorities
    BY <1>2, NamesAre DEF Lists, Values
  <2>3. /\ Kept(x, w) /\ Lists(w) /\ Frame(x, w, {"prio", "item"}) /\ Ready(w) = Ready(x)
    BY <2>2, PrioritySet
  <2> HIDE DEF w, p
  <2>4. ASSUME h \in ToSet(x.ready[p]) PROVE Kept(x, y)
    <3>1. h \in Ready(x)
      BY <2>2, <2>4 DEF Ready
    <3>2. \A l \in EventLists : h \notin ToSet(x.events[l])
      BY <3>1 DEF Apart
    <3>3. /\ Lists(u) /\ Ready(u) = Ready(w) \ {h}
          /\ Frame(w, u, {"ready", "top", "delayed", "overflow", "suspended", "termination"})
      BY <2>2, <2>3, UnreadyIs
    <3> HIDE DEF u
    <3>4. Frame(x, u, {"ready", "top", "delayed", "overflow", "suspended", "termination",
                       "prio", "item", "held"})
      BY <2>3, <3>3 DEF Frame
    <3>5. Ready(u) = Ready(x) \ {h}
      BY <2>3, <3>3
    <3> QED
      BY <2>2, <3>2, <3>3, <3>4, <3>5, Requeued
  <2> QED
    BY <2>1, <2>3, <2>4
<1> QED
  BY <1>1, <1>2

\* The holder does not wait when it gives its mutex.
LEMMA DisinheritIs ==
    ASSUME NEW x, Lists(x), NEW h \in Users \cup {NoTask},
           \A l \in EventLists : h \notin ToSet(x.events[l])
    PROVE  Kept(x, xTaskPriorityDisinherit(x, h))
<1>1. CASE h = NoTask
  BY <1>1, KeptNone DEF xTaskPriorityDisinherit
<1>2. CASE h # NoTask
  <2> DEFINE g == [x EXCEPT !.held[h] = @ - 1]
             p == x.prio[h]
             u == Unready(g, h, p)
             w == SetPriority(u, h, x.base[h])
             y == prvAddTaskToReadyList(w, h)
  <2>1. xTaskPriorityDisinherit(x, h) = IF ~LosesPriority(x, h) THEN g ELSE y
    BY <1>2 DEF xTaskPriorityDisinherit
  <2>2. h \in Users /\ h \in Tasks /\ x.base[h] \in Priorities
    BY <1>2, NamesAre DEF Lists, Values
  <2>3. Frame(x, g, {"held"})
    BY DEF Lists, IsKernel, Frame, Fields
  <2> HIDE DEF g, p
  <2>4. Kept(x, g) /\ Lists(g) /\ Ready(g) = Ready(x)
    <3>1. Kept(x, g)
      BY <2>3, KeptOther
    <3>2. Ready(g) = Ready(x)
      BY <2>3, OtherFields
    <3> QED
      BY <3>1, <3>2 DEF Kept, Readied
  <2>5. /\ Lists(u) /\ Ready(u) = Ready(g) \ {h}
        /\ Frame(g, u, {"ready", "top", "delayed", "overflow", "suspended", "termination"})
    BY <2>2, <2>4, UnreadyIs
  <2> HIDE DEF u
  <2>6. Lists(w) /\ Frame(u, w, {"prio", "item"}) /\ Ready(w) = Ready(u)
    BY <2>2, <2>5, PrioritySet
  <2> HIDE DEF w
  <2>7. Frame(x, w, {"ready", "top", "delayed", "overflow", "suspended", "termination",
                     "prio", "item", "held"})
    BY <2>3, <2>5, <2>6 DEF Frame
  <2>8. Ready(w) = Ready(x) \ {h}
    BY <2>4, <2>5, <2>6
  <2>9. Kept(x, y)
    BY <2>2, <2>6, <2>7, <2>8, Requeued
  <2> QED
    BY <2>1, <2>4, <2>9
<1> QED
  BY <1>1, <1>2

LEMMA TimeoutDisinheritIs ==
    ASSUME NEW x, Lists(x), Apart(x), NEW h \in Users \cup {NoTask},
           NEW waiting \in 0 .. MaxPriorities - 1
    PROVE  Kept(x, vTaskPriorityDisinheritAfterTimeout(x, h, waiting))
<1>1. CASE h = NoTask
  BY <1>1, KeptNone DEF vTaskPriorityDisinheritAfterTimeout
<1>2. CASE h # NoTask
  <2> DEFINE p == x.prio[h]
             use == Max({x.base[h], waiting})
             w == SetPriority(x, h, use)
             v == RemoveState(w, h)
             u == IF listEMPTY(v.ready[p]) THEN taskRESET_READY_PRIORITY(v, use) ELSE v
             y == prvAddTaskToReadyList(u, h)
  <2>1. vTaskPriorityDisinheritAfterTimeout(x, h, waiting) =
            IF p = use \/ x.held[h] # 1 THEN x
            ELSE IF h \in ToSet(x.ready[p]) THEN y ELSE w
    BY <1>2 DEF vTaskPriorityDisinheritAfterTimeout
  <2>2. h \in Users /\ h \in Tasks /\ x.base[h] \in Priorities /\ p \in Priorities
    BY <1>2, NamesAre DEF Lists, Values
  <2>3. use \in Priorities
    <3>1. x.base[h] \in Nat /\ waiting \in Nat
      BY <2>2, NamesAre DEF Priorities
    <3>2. use = IF x.base[h] >= waiting THEN x.base[h] ELSE waiting
      BY <3>1, MaxOfPair
    <3> HIDE DEF use
    <3> QED
      BY <2>2, <3>2 DEF Priorities
  <2> HIDE DEF use
  <2>4. /\ Kept(x, w) /\ Lists(w) /\ Frame(x, w, {"prio", "item"}) /\ Ready(w) = Ready(x)
    BY <2>2, <2>3, PrioritySet
  <2> HIDE DEF w, p
  <2>5. ASSUME h \in ToSet(x.ready[p]) PROVE Kept(x, y)
    <3>1. h \in Ready(x)
      BY <2>2, <2>5 DEF Ready
    <3>2. \A l \in EventLists : h \notin ToSet(x.events[l])
      BY <3>1 DEF Apart
    <3>3. /\ Lists(v) /\ Ready(v) = Ready(w) \ {h}
          /\ Frame(w, v, {"ready", "delayed", "overflow", "suspended", "termination"})
      BY <2>2, <2>4, RemoveStateIs
    <3> DEFINE z == taskRESET_READY_PRIORITY(v, use)
    <3> HIDE DEF v
    <3>4. Lists(z) /\ Frame(v, z, {"top"}) /\ Ready(z) = Ready(v)
      BY <3>3, ResetIs
    <3>5. u = z \/ u = v
      OBVIOUS
    <3> HIDE DEF u, z
    <3>6. Lists(u) /\ Ready(u) = Ready(v) /\ Frame(v, u, {"top"})
      <4>1. Frame(v, v, {"top"})
        BY <3>3 DEF Frame, Lists
      <4> QED
        BY <3>3, <3>4, <3>5, <4>1
    <3>7. Frame(x, u, {"ready", "top", "delayed", "overflow", "suspended", "termination",
                       "prio", "item", "held"})
      BY <2>4, <3>3, <3>6 DEF Frame
    <3>8. Ready(u) = Ready(x) \ {h}
      BY <2>4, <3>3, <3>6
    <3> QED
      BY <2>2, <3>2, <3>6, <3>7, <3>8, Requeued
  <2> QED
    BY <2>1, <2>4, <2>5, KeptNone
<1> QED
  BY <1>1, <1>2

\* What the first of the tasks that still wait is lent for.
LEMMA LentIs ==
    ASSUME NEW x, Lists(x), NEW q \in DOMAIN Queues
    PROVE  prvGetDisinheritPriorityAfterTimeout(x, q) \in 0 .. MaxPriorities - 1
<1>1. ReceiveList(q) \in EventLists
  BY DEF EventLists
<1>2. x.events[ReceiveList(q)] \in Seq(Users) /\ x.item \in [Tasks -> 1 .. MaxPriorities]
  BY <1>1 DEF Lists, WaitLists, Values
<1>3. CASE x.events[ReceiveList(q)] = <<>>
  BY <1>3, NamesAre DEF prvGetDisinheritPriorityAfterTimeout
<1>4. CASE x.events[ReceiveList(q)] # <<>>
  <2> DEFINE h == Head(x.events[ReceiveList(q)])
  <2>1. h \in Tasks
    BY <1>2, <1>4, NamesAre
  <2>2. x.item[h] \in 1 .. MaxPriorities
    BY <1>2, <2>1
  <2>3. prvGetDisinheritPriorityAfterTimeout(x, q) = MaxPriorities - x.item[h]
    BY <1>4 DEF prvGetDisinheritPriorityAfterTimeout
  <2> HIDE DEF h
  <2> QED
    BY <2>2, <2>3, NamesAre
<1> QED
  BY <1>3, <1>4

-----------------------------------------------------------------------------
(* The current task blocks; another one is selected.                       *)

\* The same but for a task that is not ready any more.
LEMMA DelayedIs ==
    ASSUME NEW x, Lists(x), x.cur \in Users, NEW ticks \in Nat, NEW indefinitely
    PROVE  LET y == prvAddCurrentTaskToDelayedList(x, ticks, indefinitely)
           IN /\ Lists(y) /\ Ready(y) = Ready(x) \ {x.cur} /\ y.events = x.events
              /\ y.cur = x.cur /\ y.locks = x.locks /\ y.pendsv = x.pendsv /\ SameTime(x, y)
<1> DEFINE t == x.cur
           o == Unready(x, t, x.prio[t])
           wake == (x.tick + ticks) % TickModulus
           w == [o EXCEPT !.wake[t] = wake]
           a == [o EXCEPT !.suspended = Append(@, t)]
           b == [w EXCEPT !.overflow = vListInsert(@, t, wake, w.wake)]
           u == IF wake < w.unblock THEN wake ELSE w.unblock
           c == [w EXCEPT !.delayed = vListInsert(@, t, wake, w.wake), !.unblock = u]
           y == prvAddCurrentTaskToDelayedList(x, ticks, indefinitely)
<1>1. y = a \/ y = b \/ y = c
  <2>1. y = IF ticks = MaxDelay /\ indefinitely THEN a ELSE IF wake < x.tick THEN b ELSE c
    BY DEF prvAddCurrentTaskToDelayedList
  <2> HIDE DEF y, a, b, c, wake
  <2> QED
    BY <2>1
<1>2. t \in Tasks /\ wake \in Ticks
  <2>1. x.tick \in Nat /\ TickModulus \in Nat \ {0}
    BY NamesAre DEF Lists, Values, Ticks
  <2>2. (x.tick + ticks) % TickModulus \in 0 .. TickModulus - 1
    BY <2>1
  <2> QED
    BY <2>2, NamesAre DEF Ticks, MaxDelay
<1> HIDE DEF wake, y
<1>3. /\ Lists(o) /\ Ready(o) = Ready(x) \ {t}
      /\ Frame(x, o, {"ready", "top", "delayed", "overflow", "suspended", "termination"})
  BY UnreadyIs
<1> HIDE DEF o
<1>4. /\ Frame(o, a, {"suspended"})
      /\ Frame(o, w, {"wake"}) /\ w.wake = [o.wake EXCEPT ![t] = wake]
  BY <1>3 DEF Lists, IsKernel, Frame, Fields
<1> HIDE DEF a, w
<1>5. /\ Lists(w) /\ Ready(w) = Ready(o)
  <2>1. ReadyLists(w) /\ Ready(w) = Ready(o) /\ WaitLists(w) /\ BlockedLists(w)
    <3>1. /\ w.ready = o.ready /\ w.top = o.top /\ w.events = o.events
          /\ w.delayed = o.delayed /\ w.overflow = o.overflow /\ w.pending = o.pending
          /\ w.termination = o.termination
      BY <1>4 DEF Frame, Fields
    <3> QED
      BY <1>3, <3>1 DEF Lists, ReadyLists, Ring0, Ready, WaitLists, BlockedLists
  <2>2. w.wake \in [Tasks -> Ticks]
    BY <1>2, <1>3, <1>4 DEF Lists, Values
  <2>3. Values(w)
    BY <1>3, <1>4, <2>2 DEF Lists, Values, Frame, Fields
  <2> QED
    BY <1>4, <2>1, <2>3 DEF Lists, Frame
<1>6. u \in Ticks
  BY <1>2, <1>5 DEF Lists, Values
<1> HIDE DEF u
<1>7. /\ Frame(w, b, {"overflow"}) /\ b.overflow = vListInsert(w.overflow, t, wake, w.wake)
      /\ Frame(w, c, {"delayed", "unblock"}) /\ c.unblock = u
      /\ c.delayed = vListInsert(w.delayed, t, wake, w.wake)
  BY <1>5 DEF Lists, IsKernel, Frame, Fields
<1> HIDE DEF b, c
<1>8. b.overflow \in Seq(Users) /\ c.delayed \in Seq(Users)
  <2>1. w.overflow \in Seq(Users) /\ w.delayed \in Seq(Users)
    BY <1>5 DEF Lists, BlockedLists
  <2> QED
    BY <1>7, <2>1, InsertIs
<1> DEFINE Good(z) == /\ Lists(z) /\ Ready(z) = Ready(x) \ {x.cur} /\ z.events = x.events
                      /\ z.cur = x.cur /\ z.locks = x.locks /\ z.pendsv = x.pendsv
                      /\ SameTime(x, z)
<1>9. Good(a)
  <2>1. Lists(a) /\ Ready(a) = Ready(o) /\ a.events = o.events /\ a.cur = o.cur
        /\ a.locks = o.locks /\ SameTime(o, a)
    BY <1>3, <1>4, OtherFields
  <2>2. /\ a.pendsv = x.pendsv /\ o.events = x.events /\ o.cur = x.cur /\ o.locks = x.locks
        /\ o.tick = x.tick /\ o.overflows = x.overflows /\ o.pended = x.pended
    BY <1>3, <1>4 DEF Frame, Fields
  <2> QED
    BY <1>3, <2>1, <2>2 DEF SameTime
<1>10. Good(b)
  <2>1. ReadyLists(b) /\ Ready(b) = Ready(w) /\ WaitLists(b) /\ BlockedLists(b)
    <3>1. /\ b.ready = w.ready /\ b.top = w.top /\ b.events = w.events
          /\ b.delayed = w.delayed /\ b.pending = w.pending
          /\ b.termination = w.termination
      BY <1>7 DEF Frame, Fields
    <3> QED
      BY <1>5, <1>8, <3>1 DEF Lists, ReadyLists, Ring0, Ready, WaitLists, BlockedLists
  <2>2. Values(b)
    BY <1>5, <1>7 DEF Lists, Values, Frame, Fields
  <2>3. /\ b.pendsv = x.pendsv /\ b.events = x.events /\ b.cur = x.cur /\ b.locks = x.locks
        /\ b.tick = x.tick /\ b.overflows = x.overflows /\ b.pended = x.pended
    BY <1>3, <1>4, <1>7 DEF Frame, Fields
  <2>4. Lists(b)
    BY <1>7, <2>1, <2>2 DEF Lists, Frame
  <2> QED
    BY <1>3, <1>5, <2>1, <2>3, <2>4 DEF SameTime
<1>11. Good(c)
  <2>1. ReadyLists(c) /\ Ready(c) = Ready(w) /\ WaitLists(c) /\ BlockedLists(c)
    <3>1. /\ c.ready = w.ready /\ c.top = w.top /\ c.events = w.events
          /\ c.overflow = w.overflow /\ c.pending = w.pending
          /\ c.termination = w.termination
      BY <1>7 DEF Frame, Fields
    <3> QED
      BY <1>5, <1>8, <3>1 DEF Lists, ReadyLists, Ring0, Ready, WaitLists, BlockedLists
  <2>2. Values(c)
    BY <1>5, <1>6, <1>7 DEF Lists, Values, Frame, Fields
  <2>3. /\ c.pendsv = x.pendsv /\ c.events = x.events /\ c.cur = x.cur /\ c.locks = x.locks
        /\ c.tick = x.tick /\ c.overflows = x.overflows /\ c.pended = x.pended
    BY <1>3, <1>4, <1>7 DEF Frame, Fields
  <2>4. Lists(c)
    BY <1>7, <2>1, <2>2 DEF Lists, Frame
  <2> QED
    BY <1>3, <1>5, <2>1, <2>3, <2>4 DEF SameTime
<1>12. Good(y)
  BY <1>1, <1>9, <1>10, <1>11
<1> QED
  BY <1>12 DEF y

LEMMA PlacedIs ==
    ASSUME NEW x, Lists(x), Apart(x), x.cur \in Users, x.cur \in Ready(x),
           NEW list \in EventLists, NEW ticks \in Nat
    PROVE  LET y == vTaskPlaceOnEventList(x, list, ticks)
           IN /\ Lists(y) /\ Apart(y) /\ Ready(y) = Ready(x) \ {x.cur}
              /\ y.cur = x.cur /\ y.locks = x.locks /\ y.pendsv = x.pendsv /\ SameTime(x, y)
              /\ \A l \in EventLists \ {list} : y.events[l] = x.events[l]
              /\ ToSet(y.events[list]) = ToSet(x.events[list]) \cup {x.cur}
<1> DEFINE t == x.cur
           e == vListInsert(x.events[list], t, x.item[t], x.item)
           w == [x EXCEPT !.events[list] = e]
           y == prvAddCurrentTaskToDelayedList(w, ticks, TRUE)
<1>1. vTaskPlaceOnEventList(x, list, ticks) = y
  BY DEF vTaskPlaceOnEventList
<1>2. \A l \in EventLists : t \notin ToSet(x.events[l])
  BY DEF Apart
<1>3. e \in Seq(Users) /\ ToSet(e) = ToSet(x.events[list]) \cup {t} /\ NoDup(e)
  <2>1. x.events[list] \in Seq(Users) /\ NoDup(x.events[list])
    BY DEF Lists, WaitLists
  <2> QED
    BY <1>2, <2>1, InsertIs
<1> HIDE DEF e
<1>4. /\ Frame(x, w, {"events"}) /\ w.events = [x.events EXCEPT ![list] = e]
  BY DEF Lists, IsKernel, Frame, Fields
<1> HIDE DEF w
<1>5. /\ w.events \in [EventLists -> Seq(Users)] /\ w.events[list] = e
      /\ \A l \in EventLists \ {list} : w.events[l] = x.events[l]
  BY <1>3, <1>4 DEF Lists, WaitLists
<1>6. WaitLists(w)
  <2>1. \A l \in EventLists : NoDup(w.events[l])
    BY <1>3, <1>5 DEF Lists, WaitLists
  <2>2. ASSUME NEW l \in EventLists, NEW m \in EventLists, l # m
        PROVE  ToSet(w.events[l]) \cap ToSet(w.events[m]) = {}
    <3>1. ToSet(x.events[l]) \cap ToSet(x.events[m]) = {}
      BY <2>2 DEF Lists, WaitLists
    <3>2. t \notin ToSet(x.events[l]) /\ t \notin ToSet(x.events[m])
      BY <1>2
    <3>3. CASE l = list
      BY <1>3, <1>5, <2>2, <3>1, <3>2, <3>3
    <3>4. CASE m = list
      BY <1>3, <1>5, <2>2, <3>1, <3>2, <3>4
    <3>5. CASE l # list /\ m # list
      BY <1>5, <3>1, <3>5
    <3> QED
      BY <3>3, <3>4, <3>5
  <2> QED
    BY <1>5, <2>1, <2>2 DEF WaitLists
<1>7. /\ Lists(w) /\ Ready(w) = Ready(x) /\ w.cur = x.cur /\ w.locks = x.locks
      /\ w.pendsv = x.pendsv /\ SameTime(x, w)
  <2>1. ReadyLists(w) /\ Ready(w) = Ready(x) /\ BlockedLists(w)
    BY <1>4 DEF Lists, ReadyLists, Ring0, Ready, BlockedLists, Frame, Fields
  <2>2. Values(w)
    BY <1>4 DEF Lists, Values, Frame, Fields
  <2>3. /\ w.cur = x.cur /\ w.locks = x.locks /\ w.pendsv = x.pendsv
        /\ w.tick = x.tick /\ w.overflows = x.overflows /\ w.pended = x.pended
    BY <1>4 DEF Frame, Fields
  <2> QED
    BY <1>4, <1>6, <2>1, <2>2, <2>3 DEF Lists, Frame, SameTime
<1>8. /\ Lists(y) /\ Ready(y) = Ready(w) \ {w.cur} /\ y.events = w.events
      /\ y.cur = w.cur /\ y.locks = w.locks /\ y.pendsv = w.pendsv /\ SameTime(w, y)
  BY <1>7, DelayedIs
<1> HIDE DEF y
<1>9. Apart(y)
  BY <1>3, <1>5, <1>7, <1>8 DEF Apart
<1> QED
  BY <1>1, <1>3, <1>5, <1>7, <1>8, <1>9, SameTimeTwice

\* taskSELECT_HIGHEST_PRIORITY_TASK; a list whose bit is stale gives its end.
LEMMA SwitchedIs ==
    ASSUME NEW x, Lists(x)
    PROVE  LET y == vTaskSwitchContext(x)
           IN /\ Lists(y) /\ Ready(y) = Ready(x) /\ y.events = x.events
              /\ y.locks = x.locks /\ SameTime(x, y) /\ (Apart(x) => Apart(y))
              /\ IF x.locks = 0 THEN y.cur \in Ready(y) \cup {End} ELSE y.cur = x.cur
<1>1. CASE x.locks # 0
  <2> DEFINE y == [x EXCEPT !.yield = TRUE, !.pendsv = FALSE]
  <2>1. vTaskSwitchContext(x) = y
    BY <1>1 DEF vTaskSwitchContext
  <2>2. Frame(x, y, {"yield", "pendsv"})
    BY DEF Lists, IsKernel, Frame, Fields
  <2> HIDE DEF y
  <2> QED
    BY <1>1, <2>1, <2>2, OtherFields
<1>2. CASE x.locks = 0
  <2> DEFINE p == HighestReady(x)
             s == x.ready[p]
             r == listGET_OWNER_OF_NEXT_ENTRY(s)
             y == [x EXCEPT !.yield = FALSE, !.pendsv = FALSE, !.ready[p] = r, !.cur = Last(r)]
  <2>1. vTaskSwitchContext(x) = y
    BY <1>2 DEF vTaskSwitchContext
  <2>2. p \in Priorities
    <3>1. x.top \in SUBSET Priorities /\ x.top # {}
      BY DEF Lists, ReadyLists
    <3> QED
      BY <3>1, HighestIn
  <2> HIDE DEF p
  <2>3. /\ s \in Seq(Tasks \cup {End}) /\ s # <<>> /\ NoDup(s) /\ End \in ToSet(s)
    <3>1. s \in Seq(Tasks \cup {End}) /\ NoDup(s) /\ End \in ToSet(s)
      BY <2>2 DEF Lists, ReadyLists, Ring0
    <3> QED
      BY <3>1, SetOf
  <2> HIDE DEF s
  <2>4. /\ r \in Seq(Tasks \cup {End}) /\ r # <<>> /\ NoDup(r) /\ ToSet(r) = ToSet(s)
    <3>1. /\ Turn(s) \in Seq(Tasks \cup {End}) /\ Turn(s) # <<>>
          /\ NoDup(Turn(s)) /\ ToSet(Turn(s)) = ToSet(s)
      BY <2>3, TurnSet
    <3>2. /\ Turn(Turn(s)) \in Seq(Tasks \cup {End}) /\ Turn(Turn(s)) # <<>>
          /\ NoDup(Turn(Turn(s))) /\ ToSet(Turn(Turn(s))) = ToSet(s)
      BY <3>1, TurnSet
    <3>3. r = Turn(s) \/ r = Turn(Turn(s))
      BY DEF listGET_OWNER_OF_NEXT_ENTRY
    <3> QED
      BY <3>1, <3>2, <3>3
  <2>5. Last(r) \in ToSet(s)
    <3>1. Len(r) \in 1 .. Len(r) /\ Last(r) = r[Len(r)]
      BY <2>4 DEF Last
    <3>2. Last(r) \in ToSet(r)
      BY <2>4, <3>1, SetOf
    <3> QED
      BY <2>4, <3>2
  <2> DEFINE c == Last(r)
  <2>6. c \in ToSet(s) /\ c \in Tasks \cup {End}
    BY <2>3, <2>5, SetOf
  <2> HIDE DEF r, c
  <2>7. y = [x EXCEPT !.yield = FALSE, !.pendsv = FALSE, !.ready[p] = r, !.cur = c]
    BY DEF c
  <2> HIDE DEF y
  <2>8. /\ Frame(x, y, {"yield", "pendsv", "ready", "cur"}) /\ y.cur = c
        /\ y.ready = [x.ready EXCEPT ![p] = r]
    BY <2>7 DEF Lists, IsKernel, Frame, Fields
  <2>9. /\ y.ready \in [Priorities -> Seq(Tasks \cup {End})]
        /\ \A m \in Priorities : NoDup(y.ready[m]) /\ ToSet(y.ready[m]) = ToSet(x.ready[m])
    <3>1. /\ x.ready \in [Priorities -> Seq(Tasks \cup {End})]
          /\ \A m \in Priorities : NoDup(x.ready[m])
      BY DEF Lists, ReadyLists, Ring0
    <3>2. x.ready[p] = s
      BY DEF s
    <3> QED
      BY <2>2, <2>4, <2>8, <3>1, <3>2
  <2>10. Ready(y) = Ready(x)
    BY <2>9 DEF Ready
  <2>11. ReadyLists(y)
    <3>1. y.top = x.top /\ 0 \in Priorities
      BY <2>8, NamesAre DEF Frame, Fields
    <3> QED
      BY <2>9, <3>1 DEF Lists, ReadyLists, Ring0
  <2>12. BlockedLists(y) /\ WaitLists(y) /\ Values(y)
    BY <2>6, <2>8 DEF Lists, BlockedLists, WaitLists, Values, Frame, Fields
  <2>13. /\ y.events = x.events /\ y.locks = x.locks
         /\ y.tick = x.tick /\ y.overflows = x.overflows /\ y.pended = x.pended
    BY <2>8 DEF Frame, Fields
  <2>14. y.cur \in Ready(y) \cup {End}
    <3>1. x.ready[p] = s
      BY DEF s
    <3> QED
      BY <2>2, <2>6, <2>8, <2>10, <3>1 DEF Ready
  <2>15. Lists(y)
    BY <2>8, <2>11, <2>12 DEF Lists, Frame
  <2>16. Apart(x) => Apart(y)
    BY <2>10, <2>13 DEF Apart
  <2> QED
    BY <1>2, <2>1, <2>10, <2>13, <2>14, <2>15, <2>16 DEF SameTime
<1> QED
  BY <1>1, <1>2

-----------------------------------------------------------------------------
(* The invariant of the blocking calls.                                    *)

\* Where a task is between vTaskSuspendAll and xTaskResumeAll, and where it may
\* not be ready any more.
Closing == {"unlockTx", "unlockRx", "resume"}
Locked(o) == o.pc \in {"lock", "test", "place"} \cup Closing
OffList(o) == o.pc \in Closing /\ o.next \in {"blocked", "delayed"}
IdleLocked == idle \in {"expect", "sleep", "wake"}

\* The scheduler is suspended at most once, and then by the current task.
Core ==
    /\ Lists(k) /\ Apart(k)
    /\ k.locks \in {0, 1}
    /\ k.locks = 0 => k.pended = 0 /\ (~k.pendsv => k.cur \in Ready(k) \cup {End})
    /\ k.locks = 1 <=> IdleLocked \/ \E t \in Users : Locked(op[t])
    /\ IdleLocked => k.cur = Idle
    /\ idle = "sleep" => expect \in Nat \ {0} /\ k.tick + expect <= MaxDelay

\* A call that blocks is in the list of its queue until it is woken, and on its
\* way to another try as soon as it is not.  The holder of a mutex need not wait
\* to give it.
InCallOf(o) == o.pc # "out" /\ o.call \in QueueCall
OnList(o) == IF Sends(o.call) THEN SendList(o.call.q) ELSE ReceiveList(o.call.q)
OnWay(o) == o.pc = "try" \/ (o.pc \in Closing /\ o.next = "blocked")
Placed(t, o, x) ==
    /\ o.next \in {"retry", "blocked", "delayed", "expired"}
    /\ Locked(o) => x.cur = t
    /\ Locked(o) /\ ~OffList(o) => t \in Ready(x)
    /\ \A l \in EventLists : t \in ToSet(x.events[l]) => OnWay(o) /\ OnList(o) = l
    /\ InCallOf(o) /\ Sends(o.call) => ~IsMutex(o.call.q)

\* The counts of a queue.  A mutex that is held is not there.
Counted(q, c) ==
    /\ c.n \in 0 .. Size(q)
    /\ c.tx \in Nat \cup {Unlocked} /\ c.rx \in Nat \cup {Unlocked}
    /\ c.holder \in Users \cup {NoTask}
    /\ c.holder # NoTask => IsMutex(q) /\ c.n = 0

\* What is there, or free, and not counted in the lock of the queue.
Items(c) == c.n - Max({c.tx, 0})
Spaces(q, c) == Size(q) - c.n - Max({c.rx, 0})

\* Tasks wait only if a task is on its way to each of these.
Bound(ops, x, l) == {t \in Users : OnWay(ops[t]) /\ OnList(ops[t]) = l} \ ToSet(x.events[l])
Awake(ops, x, q, c) ==
    /\ x.events[ReceiveList(q)] # <<>> => Items(c) <= Cardinality(Bound(ops, x, ReceiveList(q)))
    /\ x.events[SendList(q)] # <<>> => Spaces(q, c) <= Cardinality(Bound(ops, x, SendList(q)))

\* A task that tested the locked queue still finds it empty, or full, but for what
\* the lock counts.
Tested(o, c) ==
    o.pc \in {"test", "place"} =>
        /\ c.tx \in Nat /\ c.rx \in Nat
        /\ o.pc = "place" => IF Sends(o.call) THEN Spaces(o.call.q, c) <= 0 ELSE Items(c) <= 0

\* The ticks that are left, counted from the entry on, are no fewer than those
\* that were given, counted from the start of the call.
Deadline(o) == o.since + o.call.wait
Entered(o) == o.entry[1] * TickModulus + o.entry[2]
Expired(o) == o.pc \in {"recheck", "disinherit"} \/ o.next = "expired" \/ o.ticks = 0
InTime(o, x) ==
    InCallOf(o) =>
        /\ o.since \in Nat /\ o.ticks \in Ticks /\ o.ticks <= o.call.wait
        /\ o.entry \in Nat \X Ticks
        /\ o.since <= Now(x) /\ Entered(o) <= Count(x)
        /\ Expired(o) => Deadline(o) <= Now(x) /\ o.call.wait # MaxDelay
        /\ o.ticks > 0 => Deadline(o) <= Entered(o) + o.ticks
        /\ o.call.wait = MaxDelay => o.ticks = MaxDelay

Waiting ==
    /\ Core
    /\ \A t \in Users : Placed(t, op[t], k) /\ Tested(op[t], queue[op[t].call.q])
                        /\ InTime(op[t], k)
    /\ \A q \in DOMAIN Queues : Counted(q, queue[q]) /\ Awake(op, k, q, queue[q])

-----------------------------------------------------------------------------
(* The kernel when the scheduler starts.                                   *)

\* The kernel while main() creates the tasks.
Fresh(x) ==
    /\ IsKernel(x) /\ Ring0(x) /\ x.top \in SUBSET Priorities
    /\ x.delayed = <<>> /\ x.overflow = <<>> /\ x.pending = <<>> /\ x.termination = <<>>
    /\ x.running = FALSE /\ x.pendsv = FALSE /\ x.locks = 0 /\ x.pended = 0
    /\ x.overflows = 0 /\ x.tick = 0
    /\ x.wake \in [Tasks -> Ticks]
    /\ x.prio \in [Tasks -> Priorities] /\ x.base \in [Tasks -> Priorities]
    /\ x.item \in [Tasks -> 0 .. MaxPriorities]
    /\ \A t \in Ready(x) : x.item[t] \in 1 .. MaxPriorities
    /\ x.cur = NoTask \/ x.cur \in Ready(x)

LEMMA NothingMade == Fresh(prvInitialiseTaskLists) /\ Ready(prvInitialiseTaskLists) = {}
<1> DEFINE x == prvInitialiseTaskLists
           one == <<End>>
           ready == [p \in Priorities |-> one]
           zeros == [t \in Tasks |-> 0]
           bits == [t \in Tasks |-> NoBits]
           none == [t \in Tasks |-> "none"]
<1>1. x = [cur |-> NoTask, running |-> FALSE, tasks |-> 0, ready |-> ready, top |-> {},
           delayed |-> <<>>, overflow |-> <<>>, suspended |-> <<>>,
           termination |-> <<>>, pending |-> <<>>, events |-> <<>>,
           tick |-> 0, overflows |-> 0, unblock |-> 0, locks |-> 0, pended |-> 0,
           yield |-> FALSE, pendsv |-> FALSE, wake |-> zeros, prio |-> zeros,
           base |-> zeros, held |-> zeros, item |-> zeros, bits |-> bits,
           nstate |-> none, nvalue |-> zeros]
  BY DEF prvInitialiseTaskLists
<1>2. /\ ready \in [Priorities -> Seq(Tasks \cup {End})]
      /\ \A p \in Priorities : ready[p] = one
  <2>1. one \in Seq(Tasks \cup {End})
    OBVIOUS
  <2> QED
    BY <2>1
<1>3. one \in Seq({End}) /\ NoDup(one) /\ ToSet(one) = {End}
  <2>1. one \in Seq({End}) /\ Len(one) = 1 /\ one[1] = End
    OBVIOUS
  <2> HIDE DEF one
  <2>2. ToSet(one) = {one[i] : i \in 1 .. Len(one)}
    BY <2>1, SetOf
  <2>3. NoDup(one)
    BY <2>1 DEF NoDup
  <2> QED
    BY <2>1, <2>2, <2>3
<1>4. zeros \in [Tasks -> Ticks] /\ zeros \in [Tasks -> Priorities]
      /\ zeros \in [Tasks -> 0 .. MaxPriorities]
  <2>1. 0 \in Ticks /\ 0 \in Priorities /\ 0 \in 0 .. MaxPriorities
    BY NamesAre
  <2> QED
    BY <2>1
<1> HIDE DEF x, one, ready, zeros, bits, none
<1>5. IsKernel(x)
  BY <1>1 DEF IsKernel, Fields
<1>6. Ready(x) = {}
  <2>1. End \notin Tasks
    BY NamesAre
  <2> QED
    BY <1>1, <1>2, <1>3, <2>1 DEF Ready
<1>7. Ring0(x)
  BY <1>1, <1>2, <1>3 DEF Ring0
<1> QED
  BY <1>1, <1>4, <1>5, <1>6, <1>7 DEF Fresh, x

\* A task is created, and is ready.
LEMMA OneMade ==
    ASSUME NEW x, Fresh(x), NEW t \in Tasks, t \notin Ready(x), NEW p \in Priorities
    PROVE  LET y == xTaskCreate(x, t, p)
           IN /\ Fresh(y) /\ Ready(y) = Ready(x) \cup {t} /\ y.cur \in Ready(y)
              /\ t \in ToSet(y.ready[p]) /\ p \in y.top
<1> DEFINE new == prvInitialiseNewTask(x, t, p)
           counted == [new EXCEPT !.tasks = @ + 1]
           added == prvAddTaskToReadyList(counted, t)
           y == xTaskCreate(x, t, p)
<1>1. p < MaxPriorities /\ p \in Nat /\ MaxPriorities \in Nat
  BY NamesAre DEF Priorities
<1>2. /\ Frame(x, new, {"prio", "base", "held", "item", "bits", "nvalue", "nstate"})
      /\ new.prio = [x.prio EXCEPT ![t] = p] /\ new.base = [x.base EXCEPT ![t] = p]
      /\ new.item = [x.item EXCEPT ![t] = MaxPriorities - p]
  BY <1>1 DEF prvInitialiseNewTask, Fresh, IsKernel, Frame, Fields
<1> HIDE DEF new
<1>3. /\ Frame(new, counted, {"tasks"})
  BY <1>2 DEF IsKernel, Frame, Fields
<1> HIDE DEF counted
<1>4. /\ counted.prio = new.prio /\ counted.base = new.base /\ counted.item = new.item
      /\ counted.ready = x.ready /\ counted.top = x.top /\ counted.cur = x.cur
      /\ counted.running = FALSE
  BY <1>2, <1>3 DEF Frame, Fields, Fresh
<1>5. counted.prio[t] = p
  BY <1>2, <1>4 DEF Fresh
<1>6. /\ Frame(counted, added, {"ready", "top"}) /\ added.top = x.top \cup {p}
      /\ added.ready = [x.ready EXCEPT ![p] = vListInsertEnd(x.ready[p], t)]
  BY <1>3, <1>4, <1>5 DEF prvAddTaskToReadyList, IsKernel, Frame, Fields
<1> HIDE DEF added
<1>7. y = IF \/ counted.cur = NoTask
             \/ ~counted.running /\ counted.prio[counted.cur] <= counted.prio[t]
          THEN [added EXCEPT !.cur = t] ELSE added
  <2>1. new.cur = counted.cur /\ new.running = counted.running /\ new.prio = counted.prio
    BY <1>3 DEF Frame, Fields
  <2> DEFINE first == new.cur = NoTask
             takes == first \/ (~new.running /\ new.prio[new.cur] <= new.prio[t])
             higher == new.running /\ new.prio[new.cur] < new.prio[t]
             current == [added EXCEPT !.cur = t]
  <2>2. y = IF takes THEN current ELSE YieldIf(higher, added)
    <3>1. y = prvAddNewTaskToReadyList(new, t)
      BY DEF xTaskCreate, new
    <3>2. prvAddNewTaskToReadyList(new, t) =
            IF takes THEN current ELSE YieldIf(higher, added)
      BY DEF prvAddNewTaskToReadyList, counted, added
    <3> HIDE DEF y, takes, current, higher
    <3> QED
      BY <3>1, <3>2
  <2>3. ~higher
    BY <1>4, <2>1
  <2>4. takes <=> \/ counted.cur = NoTask
                  \/ ~counted.running /\ counted.prio[counted.cur] <= counted.prio[t]
    BY <2>1
  <2> HIDE DEF y, takes, higher
  <2> QED
    BY <2>2, <2>3, <2>4 DEF YieldIf
<1> HIDE DEF y
<1>8. Frame(added, y, {"cur"}) /\ (y.cur = t \/ (y.cur = x.cur /\ x.cur # NoTask))
  <2>1. added.cur = counted.cur /\ IsKernel(added)
    BY <1>6 DEF Frame, Fields
  <2> QED
    BY <1>4, <1>7, <2>1 DEF IsKernel, Frame, Fields
<1>9. /\ y.ready = added.ready /\ y.top = added.top /\ y.prio = new.prio
      /\ y.base = new.base /\ y.item = new.item
      /\ \A f \in Fields \ {"prio", "base", "held", "item", "bits", "nvalue", "nstate",
                            "tasks", "ready", "top", "cur"} : y[f] = x[f]
  BY <1>2, <1>3, <1>6, <1>8 DEF Frame, Fields
<1>10. /\ x.ready \in [Priorities -> Seq(Tasks \cup {End})]
       /\ \A r \in Priorities : NoDup(x.ready[r]) /\ End \in ToSet(x.ready[r])
  BY DEF Fresh, Ring0
<1>11. /\ x.ready[p] \in Seq(Tasks \cup {End}) /\ x.ready[p] # <<>> /\ NoDup(x.ready[p])
       /\ t \notin ToSet(x.ready[p])
  <2>1. x.ready[p] \in Seq(Tasks \cup {End}) /\ NoDup(x.ready[p]) /\ End \in ToSet(x.ready[p])
    BY <1>10
  <2>2. t \notin ToSet(x.ready[p])
    BY DEF Ready
  <2> QED
    BY <2>1, <2>2, SetOf
<1>12. /\ vListInsertEnd(x.ready[p], t) \in Seq(Tasks \cup {End})
       /\ ToSet(vListInsertEnd(x.ready[p], t)) = ToSet(x.ready[p]) \cup {t}
       /\ NoDup(vListInsertEnd(x.ready[p], t))
  <2>1. t \in Tasks \cup {End}
    OBVIOUS
  <2> QED
    BY <1>11, <2>1, InsertEndIs
<1>13. ASSUME NEW r \in Priorities
       PROVE  /\ y.ready[r] \in Seq(Tasks \cup {End}) /\ NoDup(y.ready[r])
              /\ ToSet(y.ready[r]) = IF r = p THEN ToSet(x.ready[r]) \cup {t}
                                     ELSE ToSet(x.ready[r])
  <2>1. CASE r = p
    BY <1>6, <1>9, <1>10, <1>12, <2>1
  <2>2. CASE r # p
    BY <1>6, <1>9, <1>10, <2>2
  <2> QED
    BY <2>1, <2>2
<1>14. y.ready \in [Priorities -> Seq(Tasks \cup {End})]
  BY <1>6, <1>9, <1>10, <1>12
<1>15. Ring0(y)
  BY <1>10, <1>13, <1>14 DEF Ring0
<1>16. Ready(y) = Ready(x) \cup {t}
  BY <1>13 DEF Ready
<1>17. /\ y.prio \in [Tasks -> Priorities] /\ y.base \in [Tasks -> Priorities]
       /\ y.item \in [Tasks -> 0 .. MaxPriorities]
       /\ \A u \in Ready(y) : y.item[u] \in 1 .. MaxPriorities
  <2>1. MaxPriorities - p \in 1 .. MaxPriorities /\ MaxPriorities - p \in 0 .. MaxPriorities
    BY <1>1, NamesAre DEF Priorities
  <2> DEFINE i == MaxPriorities - p
  <2>2. y.item = [x.item EXCEPT ![t] = i]
    BY <1>2, <1>9
  <2> HIDE DEF i
  <2>3. i \in 1 .. MaxPriorities /\ i \in 0 .. MaxPriorities
    BY <2>1 DEF i
  <2>4. \A u \in Ready(y) : u \in Tasks
    BY DEF Ready
  <2>5. x.item \in [Tasks -> 0 .. MaxPriorities] /\ \A u \in Ready(x) : x.item[u] \in 1 .. MaxPriorities
    BY DEF Fresh
  <2>6. y.item \in [Tasks -> 0 .. MaxPriorities]
        /\ \A u \in Ready(y) : y.item[u] \in 1 .. MaxPriorities
    BY <1>16, <2>2, <2>3, <2>4, <2>5
  <2>7. y.prio \in [Tasks -> Priorities] /\ y.base \in [Tasks -> Priorities]
    BY <1>2, <1>9 DEF Fresh
  <2> QED
    BY <2>6, <2>7
<1>18. y.top \in SUBSET Priorities /\ p \in y.top /\ y.cur \in Ready(y)
  BY <1>6, <1>8, <1>9, <1>16 DEF Fresh
<1>19. /\ y.delayed = <<>> /\ y.overflow = <<>> /\ y.pending = <<>> /\ y.termination = <<>>
       /\ y.running = FALSE /\ y.pendsv = FALSE /\ y.locks = 0 /\ y.pended = 0
       /\ y.overflows = 0 /\ y.tick = 0 /\ y.wake \in [Tasks -> Ticks]
  BY <1>9 DEF Fresh, Fields
<1>20. IsKernel(y)
  BY <1>8 DEF Frame
<1> QED
  BY <1>13, <1>15, <1>16, <1>17, <1>18, <1>19, <1>20 DEF Fresh, y

\* The order in which main() creates its tasks has each of them once.
LEMMA OrderIs ==
    /\ SetToSeq(Users) \in Seq(Users) /\ Users \subseteq ToSet(SetToSeq(Users))
    /\ \A i, j \in 1 .. Len(SetToSeq(Users)) :
            SetToSeq(Users)[i] = SetToSeq(Users)[j] => i = j
<1> DEFINE n == Cardinality(Users)
           s == SetToSeq(Users)
<1>1. n \in Nat /\ ExistsBijection(1 .. n, Users)
  BY NamesAre, FS_CardinalityType
<1>2. \E f \in [1 .. n -> Users] : IsInjective(f)
  BY <1>1 DEF ExistsBijection, Bijection, Injection, IsInjective
<1>3. s \in [1 .. n -> Users] /\ IsInjective(s)
  BY <1>2 DEF SetToSeq
<1> HIDE DEF n, s
<1>4. s \in Seq(Users) /\ DOMAIN s = 1 .. n /\ Len(s) = n
  BY <1>1, <1>3, FunctionIsSeq
<1>5. \A t \in Users : \E i \in 1 .. n : s[i] = t
  <2>1. Cardinality(1 .. n) = n /\ IsFiniteSet(1 .. n)
    BY <1>1, FS_Interval
  <2>2. s \in Injection(1 .. n, Users)
    BY <1>3 DEF Injection, IsInjective
  <2>3. s \in Surjection(1 .. n, Users)
    BY <2>1, <2>2, NamesAre, FS_Injection DEF n
  <2> QED
    BY <2>3 DEF Surjection
<1> QED
  BY <1>3, <1>4, <1>5, SetOf DEF IsInjective, s

LEMMA AllMade == Fresh(Made(SetToSeq(Users))) /\ Ready(Made(SetToSeq(Users))) = ToSet(SetToSeq(Users))
<1> DEFINE s == SetToSeq(Users)
           n == Len(s)
           b == prvInitialiseTaskLists
<1>1. s \in Seq(Users) /\ n \in Nat /\ (\A i, j \in 1 .. n : s[i] = s[j] => i = j)
  BY OrderIs
<1> HIDE DEF s, b
<1>2. PICK r : Rounds("create", "none", b, s, n, r) /\ r[n] = Made(s)
  BY <1>1, CreateLoop DEF b
<1> HIDE DEF n
<1> DEFINE first(i) == {s[j] : j \in 1 .. i}
           A == {i \in 0 .. n : Fresh(r[i]) /\ Ready(r[i]) = first(i)}
<1>3. 0 \in A
  <2>1. 0 \in 0 .. n /\ r[0] = b /\ first(0) = {}
    BY <1>1, <1>2 DEF Rounds
  <2> QED
    BY <2>1, NothingMade DEF b
<1>4. ASSUME NEW i \in 1 .. n, i - 1 \in A PROVE i \in A
  <2>1. r[i] = xTaskCreate(r[i - 1], s[i], Priority[s[i]]) /\ i \in 0 .. n
    BY <1>1, <1>2 DEF Rounds, Body
  <2>2. Fresh(r[i - 1]) /\ Ready(r[i - 1]) = first(i - 1)
    BY <1>4
  <2>3. s[i] \in Users /\ s[i] \in Tasks
    BY <1>1, NamesAre DEF n
  <2>4. Priority[s[i]] \in Priorities
    BY <2>3, CpuAssumption
  <2>5. s[i] \notin first(i - 1)
    BY <1>1
  <2>6. first(i) = first(i - 1) \cup {s[i]}
    BY <1>1
  <2> HIDE DEF first
  <2>7. Fresh(r[i]) /\ Ready(r[i]) = first(i)
    BY <2>1, <2>2, <2>3, <2>4, <2>5, <2>6, OneMade
  <2> QED
    BY <2>1, <2>7
<1>5. n \in A
  <2>1. n \in 0 .. n
    BY <1>1
  <2> HIDE DEF A
  <2> QED
    BY <1>1, <1>3, <1>4, <2>1, Along
<1>6. first(n) = ToSet(s)
  BY <1>1, SetOf DEF n
<1> QED
  BY <1>2, <1>5, <1>6 DEF s

\* The scheduler starts with every task ready and none waiting.
LEMMA StartIs ==
    LET x == Created(SetToSeq(Users), EventLists)
    IN /\ Lists(x) /\ Apart(x) /\ x.cur \in Ready(x) /\ x.locks = 0 /\ x.pended = 0
       /\ x.pendsv = FALSE /\ \A l \in EventLists : x.events[l] = <<>>
<1> DEFINE made == Made(SetToSeq(Users))
           z == xTaskCreate(made, Idle, 0)
           started == vTaskStartScheduler(made)
           none == [l \in EventLists |-> <<>>]
           x == Created(SetToSeq(Users), EventLists)
<1>1. Fresh(made) /\ Ready(made) = ToSet(SetToSeq(Users))
  BY AllMade
<1>2. ToSet(SetToSeq(Users)) \subseteq Users
  BY OrderIs, SetOf
<1> HIDE DEF made
<1>3. /\ Fresh(z) /\ Ready(z) = Ready(made) \cup {Idle} /\ z.cur \in Ready(z)
      /\ Idle \in ToSet(z.ready[0]) /\ 0 \in z.top
  <2>1. Idle \in Tasks /\ Idle \notin Ready(made) /\ 0 \in Priorities
    BY <1>1, <1>2, NamesAre
  <2> QED
    BY <1>1, <2>1, OneMade
<1> HIDE DEF z
<1>4. Frame(z, started, {"unblock", "running", "tick"})
      /\ started.unblock = Never /\ started.tick = 0
  <2>1. started = [z EXCEPT !.unblock = Never, !.running = TRUE, !.tick = 0]
    BY DEF vTaskStartScheduler, z
  <2> QED
    BY <1>3, <2>1 DEF Fresh, IsKernel, Frame, Fields
<1> HIDE DEF started
<1>5. Frame(started, x, {"events"}) /\ x.events = none
  <2>1. x = [started EXCEPT !.events = none]
    BY CreatedIs DEF started, made
  <2> QED
    BY <1>4, <2>1 DEF IsKernel, Frame, Fields
<1> HIDE DEF x
<1>6. /\ x.unblock = Never /\ x.tick = 0
      /\ \A f \in Fields \ {"unblock", "running", "tick", "events"} : x[f] = z[f]
  BY <1>4, <1>5 DEF Frame, Fields
<1>7. /\ x.ready = z.ready /\ x.top = z.top /\ x.cur = z.cur
      /\ x.delayed = <<>> /\ x.overflow = <<>> /\ x.pending = <<>> /\ x.termination = <<>>
      /\ x.pendsv = FALSE /\ x.locks = 0 /\ x.pended = 0 /\ x.overflows = 0
      /\ x.wake = z.wake /\ x.prio = z.prio /\ x.base = z.base /\ x.item = z.item
  BY <1>3, <1>6 DEF Fresh, Fields
<1>8. Ready(x) = Ready(z) /\ x.cur \in Ready(x) /\ Ready(x) \subseteq Tasks
  BY <1>3, <1>7 DEF Ready
<1>9. \A l \in EventLists : x.events[l] = <<>> /\ ToSet(x.events[l]) = {} /\ NoDup(x.events[l])
  <2>1. ToSet(<<>>) = {} /\ NoDup(<<>>)
    <3> DEFINE s == <<>>
    <3>1. s \in Seq(Tasks) /\ s = <<>> /\ Len(s) = 0
      OBVIOUS
    <3> HIDE DEF s
    <3>2. ToSet(s) = {}
      BY <3>1, SetOf
    <3>3. NoDup(s)
      BY <3>1 DEF NoDup
    <3> QED
      BY <3>2, <3>3 DEF s
  <2>2. \A l \in EventLists : none[l] = <<>>
    OBVIOUS
  <2> QED
    BY <1>5, <2>1, <2>2
<1>10. WaitLists(x)
  <2>1. none \in [EventLists -> Seq(Users)]
    OBVIOUS
  <2> QED
    BY <1>5, <1>9, <2>1 DEF WaitLists
<1>11. ReadyLists(x)
  BY <1>3, <1>7 DEF Fresh, Ring0, ReadyLists
<1>12. BlockedLists(x)
  BY <1>7 DEF BlockedLists
<1>13. Values(x)
  <2>1. x.item \in [Tasks -> 1 .. MaxPriorities]
    <3>1. Tasks \subseteq Ready(x)
      <4>1. Users \subseteq ToSet(SetToSeq(Users))
        BY OrderIs
      <4> QED
        BY <1>1, <1>3, <1>8, <4>1 DEF Users
    <3>2. x.item \in [Tasks -> 0 .. MaxPriorities] /\ \A t \in Ready(z) : x.item[t] \in 1 .. MaxPriorities
      BY <1>3, <1>7 DEF Fresh
    <3> QED
      BY <1>8, <3>1, <3>2
  <2>2. x.cur \in Tasks \cup {End} /\ Never \in Ticks /\ 0 \in Ticks /\ 0 \in Nat
    BY <1>8, NamesAre
  <2>3. x.prio \in [Tasks -> Priorities] /\ x.base \in [Tasks -> Priorities]
        /\ x.wake \in [Tasks -> Ticks]
    BY <1>3, <1>7 DEF Fresh
  <2> QED
    BY <1>6, <1>7, <2>1, <2>2, <2>3 DEF Values
<1>14. IsKernel(x)
  BY <1>5 DEF Frame
<1>15. Apart(x)
  BY <1>9 DEF Apart
<1> QED
  BY <1>7, <1>8, <1>9, <1>10, <1>11, <1>12, <1>13, <1>14, <1>15 DEF Lists, x

-----------------------------------------------------------------------------
(* What a step leaves of the invariant.                                    *)

LEMMA CallWaits ==
    ASSUME NEW call \in QueueCall
    PROVE  /\ call.wait \in Ticks /\ call.wait \in Nat /\ call.fn \in QueueCalls
           /\ call.q \in DOMAIN Queues
           /\ IsMutex(call.q) => Gives(call) \/ Takes(call)
           /\ SendList(call.q) \in EventLists /\ ReceiveList(call.q) \in EventLists
<1>1. PICK s \in Scenarios, u \in Callers : call \in s[u] /\ call.fn \in QueueCalls
  BY DEF QueueCall
<1>2. /\ call.wait \in 0 .. MaxDelay /\ call.q \in DOMAIN Queues
      /\ IsMutex(call.q) => Gives(call) \/ Takes(call)
  BY <1>1, ScenariosAssumption DEF Callers
<1>3. MaxDelay \in Nat
  BY NamesAre DEF MaxDelay
<1> QED
  BY <1>1, <1>2, <1>3 DEF Ticks, EventLists

\* The lists of the queues are different lists.
LEMMA ListsDiffer ==
    \A q, r \in DOMAIN Queues :
        /\ SendList(q) # ReceiveList(r)
        /\ q # r => SendList(q) # SendList(r) /\ ReceiveList(q) # ReceiveList(r)
        /\ SendList(q) \in EventLists /\ ReceiveList(q) \in EventLists
BY DEF SendList, ReceiveList, EventLists

LEMMA InTimeLater ==
    ASSUME NEW o, NEW x, NEW y, InTime(o, x), Lists(x), Lists(y),
           Now(x) <= Now(y), Count(x) <= Count(y)
    PROVE  InTime(o, y)
<1> SUFFICES ASSUME InCallOf(o) PROVE InTime(o, y)
  BY DEF InTime
<1>1. /\ o.since \in Nat /\ o.ticks \in Ticks /\ o.ticks <= o.call.wait
      /\ o.entry \in Nat \X Ticks
      /\ o.since <= Now(x) /\ Entered(o) <= Count(x)
      /\ Expired(o) => Deadline(o) <= Now(x) /\ o.call.wait # MaxDelay
      /\ o.ticks > 0 => Deadline(o) <= Entered(o) + o.ticks
      /\ o.call.wait = MaxDelay => o.ticks = MaxDelay
  BY DEF InTime
<1>2. Now(x) \in Nat /\ Now(y) \in Nat /\ Count(x) \in Nat /\ Count(y) \in Nat
  BY CountNow
<1>3. o.call.wait \in Nat
  BY CallWaits DEF InCallOf
<1>4. Deadline(o) \in Nat
  BY <1>1, <1>3 DEF Deadline
<1>5. Entered(o) \in Nat
  <2>1. o.entry[1] \in Nat /\ o.entry[2] \in Ticks
    BY <1>1
  <2>2. TickModulus \in Nat /\ o.entry[2] \in Nat
    BY <2>1, NamesAre DEF Ticks
  <2> DEFINE a == o.entry[1]
  <2> HIDE DEF a
  <2>3. a * TickModulus \in Nat
    BY <2>1, <2>2 DEF a
  <2> QED
    BY <2>2, <2>3 DEF Entered, a
<1>6. o.since <= Now(y)
  BY <1>1, <1>2
<1>7. Entered(o) <= Count(y)
  BY <1>1, <1>2, <1>5
<1>8. Expired(o) => Deadline(o) <= Now(y) /\ o.call.wait # MaxDelay
  BY <1>1, <1>2, <1>4
<1> QED
  BY <1>1, <1>6, <1>7, <1>8 DEF InTime

\* What a task that executes can rely on.
LEMMA RunsIs ==
    ASSUME Waiting, NEW t \in Users, Runs(t)
    PROVE  /\ k.cur = t /\ Lists(k) /\ Apart(k) /\ ~IdleLocked
           /\ \A u \in Users \ {t} : ~Locked(op[u])
           /\ k.locks = IF Locked(op[t]) THEN 1 ELSE 0
           /\ ~Locked(op[t]) => t \in Ready(k) /\ k.pended = 0
           /\ t \in Ready(k) => \A l \in EventLists : t \notin ToSet(k.events[l])
<1>1. k.cur = t /\ ~k.pendsv
  BY DEF Runs
<1>2. t # Idle /\ t # End
  BY NamesAre
<1>3. Core /\ \A u \in Users : Placed(u, op[u], k)
  BY DEF Waiting
<1>4. ~IdleLocked
  BY <1>1, <1>2, <1>3 DEF Core
<1>5. \A u \in Users \ {t} : ~Locked(op[u])
  BY <1>1, <1>3 DEF Placed
<1>6. k.locks = IF Locked(op[t]) THEN 1 ELSE 0
  BY <1>3, <1>4, <1>5 DEF Core
<1>7. ~Locked(op[t]) => t \in Ready(k) /\ k.pended = 0
  BY <1>1, <1>2, <1>3, <1>6 DEF Core
<1>8. t \in Ready(k) => \A l \in EventLists : t \notin ToSet(k.events[l])
  BY <1>3 DEF Core, Apart
<1> QED
  BY <1>1, <1>3, <1>4, <1>5, <1>6, <1>7, <1>8 DEF Core

\* A task makes a step: what is left to show is about this task.
LEMMA TaskKept ==
    ASSUME Calling, Waiting, NEW t \in Users, Runs(t), NEW o, op' = [op EXCEPT ![t] = o],
           UNCHANGED <<idle, expect>>,
           Lists(k'), Apart(k'),
           IF Locked(o) THEN k'.locks = 1 /\ k'.cur = t
           ELSE k'.locks = 0 /\ k'.pended = 0 /\ (k'.pendsv \/ k'.cur \in Ready(k')),
           Placed(t, o, k'), InTime(o, k'), Tested(o, queue'[o.call.q]),
           \A l \in EventLists : ToSet(k'.events[l]) \subseteq ToSet(k.events[l]) \cup {t},
           Now(k) <= Now(k'), Count(k) <= Count(k')
    PROVE  /\ Core'
           /\ \A u \in Users : /\ Placed(u, op'[u], k') /\ InTime(op'[u], k')
                               /\ Tested(op'[u], queue'[op'[u].call.q])
<1>1. \A u \in Users : op'[u] = IF u = t THEN o ELSE op[u]
  BY DEF Calling
<1>2. /\ Lists(k) /\ ~IdleLocked /\ \A u \in Users \ {t} : ~Locked(op[u])
  BY RunsIs
<1>3. ~IdleLocked' /\ idle # "sleep"
  BY <1>2 DEF IdleLocked
<1>4. Core'
  <2>1. (\E u \in Users : Locked(op'[u])) <=> Locked(o)
    BY <1>1, <1>2
  <2>2. k'.locks \in {0, 1}
    OBVIOUS
  <2>3. k'.locks = 0 => k'.pended = 0 /\ (~k'.pendsv => k'.cur \in Ready(k') \cup {End})
    OBVIOUS
  <2>4. k'.locks = 1 <=> Locked(o)
    OBVIOUS
  <2> QED
    BY <1>3, <2>1, <2>2, <2>3, <2>4 DEF Core
<1>5. ASSUME NEW u \in Users \ {t}
      PROVE  /\ Placed(u, op'[u], k') /\ InTime(op'[u], k')
             /\ Tested(op'[u], queue'[op'[u].call.q])
  <2>1. op'[u] = op[u] /\ ~Locked(op[u])
    BY <1>1, <1>2
  <2>2. Placed(u, op[u], k) /\ InTime(op[u], k)
    BY DEF Waiting
  <2>3. Placed(u, op[u], k')
    BY <2>1, <2>2 DEF Placed
  <2>4. InTime(op[u], k')
    BY <1>2, <2>2, InTimeLater
  <2>5. Tested(op[u], queue'[op[u].call.q])
    BY <2>1 DEF Tested, Locked
  <2> QED
    BY <2>1, <2>3, <2>4, <2>5
<1> QED
  BY <1>1, <1>4, <1>5

\* Who leaves a list is on its way, and so is who was and does not stop.
LEMMA BoundGrows ==
    ASSUME NEW l \in EventLists, NEW x, NEW y, NEW ops, NEW new, NEW gone,
           \A t \in Users : t \in ToSet(x.events[l]) => OnWay(ops[t]) /\ OnList(ops[t]) = l,
           \A t \in Users \ gone : OnWay(ops[t]) /\ OnList(ops[t]) = l =>
                OnWay(new[t]) /\ OnList(new[t]) = l,
           NEW came, ToSet(y.events[l]) \subseteq ToSet(x.events[l]) \cup came,
           \A t \in came : ~(OnWay(ops[t]) /\ OnList(ops[t]) = l),
           ToSet(x.events[l]) \subseteq Users
    PROVE  /\ Bound(ops, x, l) \ gone \subseteq Bound(new, y, l)
           /\ (ToSet(x.events[l]) \ ToSet(y.events[l])) \ gone \subseteq Bound(new, y, l)
           /\ IsFiniteSet(Bound(ops, x, l)) /\ IsFiniteSet(Bound(new, y, l))
           /\ Cardinality(Bound(ops, x, l)) \in Nat /\ Cardinality(Bound(new, y, l)) \in Nat
           /\ gone = {} => Cardinality(Bound(ops, x, l)) <= Cardinality(Bound(new, y, l))
<1>1. Bound(ops, x, l) \ gone \subseteq Bound(new, y, l)
  BY DEF Bound
<1>2. (ToSet(x.events[l]) \ ToSet(y.events[l])) \ gone \subseteq Bound(new, y, l)
  BY DEF Bound
<1>3. Bound(ops, x, l) \subseteq Users /\ Bound(new, y, l) \subseteq Users
  BY DEF Bound
<1>4. IsFiniteSet(Bound(ops, x, l)) /\ IsFiniteSet(Bound(new, y, l))
  BY <1>3, NamesAre, FS_Subset
<1>5. /\ Cardinality(Bound(ops, x, l)) \in Nat /\ Cardinality(Bound(new, y, l)) \in Nat
  BY <1>4, FS_CardinalityType
<1>6. ASSUME gone = {}
      PROVE  Cardinality(Bound(ops, x, l)) <= Cardinality(Bound(new, y, l))
  <2>1. Bound(ops, x, l) \in SUBSET Bound(new, y, l)
    BY <1>1, <1>6
  <2> QED
    BY <1>4, <2>1, FS_Subset
<1> QED
  BY <1>1, <1>2, <1>4, <1>5, <1>6

-----------------------------------------------------------------------------
(* Wakeups.                                                                *)

\* In a step, who leaves a list, and who was on its way and stops.
Leaves(l) == ToSet(k.events[l]) \ ToSet(k'.events[l])
Stops(l) == {t \in Users : /\ OnWay(op[t]) /\ OnList(op[t]) = l
                           /\ ~(OnWay(op'[t]) /\ OnList(op'[t]) = l)}

LEMMA ListOf ==
    ASSUME NEW x, Lists(x), NEW l \in EventLists
    PROVE  /\ x.events[l] \in Seq(Users) /\ ToSet(x.events[l]) \subseteq Users
           /\ x.events[l] = <<>> <=> ToSet(x.events[l]) = {}
           /\ IsFiniteSet(ToSet(x.events[l]))
<1>1. x.events[l] \in Seq(Users)
  BY DEF Lists, WaitLists
<1>2. ToSet(x.events[l]) \subseteq Users
  BY <1>1, SetOf
<1>3. x.events[l] = <<>> <=> ToSet(x.events[l]) = {}
  BY <1>1, SetOf
<1>4. IsFiniteSet(ToSet(x.events[l]))
  BY <1>2, NamesAre, FS_Subset
<1> QED
  BY <1>1, <1>2, <1>3, <1>4

LEMMA LeavesAre ==
    ASSUME Lists(k), Lists(k'), NEW l \in EventLists
    PROVE  /\ IsFiniteSet(Leaves(l)) /\ Cardinality(Leaves(l)) \in Nat
           /\ IsFiniteSet(Stops(l)) /\ Cardinality(Stops(l)) \in Nat
           /\ Stops(l) = {} => Cardinality(Stops(l)) = 0
           /\ \A t : Stops(l) \subseteq {t} => Cardinality(Stops(l)) <= 1
           /\ \A t : t \in Leaves(l) => Cardinality(Leaves(l)) >= 1
<1>1. Leaves(l) \subseteq Users /\ Stops(l) \subseteq Users
  BY ListOf DEF Leaves, Stops
<1>2. IsFiniteSet(Leaves(l)) /\ IsFiniteSet(Stops(l))
  BY <1>1, NamesAre, FS_Subset
<1>3. Cardinality(Leaves(l)) \in Nat /\ Cardinality(Stops(l)) \in Nat
  BY <1>2, FS_CardinalityType
<1>4. Stops(l) = {} => Cardinality(Stops(l)) = 0
  BY FS_EmptySet
<1>5. ASSUME NEW t, Stops(l) \subseteq {t} PROVE Cardinality(Stops(l)) <= 1
  <2>1. IsFiniteSet({t}) /\ Cardinality({t}) = 1
    BY FS_Singleton
  <2> QED
    BY <1>5, <2>1, FS_Subset
<1>6. ASSUME NEW t, t \in Leaves(l) PROVE Cardinality(Leaves(l)) >= 1
  <2>1. Cardinality(Leaves(l)) # 0
    BY <1>2, <1>6, FS_EmptySet
  <2> QED
    BY <1>3, <2>1
<1> QED
  BY <1>2, <1>3, <1>4, <1>5, <1>6

\* The tasks on their way are at least those that were and do not stop, and those
\* that leave the list.
LEMMA ListAwake ==
    ASSUME Waiting, Lists(k'), NEW l \in EventLists, NEW m \in Int, NEW n \in Int,
           k.events[l] # <<>> => m <= Cardinality(Bound(op, k, l)),
           ToSet(k'.events[l]) \subseteq ToSet(k.events[l]),
           Leaves(l) \cap Stops(l) = {},
           n <= 0 \/ n <= m + Cardinality(Leaves(l)) - Cardinality(Stops(l))
    PROVE  k'.events[l] # <<>> => n <= Cardinality(Bound(op', k', l))
<1> DEFINE B == Bound(op, k, l)
           C == Bound(op', k', l)
           L == Leaves(l)
           S == Stops(l)
<1>1. Lists(k) /\ \A t \in Users : t \in ToSet(k.events[l]) => OnWay(op[t]) /\ OnList(op[t]) = l
  BY DEF Waiting, Core, Placed
<1>2. /\ B \ S \subseteq C /\ L \subseteq C
      /\ IsFiniteSet(B) /\ IsFiniteSet(C)
      /\ Cardinality(B) \in Nat /\ Cardinality(C) \in Nat
  <2>1. \A t \in Users \ S : OnWay(op[t]) /\ OnList(op[t]) = l => OnWay(op'[t]) /\ OnList(op'[t]) = l
    BY DEF Stops
  <2> DEFINE none == {}
  <2>2. ToSet(k'.events[l]) \subseteq ToSet(k.events[l]) \cup none
        /\ \A t \in none : ~(OnWay(op[t]) /\ OnList(op[t]) = l)
    OBVIOUS
  <2>3. ToSet(k.events[l]) \subseteq Users
    BY <1>1, ListOf
  <2> HIDE DEF S, none
  <2>5. \A t \in Users : t \in ToSet(k.events[l]) => OnWay(op[t]) /\ OnList(op[t]) = l
    BY <1>1
  <2>4. /\ Bound(op, k, l) \ S \subseteq Bound(op', k', l)
        /\ (ToSet(k.events[l]) \ ToSet(k'.events[l])) \ S \subseteq Bound(op', k', l)
        /\ IsFiniteSet(Bound(op, k, l)) /\ IsFiniteSet(Bound(op', k', l))
        /\ Cardinality(Bound(op, k, l)) \in Nat /\ Cardinality(Bound(op', k', l)) \in Nat
    BY <2>1, <2>2, <2>3, <2>5, BoundGrows
  <2> QED
    BY <2>4 DEF Leaves, S
<1>3. /\ IsFiniteSet(L) /\ IsFiniteSet(S) /\ Cardinality(L) \in Nat /\ Cardinality(S) \in Nat
  BY <1>1, LeavesAre
<1>4. B \cap L = {}
  BY DEF Bound, Leaves
<1> SUFFICES ASSUME k'.events[l] # <<>> PROVE n <= Cardinality(C)
  OBVIOUS
<1>5. k.events[l] # <<>>
  BY <1>1, ListOf
<1> HIDE DEF B, C, L, S
<1>6. Cardinality(B \ S) >= Cardinality(B) - Cardinality(S) /\ IsFiniteSet(B \ S)
      /\ Cardinality(B \ S) \in Nat
  <2>1. /\ IsFiniteSet(B \ S) /\ IsFiniteSet((B \ S) \cup S)
        /\ Cardinality((B \ S) \cup S) = Cardinality(B \ S) + Cardinality(S) - Cardinality((B \ S) \cap S)
    <3>1. IsFiniteSet(B \ S)
      <4>1. B \ S \in SUBSET B
        OBVIOUS
      <4> QED
        BY <1>2, <4>1, FS_Subset
    <3> QED
      BY <1>3, <3>1, FS_Union
  <2>2. Cardinality((B \ S) \cap S) = 0
    <3>1. (B \ S) \cap S = {}
      OBVIOUS
    <3> QED
      BY <3>1, FS_EmptySet
  <2>3. Cardinality(B) <= Cardinality((B \ S) \cup S)
    <3>1. B \in SUBSET ((B \ S) \cup S)
      OBVIOUS
    <3> QED
      BY <2>1, <3>1, FS_Subset
  <2>4. Cardinality(B \ S) \in Nat
    BY <2>1, FS_CardinalityType
  <2> QED
    BY <1>2, <1>3, <2>1, <2>2, <2>3, <2>4
<1>7. Cardinality((B \ S) \cup L) = Cardinality(B \ S) + Cardinality(L)
  <2>1. Cardinality((B \ S) \cap L) = 0
    <3>1. (B \ S) \cap L = {}
      BY <1>4
    <3> QED
      BY <3>1, FS_EmptySet
  <2>2. Cardinality((B \ S) \cup L) =
            Cardinality(B \ S) + Cardinality(L) - Cardinality((B \ S) \cap L)
    BY <1>3, <1>6, FS_Union
  <2> QED
    BY <1>3, <1>6, <2>1, <2>2
<1>8. Cardinality((B \ S) \cup L) <= Cardinality(C)
  <2>1. (B \ S) \cup L \in SUBSET C
    BY <1>2
  <2> QED
    BY <1>2, <2>1, FS_Subset
<1>9. m <= Cardinality(B)
  BY <1>5 DEF B
<1>10. n <= 0 \/ n <= m + Cardinality(L) - Cardinality(S)
  BY DEF L, S
<1> QED
  BY <1>2, <1>3, <1>6, <1>7, <1>8, <1>9, <1>10

\* What is counted of a queue are numbers.
LEMMA CountedIs ==
    ASSUME NEW q \in DOMAIN Queues, NEW c, Counted(q, c)
    PROVE  /\ Items(c) \in Int /\ Spaces(q, c) \in Int /\ Size(q) \in Nat \ {0}
           /\ c.n \in Nat /\ c.n <= Size(q) /\ c.tx \in Int /\ c.rx \in Int
           /\ Max({c.tx, 0}) = (IF c.tx >= 0 THEN c.tx ELSE 0) /\ Max({c.tx, 0}) \in Nat
           /\ Max({c.rx, 0}) = (IF c.rx >= 0 THEN c.rx ELSE 0) /\ Max({c.rx, 0}) \in Nat
<1>1. Size(q) \in Nat \ {0}
  BY SizeIs
<1>2. c.n \in Nat /\ c.n <= Size(q) /\ c.tx \in Nat \cup {-1} /\ c.rx \in Nat \cup {-1}
  BY <1>1 DEF Counted, Unlocked
<1>3. \A i \in Nat \cup {-1} : Max({i, 0}) = (IF i >= 0 THEN i ELSE 0) /\ Max({i, 0}) \in Nat
  <2> SUFFICES ASSUME NEW i \in Nat \cup {-1}
               PROVE  Max({i, 0}) = (IF i >= 0 THEN i ELSE 0)
    OBVIOUS
  <2>1. CASE i >= 0
    <3>1. i \in Nat /\ 0 \in Nat /\ i >= 0
      BY <2>1
    <3> QED
      BY <3>1, MaxOfPair
  <2>2. CASE ~(i >= 0)
    <3>1. \A j \in {i, 0} : j \in Int /\ j <= 0
      BY <2>2
    <3>2. \E y \in {i, 0} : \A j \in {i, 0} : y >= j
      BY <3>1
    <3>3. Max({i, 0}) \in {i, 0} /\ \A j \in {i, 0} : Max({i, 0}) >= j
      BY <3>2 DEF Max
    <3> QED
      BY <2>2, <3>1, <3>3
  <2> QED
    BY <2>1, <2>2
<1>4. /\ Max({c.tx, 0}) = (IF c.tx >= 0 THEN c.tx ELSE 0) /\ Max({c.tx, 0}) \in Nat
      /\ Max({c.rx, 0}) = (IF c.rx >= 0 THEN c.rx ELSE 0) /\ Max({c.rx, 0}) \in Nat
  BY <1>2, <1>3
<1> QED
  BY <1>1, <1>2, <1>4 DEF Items, Spaces

\* No task stops, and no item or space is new.
LEMMA AwakeSame ==
    ASSUME Waiting, Lists(k'),
           \A t \in Users : OnWay(op[t]) => OnWay(op'[t]) /\ OnList(op'[t]) = OnList(op[t]),
           \A l \in EventLists : ToSet(k'.events[l]) \subseteq ToSet(k.events[l]),
           NEW q \in DOMAIN Queues, Counted(q, queue'[q]),
           Items(queue'[q]) <= Items(queue[q]), Spaces(q, queue'[q]) <= Spaces(q, queue[q])
    PROVE  Awake(op', k', q, queue'[q])
<1>1. Lists(k) /\ Counted(q, queue[q]) /\ Awake(op, k, q, queue[q])
  BY DEF Waiting, Core
<1>2. /\ Items(queue[q]) \in Int /\ Items(queue'[q]) \in Int
      /\ Spaces(q, queue[q]) \in Int /\ Spaces(q, queue'[q]) \in Int
  BY <1>1, CountedIs
<1>3. ReceiveList(q) \in EventLists /\ SendList(q) \in EventLists
  BY ListsDiffer
<1>4. ASSUME NEW l \in EventLists, NEW m \in Int, NEW n \in Int, n <= m,
             k.events[l] # <<>> => m <= Cardinality(Bound(op, k, l))
      PROVE  k'.events[l] # <<>> => n <= Cardinality(Bound(op', k', l))
  <2>1. Stops(l) = {}
    BY DEF Stops
  <2>2. Cardinality(Leaves(l)) \in Nat /\ Cardinality(Stops(l)) = 0
    BY <1>1, <2>1, LeavesAre
  <2>3. n <= m + Cardinality(Leaves(l)) - Cardinality(Stops(l))
    BY <1>4, <2>2
  <2> QED
    BY <1>4, <2>1, <2>3, ListAwake
<1> QED
  BY <1>1, <1>2, <1>3, <1>4 DEF Awake

-----------------------------------------------------------------------------
(* The exceptions and the idle task.                                       *)

\* The kernel changes, the calls and the queues do not.
LEMMA KernelKept ==
    ASSUME Waiting, UNCHANGED <<queue, op>>, Core',
           \A l \in EventLists : ToSet(k'.events[l]) \subseteq ToSet(k.events[l]),
           Ready(k) \subseteq Ready(k'),
           \A t \in Users : Locked(op[t]) => k'.cur = t,
           Now(k) <= Now(k'), Count(k) <= Count(k')
    PROVE  Waiting'
<1>1. Lists(k) /\ Lists(k') /\ queue' = queue /\ op' = op
  BY DEF Waiting, Core
<1>2. ASSUME NEW t \in Users
      PROVE  Placed(t, op[t], k') /\ Tested(op[t], queue[op[t].call.q]) /\ InTime(op[t], k')
  <2>1. Placed(t, op[t], k) /\ Tested(op[t], queue[op[t].call.q]) /\ InTime(op[t], k)
    BY DEF Waiting
  <2>2. Placed(t, op[t], k')
    BY <2>1 DEF Placed
  <2>3. InTime(op[t], k')
    BY <1>1, <2>1, InTimeLater
  <2> QED
    BY <2>1, <2>2, <2>3
<1>3. ASSUME NEW q \in DOMAIN Queues
      PROVE  Counted(q, queue[q]) /\ Awake(op', k', q, queue'[q])
  <2>1. Counted(q, queue[q]) /\ Counted(q, queue'[q])
    BY <1>1 DEF Waiting
  <2>2. Items(queue'[q]) <= Items(queue[q]) /\ Spaces(q, queue'[q]) <= Spaces(q, queue[q])
    <3>1. Items(queue[q]) \in Int /\ Spaces(q, queue[q]) \in Int /\ queue'[q] = queue[q]
      BY <1>1, <2>1, CountedIs
    <3>2. Items(queue'[q]) = Items(queue[q]) /\ Spaces(q, queue'[q]) = Spaces(q, queue[q])
      BY <3>1
    <3> QED
      BY <3>1, <3>2
  <2>3. \A t \in Users : OnWay(op[t]) => OnWay(op'[t]) /\ OnList(op'[t]) = OnList(op[t])
    BY <1>1
  <2> QED
    BY <1>1, <2>1, <2>2, <2>3, AwakeSame
<1> QED
  BY <1>1, <1>2, <1>3 DEF Waiting

LEMMA PendSVWaits ==
    ASSUME Waiting, PendSV, UNCHANGED <<queue, op>>
    PROVE  Waiting'
<1>1. /\ Lists(k) /\ Apart(k) /\ k' = vTaskSwitchContext(k) /\ idle' = idle /\ expect' = expect
  BY DEF Waiting, Core, PendSV
<1>2. /\ Lists(k') /\ Ready(k') = Ready(k) /\ k'.events = k.events /\ k'.locks = k.locks
      /\ SameTime(k, k') /\ Apart(k')
      /\ IF k.locks = 0 THEN k'.cur \in Ready(k') \cup {End} ELSE k'.cur = k.cur
  BY <1>1, SwitchedIs
<1>3. Now(k') = Now(k) /\ Count(k') = Count(k) /\ k'.pended = k.pended /\ k'.tick = k.tick
  BY <1>2, SameTimeCount DEF SameTime
<1>4. Now(k) \in Nat /\ Count(k) \in Nat
  BY <1>1, CountNow
<1>5. Core'
  <2>1. /\ k.locks \in {0, 1} /\ (k.locks = 0 => k.pended = 0)
        /\ (k.locks = 1 <=> IdleLocked \/ \E t \in Users : Locked(op[t]))
        /\ (IdleLocked => k.cur = Idle)
        /\ (idle = "sleep" => expect \in Nat \ {0} /\ k.tick + expect <= MaxDelay)
    BY DEF Waiting, Core
  <2>2. IdleLocked' = IdleLocked
    BY <1>1 DEF IdleLocked
  <2> QED
    BY <1>1, <1>2, <1>3, <2>1, <2>2 DEF Core
<1>6. \A t \in Users : Locked(op[t]) => k'.cur = t
  BY <1>2 DEF Waiting, Core, Placed
<1> QED
  BY <1>2, <1>3, <1>4, <1>5, <1>6, KernelKept

LEMMA TickWaits ==
    ASSUME Waiting, xPortSysTickHandler, UNCHANGED <<queue, op>>
    PROVE  Waiting'
<1> DEFINE y == xTaskIncrementTick(k).k
           c == xTaskIncrementTick(k).switch
<1>1. Lists(k) /\ Apart(k) /\ k' = YieldIf(c, y) /\ idle' = idle /\ expect' = expect
  BY DEF Waiting, Core, xPortSysTickHandler
<1>2. /\ Readied(k, y) /\ Now(y) = Now(k) + 1
      /\ IF k.locks = 0 THEN Count(y) = Count(k) + 1 /\ y.pended = k.pended
         ELSE y.tick = k.tick /\ y.overflows = k.overflows /\ y.pended = k.pended + 1
  BY <1>1, TickIs
<1> HIDE DEF y, c
<1>3. Lists(y)
  BY <1>2 DEF Readied
<1>4. Readied(y, k') /\ SameTime(y, k')
  BY <1>1, <1>3, YieldIs
<1>5. Readied(k, k')
  BY <1>2, <1>4, ReadiedTwice
<1>6. /\ Now(k) \in Nat /\ Count(k) \in Nat /\ Now(k') = Now(y) /\ Count(k') = Count(y)
      /\ k'.tick = y.tick /\ k'.pended = y.pended
  BY <1>1, <1>4, CountNow, SameTimeCount DEF SameTime
<1>7. Count(k) <= Count(k') /\ Now(k) <= Now(k')
  <2>1. k.locks # 0 => Count(y) = Count(k)
    BY <1>2 DEF Count
  <2> QED
    BY <1>2, <1>6, <2>1
<1>8. Core'
  <2>1. /\ k.locks \in {0, 1} /\ (k.locks = 0 => k.pended = 0)
        /\ (k.locks = 0 => (~k.pendsv => k.cur \in Ready(k) \cup {End}))
        /\ (k.locks = 1 <=> IdleLocked \/ \E t \in Users : Locked(op[t]))
        /\ (IdleLocked => k.cur = Idle)
        /\ (idle = "sleep" => expect \in Nat \ {0} /\ k.tick + expect <= MaxDelay)
    BY DEF Waiting, Core
  <2>2. IdleLocked' = IdleLocked /\ (idle = "sleep" => IdleLocked)
    BY <1>1 DEF IdleLocked
  <2>3. /\ Lists(k') /\ Apart(k') /\ k'.cur = k.cur /\ k'.locks = k.locks
        /\ (k.pendsv => k'.pendsv) /\ Ready(k) \subseteq Ready(k')
    BY <1>1, <1>5 DEF Readied
  <2>4. idle = "sleep" => k'.tick = k.tick
    BY <1>2, <1>6, <2>1, <2>2
  <2>5. k'.locks = 0 => k'.pended = 0
    BY <1>2, <1>6, <2>1, <2>3
  <2>6. k'.locks = 0 => (~k'.pendsv => k'.cur \in Ready(k') \cup {End})
    BY <2>1, <2>3
  <2> QED
    BY <1>1, <2>1, <2>2, <2>3, <2>4, <2>5, <2>6 DEF Core
<1>9. \A t \in Users : Locked(op[t]) => k'.cur = t
  BY <1>5 DEF Waiting, Placed, Readied
<1> QED
  BY <1>5, <1>7, <1>8, <1>9, KernelKept DEF Readied

\* The scheduler is suspended: only the count of that changes.
SuspendedAs(x, y) ==
    /\ Lists(y) /\ Ready(y) = Ready(x) /\ y.events = x.events /\ y.cur = x.cur
    /\ y.locks = x.locks + 1 /\ y.pendsv = x.pendsv /\ y.tick = x.tick
    /\ y.overflows = x.overflows /\ y.pended = x.pended
    /\ Now(y) = Now(x) /\ Count(y) = Count(x) /\ (Apart(x) => Apart(y))

LEMMA SuspendedIs ==
    ASSUME NEW x, Lists(x)
    PROVE  SuspendedAs(x, vTaskSuspendAll(x))
<1> DEFINE y == vTaskSuspendAll(x)
           n == x.locks + 1
<1>1. n \in Nat
  BY DEF Lists, Values
<1>2. Frame(x, y, {"locks"}) /\ y.locks = n
  BY DEF vTaskSuspendAll, Lists, IsKernel, Frame, Fields
<1> HIDE DEF y, n
<1>3. /\ y.ready = x.ready /\ y.top = x.top /\ y.delayed = x.delayed
      /\ y.overflow = x.overflow /\ y.pending = x.pending
      /\ y.termination = x.termination /\ y.events = x.events
      /\ y.cur = x.cur /\ y.prio = x.prio /\ y.base = x.base /\ y.item = x.item
      /\ y.tick = x.tick /\ y.pended = x.pended /\ y.overflows = x.overflows
      /\ y.unblock = x.unblock /\ y.wake = x.wake /\ y.pendsv = x.pendsv
  BY <1>2 DEF Frame, Fields
<1>4. Lists(y)
  BY <1>1, <1>2, <1>3 DEF Lists, ReadyLists, Ring0, BlockedLists, WaitLists, Values, Frame
<1>5. Ready(y) = Ready(x) /\ (Apart(x) => Apart(y))
  BY <1>3 DEF Ready, Apart
<1>6. Now(y) = Now(x) /\ Count(y) = Count(x)
  BY <1>3 DEF Now, Count
<1> QED
  BY <1>2, <1>3, <1>4, <1>5, <1>6 DEF SuspendedAs, y, n

\* The idle task executes.
LEMMA IdleRuns ==
    ASSUME Waiting, Runs(Idle)
    PROVE  /\ Lists(k) /\ Apart(k) /\ k.cur = Idle /\ Idle \in Ready(k)
           /\ \A t \in Users : ~Locked(op[t])
           /\ k.locks = (IF IdleLocked THEN 1 ELSE 0) /\ (k.locks = 0 => k.pended = 0)
           /\ Now(k) \in Nat /\ Count(k) \in Nat /\ Now(k) = Count(k) + k.pended
<1>1. Lists(k) /\ Apart(k) /\ k.cur = Idle /\ Core
  BY DEF Waiting, Core, Runs
<1>2. Idle \in Ready(k)
  BY <1>1, NamesAre DEF Lists, ReadyLists, Ready
<1>3. \A t \in Users : ~Locked(op[t])
  <2>1. Idle \notin Users
    BY NamesAre
  <2> QED
    BY <1>1, <2>1 DEF Waiting, Placed
<1>4. k.locks = IF IdleLocked THEN 1 ELSE 0
  BY <1>1, <1>3 DEF Core
<1>5. k.locks = 0 => k.pended = 0
  BY <1>1 DEF Core
<1> QED
  BY <1>1, <1>2, <1>3, <1>4, <1>5, CountNow

LEMMA IdleKept ==
    ASSUME Waiting, Runs(Idle), UNCHANGED <<queue, op>>,
           Lists(k'), Apart(k'), k'.cur = Idle, k'.locks = (IF IdleLocked' THEN 1 ELSE 0),
           k'.locks = 0 => k'.pended = 0,
           \A l \in EventLists : ToSet(k'.events[l]) \subseteq ToSet(k.events[l]),
           Ready(k) \subseteq Ready(k'),
           idle' = "sleep" => expect' \in Nat \ {0} /\ k'.tick + expect' <= MaxDelay,
           Now(k) <= Now(k'), Count(k) <= Count(k')
    PROVE  Waiting'
<1>1. Idle \in Ready(k) /\ \A t \in Users : ~Locked(op[t])
  BY IdleRuns
<1>2. \A t \in Users : ~Locked(op'[t])
  BY <1>1
<1>3. Core'
  BY <1>1, <1>2 DEF Core
<1> QED
  BY <1>1, <1>3, KernelKept

LEMMA IdleWaits ==
    ASSUME Waiting, prvIdleTask, UNCHANGED <<queue, op>>
    PROVE  Waiting'
<1>0. Runs(Idle)
  BY DEF prvIdleTask, prvCheckTasksWaitingTermination, IdleChecks, IdleExpects,
         vPortSuppressTicksAndSleep, IdleWakes
<1>1. /\ Lists(k) /\ Apart(k) /\ k.cur = Idle /\ Idle \in Ready(k)
      /\ k.locks = (IF IdleLocked THEN 1 ELSE 0) /\ (k.locks = 0 => k.pended = 0)
      /\ Now(k) \in Nat /\ Count(k) \in Nat /\ Now(k) = Count(k) + k.pended
  BY <1>0, IdleRuns
<1>2. /\ k.tick \in Ticks /\ k.unblock \in Ticks /\ k.overflows \in Nat /\ k.pended \in Nat
      /\ MaxDelay \in Nat /\ TickModulus \in Nat \ {0, 1} /\ k.termination = <<>>
      /\ k.locks \in Nat
  BY <1>1, NamesAre DEF Lists, Values, BlockedLists, MaxDelay
<1>3. CASE prvCheckTasksWaitingTermination
  <2>1. k' = k /\ idle' = "yield" /\ ~IdleLocked' /\ ~IdleLocked
    BY <1>2, <1>3 DEF prvCheckTasksWaitingTermination, IdleLocked
  <2> QED
    BY <1>0, <1>1, <2>1, IdleKept
<1>4. CASE IdleChecks
  <2>1. ~IdleLocked /\ k.locks = 0
    BY <1>1, <1>4 DEF IdleChecks, IdleLocked
  <2>2. CASE k' = k /\ idle' = "clean"
    BY <1>0, <1>1, <2>1, <2>2, IdleKept DEF IdleLocked
  <2>3. CASE k' = portYIELD(k) /\ idle' = "clean"
    <3>1. Frame(k, k', {"pendsv"})
      BY <1>1, <2>3 DEF portYIELD, Lists, IsKernel, Frame, Fields
    <3>2. /\ Lists(k') /\ Ready(k') = Ready(k) /\ k'.events = k.events
          /\ k'.cur = k.cur /\ k'.locks = k.locks /\ SameTime(k, k') /\ Apart(k')
      BY <1>1, <3>1, OtherFields
    <3>3. Now(k') = Now(k) /\ Count(k') = Count(k) /\ k'.pended = k.pended
      BY <3>2, SameTimeCount
    <3> QED
      BY <1>0, <1>1, <2>1, <2>3, <3>2, <3>3, IdleKept DEF IdleLocked
  <2>4. CASE k' = vTaskSuspendAll(k) /\ idle' = "expect"
    <3>1. SuspendedAs(k, k')
      BY <1>1, <2>4, SuspendedIs
    <3> QED
      BY <1>0, <1>1, <2>1, <2>4, <3>1, IdleKept DEF IdleLocked, SuspendedAs
  <2> QED
    BY <1>4, <2>2, <2>3, <2>4 DEF IdleChecks
<1>5. CASE IdleExpects
  <2>1. IdleLocked /\ IdleLocked' /\ k' = k
    BY <1>5 DEF IdleExpects, IdleLocked
  <2>2. idle' = "sleep" => expect' \in Nat \ {0} /\ k.tick + expect' <= MaxDelay
    <3>1. expect' = 0 \/ expect' = k.unblock - k.tick
      BY <1>5 DEF IdleExpects, prvGetExpectedIdleTime
    <3>2. idle' = "sleep" => expect' >= 2
      BY <1>5 DEF IdleExpects, WorthSleeping
    <3> QED
      BY <1>2, <3>1, <3>2 DEF Ticks
  <2> QED
    BY <1>0, <1>1, <2>1, <2>2, IdleKept
<1>6. CASE vPortSuppressTicksAndSleep
  <2>1. IdleLocked /\ IdleLocked' /\ k.locks = 1 /\ idle' = "wake"
    BY <1>1, <1>6 DEF vPortSuppressTicksAndSleep, IdleLocked
  <2>2. expect \in Nat \ {0} /\ k.tick + expect <= MaxDelay
    BY <1>6 DEF vPortSuppressTicksAndSleep, Waiting, Core
  <2>3. CASE k' = k
    BY <1>0, <1>1, <2>1, <2>3, IdleKept
  <2> DEFINE asleep == Min({expect, Suppressible})
  <2>4. asleep \in Nat \ {0} /\ asleep <= expect
    <3>1. Suppressible \in Nat \ {0}
      BY CpuAssumption
    <3>2. {expect, Suppressible} \in SUBSET Nat /\ {expect, Suppressible} # {}
      BY <2>2, <3>1
    <3>3. asleep \in {expect, Suppressible}
      BY <3>2, MinIn
    <3>4. \E m \in {expect, Suppressible} : \A i \in {expect, Suppressible} : m <= i
      BY <2>2, <3>1
    <3>5. \A i \in {expect, Suppressible} : asleep <= i
      BY <3>4 DEF Min
    <3> QED
      BY <2>2, <3>1, <3>3, <3>5
  <2> HIDE DEF asleep
  <2>5. ASSUME NEW jump \in 0 .. asleep - 1
        PROVE  LET y == vTaskStepTick(k, jump)
               IN /\ Lists(y) /\ Apart(y) /\ Ready(y) = Ready(k) /\ y.events = k.events
                  /\ y.cur = k.cur /\ y.locks = k.locks /\ y.pended = k.pended
                  /\ Count(y) = Count(k) + jump /\ Now(y) = Now(k) + jump
    <3> DEFINE y == vTaskStepTick(k, jump)
               tick == k.tick + jump
    <3>1. tick \in Ticks /\ jump \in Nat
      BY <1>2, <2>2, <2>4, <2>5 DEF Ticks
    <3>2. Frame(k, y, {"tick"}) /\ y.tick = tick
      BY <1>1 DEF vTaskStepTick, Lists, IsKernel, Frame, Fields
    <3> HIDE DEF y, tick
    <3>3. /\ y.ready = k.ready /\ y.top = k.top /\ y.delayed = k.delayed
          /\ y.overflow = k.overflow /\ y.pending = k.pending
          /\ y.termination = k.termination /\ y.events = k.events
          /\ y.cur = k.cur /\ y.prio = k.prio /\ y.base = k.base /\ y.item = k.item
          /\ y.locks = k.locks /\ y.pended = k.pended /\ y.overflows = k.overflows
          /\ y.unblock = k.unblock /\ y.wake = k.wake
      BY <3>2 DEF Frame, Fields
    <3>4. Lists(y)
      BY <1>1, <3>1, <3>2, <3>3
         DEF Lists, ReadyLists, Ring0, BlockedLists, WaitLists, Values, Frame
    <3>5. Ready(y) = Ready(k) /\ Apart(y)
      BY <1>1, <3>3 DEF Ready, Apart
    <3>6. Count(y) = Count(k) + jump
      <4> DEFINE rounds == k.overflows * TickModulus
      <4>1. rounds \in Nat
        BY <1>2
      <4> HIDE DEF rounds
      <4>2. Count(k) = rounds + k.tick /\ Count(y) = rounds + tick
        BY <3>2, <3>3 DEF Count, rounds
      <4> QED
        BY <1>2, <3>1, <4>1, <4>2 DEF tick, Ticks
    <3>7. Now(y) = Now(k) + jump
      BY <1>1, <1>2, <3>1, <3>3, <3>4, <3>6, CountNow
    <3> QED
      BY <3>3, <3>4, <3>5, <3>6, <3>7 DEF y
  <2>6. ASSUME NEW jump \in 0 .. asleep - 1, k' = vTaskStepTick(k, jump)
        PROVE  Waiting'
    <3>1. /\ Lists(k') /\ Apart(k') /\ Ready(k') = Ready(k) /\ k'.events = k.events
          /\ k'.cur = k.cur /\ k'.locks = k.locks /\ k'.pended = k.pended
          /\ Count(k') = Count(k) + jump /\ Now(k') = Now(k) + jump
      BY <2>5, <2>6
    <3>2. Now(k) <= Now(k') /\ Count(k) <= Count(k')
      BY <1>1, <2>6, <3>1
    <3> QED
      BY <1>0, <1>1, <2>1, <3>1, <3>2, IdleKept
  <2>7. CASE k' = xTaskIncrementTick(vTaskStepTick(k, asleep - 1)).k
    <3> DEFINE jump == asleep - 1
               y == vTaskStepTick(k, jump)
    <3>1. jump \in 0 .. asleep - 1 /\ jump \in Nat
      BY <2>4
    <3>2. /\ Lists(y) /\ Apart(y) /\ Ready(y) = Ready(k) /\ y.events = k.events
          /\ y.cur = k.cur /\ y.locks = k.locks /\ y.pended = k.pended
          /\ Count(y) = Count(k) + jump /\ Now(y) = Now(k) + jump
      BY <2>5, <3>1
    <3>3. k' = xTaskIncrementTick(y).k
      BY <2>7
    <3> HIDE DEF y, jump
    <3>4. /\ Readied(y, k') /\ Now(k') = Now(y) + 1
          /\ k'.tick = y.tick /\ k'.overflows = y.overflows
      BY <2>1, <3>2, <3>3, TickIs
    <3>5. Count(k') = Count(y)
      BY <3>4 DEF Count
    <3>6. Now(k) <= Now(k') /\ Count(k) <= Count(k')
      BY <1>1, <3>1, <3>2, <3>4, <3>5
    <3>7. /\ Lists(k') /\ Apart(k') /\ Ready(k) \subseteq Ready(k') /\ k'.cur = Idle
          /\ k'.locks = 1 /\ \A l \in EventLists : ToSet(k'.events[l]) \subseteq ToSet(k.events[l])
      BY <1>1, <2>1, <3>2, <3>4 DEF Readied
    <3> QED
      BY <1>0, <2>1, <3>6, <3>7, IdleKept
  <2>8. \/ k' = k \/ k' = xTaskIncrementTick(vTaskStepTick(k, asleep - 1)).k
        \/ \E slept \in 0 .. asleep - 1 : k' = vTaskStepTick(k, slept)
    BY <1>6 DEF vPortSuppressTicksAndSleep, asleep
  <2> QED
    BY <2>3, <2>6, <2>7, <2>8
<1>7. CASE IdleWakes
  <2>1. IdleLocked /\ k.locks = 1 /\ ~IdleLocked' /\ idle' = "clean" /\ k' = xTaskResumeAll(k)
    BY <1>1, <1>7 DEF IdleWakes, IdleLocked
  <2>2. /\ k'.locks = 0 /\ k'.cur = k.cur
        /\ Ready(k) \subseteq Ready(k') /\ Apart(k')
        /\ \A l \in EventLists : ToSet(k'.events[l]) \subseteq ToSet(k.events[l])
        /\ Count(k') = Count(k) + k.pended /\ k'.pended = 0 /\ Now(k') = Now(k)
        /\ Readied([k EXCEPT !.locks = 0], k')
    BY <1>1, <2>1, ResumedIs
  <2>3. Lists(k')
    BY <2>2 DEF Readied
  <2>4. Now(k) <= Now(k') /\ Count(k) <= Count(k')
    BY <1>1, <1>2, <2>2
  <2> QED
    BY <1>0, <1>1, <2>1, <2>2, <2>3, <2>4, IdleKept
<1> QED
  BY <1>3, <1>4, <1>5, <1>6, <1>7 DEF prvIdleTask

-----------------------------------------------------------------------------
(* The steps of a call between its first critical sections.                *)

\* The place in the call, and what it waits for, but no time.
LEMMA InTimeMoves ==
    ASSUME NEW o, NEW p, NEW x, InTime(o, x), o.pc # "out",
           p.call = o.call /\ p.since = o.since /\ p.ticks = o.ticks /\ p.entry = o.entry,
           Expired(p) => Expired(o)
    PROVE  InTime(p, x)
BY DEF InTime, InCallOf, Deadline, Entered

\* The task goes on in its call and no queue has more items or spaces.
LEMMA TaskGoes ==
    ASSUME Calling, Waiting, NEW t \in Users, Runs(t), NEW o, op' = [op EXCEPT ![t] = o],
           UNCHANGED <<idle, expect>>,
           Lists(k'), Apart(k'),
           IF Locked(o) THEN k'.locks = 1 /\ k'.cur = t
           ELSE k'.locks = 0 /\ k'.pended = 0 /\ (k'.pendsv \/ k'.cur \in Ready(k')),
           Placed(t, o, k'), InTime(o, k'), Tested(o, queue'[o.call.q]),
           \A l \in EventLists : ToSet(k'.events[l]) \subseteq ToSet(k.events[l]),
           Now(k) <= Now(k'), Count(k) <= Count(k'),
           OnWay(op[t]) => OnWay(o) /\ OnList(o) = OnList(op[t]),
           \A q \in DOMAIN Queues : /\ Counted(q, queue'[q])
                                    /\ Items(queue'[q]) = Items(queue[q])
                                    /\ Spaces(q, queue'[q]) = Spaces(q, queue[q])
    PROVE  Waiting'
<1>1. \A l \in EventLists : ToSet(k'.events[l]) \subseteq ToSet(k.events[l]) \cup {t}
  OBVIOUS
<1>2. /\ Core'
      /\ \A u \in Users : /\ Placed(u, op'[u], k') /\ InTime(op'[u], k')
                          /\ Tested(op'[u], queue'[op'[u].call.q])
  BY <1>1, TaskKept
<1>3. \A u \in Users : op'[u] = IF u = t THEN o ELSE op[u]
  BY DEF Calling
<1>4. \A u \in Users : OnWay(op[u]) => OnWay(op'[u]) /\ OnList(op'[u]) = OnList(op[u])
  BY <1>3
<1>5. ASSUME NEW q \in DOMAIN Queues PROVE Awake(op', k', q, queue'[q])
  <2>1. Items(queue'[q]) \in Int /\ Spaces(q, queue'[q]) \in Int
    BY CountedIs
  <2>2. Items(queue'[q]) <= Items(queue[q]) /\ Spaces(q, queue'[q]) <= Spaces(q, queue[q])
    BY <2>1
  <2> QED
    BY <1>4, <2>2, AwakeSame
<1> QED
  BY <1>2, <1>5 DEF Waiting

LEMMA SameQueues ==
    ASSUME Waiting, queue' = queue
    PROVE  \A q \in DOMAIN Queues : /\ Counted(q, queue'[q])
                                    /\ Items(queue'[q]) = Items(queue[q])
                                    /\ Spaces(q, queue'[q]) = Spaces(q, queue[q])
BY DEF Waiting

\* The task returns from its call.
LEMMA ReturnIs ==
    ASSUME NEW t \in Users, NEW result, Returns(t, result)
    PROVE  \E o : /\ op' = [op EXCEPT ![t] = o] /\ o.pc = "out" /\ ~Locked(o) /\ ~OnWay(o)
                  /\ \A x, c : /\ (\A l \in EventLists : t \notin ToSet(x.events[l])) =>
                                        Placed(t, o, x)
                               /\ InTime(o, x) /\ Tested(o, c)
<1> DEFINE o == [NoOp EXCEPT !.result = result]
<1>1. op' = [op EXCEPT ![t] = o]
  BY DEF Returns
<1>2. o.pc = "out" /\ o.next = "retry"
  BY DEF NoOp
<1> HIDE DEF o
<1>3. ~Locked(o) /\ ~OnWay(o) /\ ~InCallOf(o)
  BY <1>2 DEF Locked, OnWay, InCallOf, Closing
<1>4. \A x, c : /\ (\A l \in EventLists : t \notin ToSet(x.events[l])) => Placed(t, o, x)
                /\ InTime(o, x) /\ Tested(o, c)
  BY <1>2, <1>3 DEF Placed, InTime, Tested
<1> QED
  BY <1>1, <1>2, <1>3, <1>4

LEMMA TaskReturns ==
    ASSUME Calling, Waiting, NEW t \in Users, Runs(t), NEW result, Returns(t, result),
           UNCHANGED <<idle, expect, queue>>, ~OnWay(op[t]),
           Lists(k'), Apart(k'), k'.locks = 0, k'.pended = 0,
           k'.pendsv \/ k'.cur \in Ready(k'),
           \A l \in EventLists : /\ ToSet(k'.events[l]) \subseteq ToSet(k.events[l])
                                 /\ t \notin ToSet(k'.events[l]),
           Now(k) <= Now(k'), Count(k) <= Count(k')
    PROVE  Waiting'
<1>1. PICK o : /\ op' = [op EXCEPT ![t] = o] /\ o.pc = "out" /\ ~Locked(o) /\ ~OnWay(o)
               /\ \A x, c : /\ (\A l \in EventLists : t \notin ToSet(x.events[l])) =>
                                    Placed(t, o, x)
                            /\ InTime(o, x) /\ Tested(o, c)
  BY ReturnIs
<1>2. Placed(t, o, k') /\ InTime(o, k') /\ Tested(o, queue'[o.call.q])
  BY <1>1
<1> QED
  BY <1>1, <1>2, SameQueues, TaskGoes

\* The place where a task is is all that changes of its call.
LEMMA GotoIs ==
    ASSUME Calling, NEW t \in Users, NEW pc, Goto(t, pc)
    PROVE  LET o == [op[t] EXCEPT !.pc = pc]
           IN /\ op' = [op EXCEPT ![t] = o] /\ o.pc = pc /\ o.call = op[t].call
              /\ o.next = op[t].next /\ o.ticks = op[t].ticks /\ o.entry = op[t].entry
              /\ o.since = op[t].since /\ OnList(o) = OnList(op[t])
<1> DEFINE o == [op[t] EXCEPT !.pc = pc]
<1>1. IsOp(op[t]) /\ op' = [op EXCEPT ![t] = o]
  BY DEF Calling, Goto
<1>2. /\ o.pc = pc /\ o.call = op[t].call /\ o.next = op[t].next /\ o.ticks = op[t].ticks
      /\ o.entry = op[t].entry /\ o.since = op[t].since
  BY <1>1 DEF IsOp
<1> HIDE DEF o
<1>3. OnList(o) = OnList(op[t])
  BY <1>2 DEF OnList
<1> QED
  BY <1>1, <1>2, <1>3 DEF o

LEMMA SuspendsWaits ==
    ASSUME Stored, Waiting, NEW t \in Users, Suspends(t)
    PROVE  Waiting'
<1> DEFINE o == [op[t] EXCEPT !.pc = "lock"]
<1>1. /\ Runs(t) /\ op[t].pc = "suspend" /\ k' = vTaskSuspendAll(k) /\ queue' = queue
      /\ idle' = idle /\ expect' = expect /\ Goto(t, "lock")
  BY DEF Suspends, Going, cpuUnchanged
<1>2. Calling /\ Placed(t, op[t], k) /\ InTime(op[t], k)
  BY DEF Stored, Waiting
<1>3. /\ op' = [op EXCEPT ![t] = o] /\ o.pc = "lock" /\ o.call = op[t].call
      /\ o.next = op[t].next /\ o.ticks = op[t].ticks /\ o.entry = op[t].entry
      /\ o.since = op[t].since /\ OnList(o) = OnList(op[t])
  BY <1>1, <1>2, GotoIs
<1> HIDE DEF o
<1>4. ~Locked(op[t]) /\ ~OnWay(op[t]) /\ Locked(o) /\ ~OffList(o)
  BY <1>1, <1>3 DEF Locked, OnWay, OffList, Closing
<1>5. /\ k.cur = t /\ Lists(k) /\ Apart(k) /\ k.locks = 0 /\ t \in Ready(k)
      /\ \A l \in EventLists : t \notin ToSet(k.events[l])
  BY <1>1, <1>4, RunsIs
<1>6. SuspendedAs(k, k')
  BY <1>1, <1>5, SuspendedIs
<1>7. Now(k) <= Now(k') /\ Count(k) <= Count(k')
  BY <1>5, <1>6, CountNow DEF SuspendedAs
<1>8. Placed(t, o, k')
  <2>1. InCallOf(o) => InCallOf(op[t])
    BY <1>1, <1>3 DEF InCallOf
  <2> QED
    BY <1>2, <1>3, <1>5, <1>6, <2>1 DEF Placed, SuspendedAs
<1>9. InTime(o, k')
  <2>1. Expired(o) => Expired(op[t])
    BY <1>3 DEF Expired
  <2>2. InTime(o, k)
    BY <1>1, <1>2, <1>3, <2>1, InTimeMoves
  <2> QED
    BY <1>5, <1>6, <1>7, <2>2, InTimeLater DEF SuspendedAs
<1>10. Tested(o, queue'[o.call.q])
  BY <1>3 DEF Tested
<1>11. /\ Lists(k') /\ Apart(k') /\ k'.locks = 1 /\ k'.cur = t
       /\ \A l \in EventLists : ToSet(k'.events[l]) \subseteq ToSet(k.events[l])
  BY <1>5, <1>6 DEF SuspendedAs
<1> QED
  BY <1>1, <1>2, <1>3, <1>4, <1>7, <1>8, <1>9, <1>10, <1>11, SameQueues, TaskGoes

LEMMA TestsWaits ==
    ASSUME Stored, Waiting, NEW t \in Users, Tests(t)
    PROVE  Waiting'
<1> DEFINE pc == IF CanProceed(queue, op[t].call) THEN "unlockTx" ELSE "place"
           o == [op[t] EXCEPT !.pc = pc]
           q == op[t].call.q
<1>1. /\ Runs(t) /\ op[t].pc = "test" /\ k' = k /\ queue' = queue
      /\ idle' = idle /\ expect' = expect /\ Goto(t, pc)
  BY DEF Tests, Going, cpuUnchanged
<1>2. /\ Calling /\ Placed(t, op[t], k) /\ InTime(op[t], k) /\ Tested(op[t], queue[q])
      /\ op[t].call \in QueueCall /\ q \in DOMAIN Queues
  BY <1>1, InCall DEF Stored, Waiting
<1> HIDE DEF pc
<1>3. /\ op' = [op EXCEPT ![t] = o] /\ o.pc = pc /\ o.call = op[t].call
      /\ o.next = op[t].next /\ o.ticks = op[t].ticks /\ o.entry = op[t].entry
      /\ o.since = op[t].since /\ OnList(o) = OnList(op[t])
  BY <1>1, <1>2, GotoIs
<1> HIDE DEF o
<1>4. pc \in {"unlockTx", "place"} /\ (pc = "place" => ~CanProceed(queue, op[t].call))
  BY DEF pc
<1>5. Locked(op[t]) /\ ~OnWay(op[t]) /\ Locked(o) /\ ~OffList(op[t])
  BY <1>1, <1>3, <1>4 DEF Locked, OnWay, OffList, Closing
<1>6. /\ k.cur = t /\ Lists(k) /\ Apart(k) /\ k.locks = 1 /\ t \in Ready(k)
      /\ \A l \in EventLists : t \notin ToSet(k.events[l])
  <2>1. t \in Ready(k)
    BY <1>2, <1>5 DEF Placed
  <2> QED
    BY <1>1, <1>5, <2>1, RunsIs
<1>7. Now(k) <= Now(k') /\ Count(k) <= Count(k')
  BY <1>1, <1>6, CountNow
<1>8. Placed(t, o, k')
  <2>1. InCallOf(o) => InCallOf(op[t])
    BY <1>1, <1>3 DEF InCallOf
  <2> QED
    BY <1>1, <1>2, <1>3, <1>6, <2>1 DEF Placed
<1>9. InTime(o, k')
  <2>1. Expired(o) => Expired(op[t])
    BY <1>3, <1>4 DEF Expired
  <2> QED
    BY <1>1, <1>2, <1>3, <2>1, InTimeMoves
<1>10. Tested(o, queue'[o.call.q])
  <2>1. queue[q].tx \in Nat /\ queue[q].rx \in Nat
    BY <1>1, <1>2 DEF Tested
  <2>2. ASSUME pc = "place"
        PROVE  IF Sends(op[t].call) THEN Spaces(q, queue[q]) <= 0 ELSE Items(queue[q]) <= 0
    <3>1. Counted(q, queue[q])
      BY <1>2 DEF Waiting
    <3>2. /\ queue[q].n \in Nat /\ Size(q) \in Nat
          /\ Max({queue[q].tx, 0}) \in Nat /\ Max({queue[q].rx, 0}) \in Nat
      BY <1>2, <3>1, CountedIs
    <3>3. CASE Sends(op[t].call)
      <4>1. queue[q].n = Size(q)
        BY <1>4, <2>2, <3>3 DEF CanProceed, Full, Size
      <4> QED
        BY <3>2, <3>3, <4>1 DEF Spaces
    <3>4. CASE ~Sends(op[t].call)
      <4>1. queue[q].n = 0
        BY <1>4, <2>2, <3>4 DEF CanProceed, Empty
      <4> QED
        BY <3>2, <3>4, <4>1 DEF Items
    <3> QED
      BY <3>3, <3>4
  <2> QED
    BY <1>1, <1>3, <2>1, <2>2 DEF Tested
<1>11. \A l \in EventLists : ToSet(k'.events[l]) \subseteq ToSet(k.events[l])
  BY <1>1
<1>12. Lists(k') /\ Apart(k') /\ k'.locks = 1 /\ k'.cur = t
  BY <1>1, <1>6
<1> HIDE DEF q
<1> QED
  BY <1>1, <1>2, <1>3, <1>5, <1>7, <1>8, <1>9, <1>10, <1>11, <1>12, SameQueues, TaskGoes

-----------------------------------------------------------------------------
(* xTaskCheckForTimeOut.                                                   *)

LEMMA MoreRounds ==
    ASSUME NEW M \in Nat, NEW a \in Nat, NEW b \in Nat, a < b
    PROVE  a * M + M <= b * M
<1>1. PICK d \in Nat : b = a + 1 + d
  <2>1. b - a - 1 \in Nat /\ b = a + 1 + (b - a - 1)
    OBVIOUS
  <2> QED
    BY <2>1
<1>2. b * M = a * M + M + d * M
  BY <1>1
<1>3. d * M \in Nat /\ a * M \in Nat
  OBVIOUS
<1> QED
  BY <1>2, <1>3

\* The ticks since the entry are no fewer than the difference of the two counts.
LEMMA ElapsedIs ==
    ASSUME NEW M \in Nat \ {0}, NEW e \in Nat, NEW f \in 0 .. M - 1,
           NEW v \in Nat, NEW t \in 0 .. M - 1, e * M + f <= v * M + t
    PROVE  /\ (t + M - f) % M \in 0 .. M - 1
           /\ e * M + f + ((t + M - f) % M) <= v * M + t
           /\ v # e /\ t >= f => e * M + f + M <= v * M + t
<1> DEFINE elapsed == (t + M - f) % M
           E == e * M
           V == v * M
<1>1. elapsed \in 0 .. M - 1 /\ elapsed = IF t >= f THEN t - f ELSE t + M - f
  <2>1. M - f \in 0 .. M
    OBVIOUS
  <2>2. /\ Slot(M, t, M - f) = IF t + (M - f) < M THEN t + (M - f) ELSE t + (M - f) - M
        /\ Slot(M, t, M - f) \in 0 .. M - 1
    BY <2>1, SlotIs
  <2>3. elapsed = Slot(M, t, M - f)
    <3>1. t + M - f = t + (M - f)
      OBVIOUS
    <3> QED
      BY <3>1 DEF Slot
  <2> HIDE DEF elapsed
  <2> QED
    BY <2>2, <2>3
<1>2. E \in Nat /\ V \in Nat
  OBVIOUS
<1>3. v < e => V + M <= E
  BY MoreRounds
<1>4. e < v => E + M <= V
  BY MoreRounds
<1>5. E + f <= V + t
  OBVIOUS
<1>6. v = e => E = V
  OBVIOUS
<1> HIDE DEF elapsed, E, V
<1>7. E + f + elapsed <= V + t
  BY <1>1, <1>2, <1>3, <1>4, <1>5, <1>6
<1>8. v # e /\ t >= f => E + f + M <= V + t
  BY <1>2, <1>3, <1>4, <1>5
<1> QED
  BY <1>1, <1>7, <1>8 DEF elapsed, E, V

\* The wait is over only when its time is; else what is left is counted from now.
LEMMA TimeoutIs ==
    ASSUME NEW x, Lists(x), NEW o, InCallOf(o), InTime(o, x)
    PROVE  LET r == xTaskCheckForTimeOut(x, o.entry, o.ticks)
               entered == r.entry[1] * TickModulus + r.entry[2]
           IN /\ r.ticks \in Ticks /\ r.ticks <= o.call.wait /\ r.entry \in Nat \X Ticks
              /\ entered <= Count(x)
              /\ r.expired \/ r.ticks = 0 => Deadline(o) <= Now(x) /\ o.call.wait # MaxDelay
              /\ r.ticks > 0 => Deadline(o) <= entered + r.ticks
              /\ o.call.wait = MaxDelay => r.ticks = MaxDelay
<1> DEFINE r == xTaskCheckForTimeOut(x, o.entry, o.ticks)
           M == TickModulus
           ticks == o.ticks
           entry == o.entry
           wait == o.call.wait
           elapsed == (x.tick + M - entry[2]) % M
           wrapped == x.overflows # entry[1] /\ x.tick >= entry[2]
           now == <<x.overflows, x.tick>>
           entered == r.entry[1] * M + r.entry[2]
<1>1. /\ ticks \in Ticks /\ ticks <= wait /\ entry \in Nat \X Ticks
      /\ Entered(o) <= Count(x)
      /\ Expired(o) => Deadline(o) <= Now(x) /\ wait # MaxDelay
      /\ ticks > 0 => Deadline(o) <= Entered(o) + ticks
      /\ wait = MaxDelay => ticks = MaxDelay
      /\ o.since \in Nat
  BY DEF InTime
<1>2. /\ wait \in Ticks /\ M \in Nat \ {0} /\ M \in Nat \ {0, 1} /\ MaxDelay = M - 1
      /\ Ticks = 0 .. M - 1
  BY CallWaits, NamesAre DEF InCallOf, MaxDelay, Ticks
<1>3. /\ entry[1] \in Nat /\ entry[2] \in 0 .. M - 1 /\ entry = <<entry[1], entry[2]>>
      /\ x.tick \in 0 .. M - 1 /\ x.overflows \in Nat /\ x.pended \in Nat
  <2>1. entry[1] \in Nat /\ entry[2] \in Ticks /\ entry = <<entry[1], entry[2]>>
    BY <1>1
  <2>2. x.tick \in Ticks /\ x.overflows \in Nat /\ x.pended \in Nat
    BY DEF Lists, Values
  <2> QED
    BY <1>2, <2>1, <2>2
<1>4. /\ Count(x) \in Nat /\ Now(x) = Count(x) + x.pended
      /\ Count(x) = x.overflows * M + x.tick
      /\ Entered(o) = entry[1] * M + entry[2]
  BY CountNow DEF Count, Entered
<1>5. Deadline(o) \in Nat /\ Entered(o) \in Nat
  <2>1. entry[1] * M \in Nat
    BY <1>2, <1>3
  <2> DEFINE a == entry[1] * M
  <2> HIDE DEF a
  <2>2. Entered(o) = a + entry[2] /\ a \in Nat /\ entry[2] \in Nat
    BY <1>3, <1>4, <2>1 DEF a
  <2>3. Entered(o) \in Nat
    BY <2>2
  <2> QED
    BY <1>1, <1>2, <2>3 DEF Deadline
<1>6. /\ elapsed \in 0 .. M - 1 /\ Entered(o) + elapsed <= Count(x)
      /\ wrapped => Entered(o) + M <= Count(x)
  <2>1. entry[1] * M + entry[2] <= x.overflows * M + x.tick
    BY <1>1, <1>4
  <2> DEFINE e == entry[1]
             f == entry[2]
             v == x.overflows
             t == x.tick
  <2>2. e \in Nat /\ f \in 0 .. M - 1 /\ v \in Nat /\ t \in 0 .. M - 1 /\ e * M + f <= v * M + t
    BY <1>3, <2>1
  <2> HIDE DEF e, f, v, t
  <2>3. /\ (t + M - f) % M \in 0 .. M - 1
        /\ e * M + f + ((t + M - f) % M) <= v * M + t
        /\ v # e /\ t >= f => e * M + f + M <= v * M + t
    BY <1>2, <2>2, ElapsedIs
  <2>4. Entered(o) = e * M + f /\ Count(x) = v * M + t
    BY <1>4 DEF e, f, v, t
  <2>5. elapsed = (t + M - f) % M
    BY DEF e, f, v, t
  <2>6. wrapped => v # e /\ t >= f
    BY DEF e, f, v, t
  <2>7. elapsed \in 0 .. M - 1
    BY <2>3, <2>5
  <2>8. Entered(o) + elapsed <= Count(x)
    <3>1. e * M + f + elapsed <= v * M + t
      BY <2>3, <2>5
    <3> HIDE DEF elapsed
    <3> QED
      BY <3>1, <2>4
  <2>9. wrapped => Entered(o) + M <= Count(x)
    <3> HIDE DEF wrapped
    <3> QED
      BY <2>3, <2>4, <2>6
  <2> QED
    BY <2>7, <2>8, <2>9
<1>7. now \in Nat \X Ticks /\ now[1] = x.overflows /\ now[2] = x.tick
  BY <1>2, <1>3
<1>8. CASE ticks = MaxDelay
  <2>1. r.expired = FALSE /\ r.ticks = ticks /\ r.entry = entry
    BY <1>8 DEF xTaskCheckForTimeOut
  <2>2. wait = MaxDelay /\ ticks # 0
    BY <1>1, <1>2, <1>8
  <2> HIDE DEF r
  <2> QED
    BY <1>1, <1>4, <1>8, <2>1, <2>2 DEF r
<1>9. CASE ticks # MaxDelay /\ wrapped
  <2>1. r.expired /\ r.ticks = ticks /\ r.entry = entry
    BY <1>9 DEF xTaskCheckForTimeOut
  <2>2. wait # MaxDelay
    BY <1>1, <1>9
  <2>3. Deadline(o) <= Now(x)
    <3>1. ticks = 0 => Expired(o)
      BY DEF Expired
    <3>2. ticks > 0 => Deadline(o) <= Now(x)
      <4>1. Entered(o) + M <= Count(x)
        BY <1>6, <1>9
      <4>2. ticks \in Nat /\ ticks <= M - 1 /\ M \in Nat
        BY <1>1, <1>2
      <4>3. Count(x) \in Nat /\ Now(x) \in Nat /\ Count(x) <= Now(x)
        BY <1>3, CountNow
      <4>4. ticks > 0 => Deadline(o) <= Entered(o) + ticks
        BY <1>1
      <4> HIDE DEF r, M, ticks, wait, elapsed, wrapped
      <4> QED
        BY <1>5, <4>1, <4>2, <4>3, <4>4
    <3> QED
      BY <1>1, <1>2, <3>1, <3>2
  <2> HIDE DEF r
  <2> QED
    BY <1>1, <1>4, <2>1, <2>2, <2>3 DEF r
<1>10. CASE ticks # MaxDelay /\ ~wrapped /\ elapsed < ticks
  <2>1. r.expired = FALSE /\ r.ticks = ticks - elapsed /\ r.entry = now
    BY <1>10 DEF xTaskCheckForTimeOut
  <2> HIDE DEF r, elapsed, now
  <2>2. r.ticks \in Ticks /\ r.ticks <= wait /\ r.ticks > 0
    <3>1. ticks \in Ticks /\ ticks <= wait
      BY <1>1
    <3>2. wait \in Ticks /\ M \in Nat \ {0} /\ Ticks = 0 .. M - 1
      BY <1>2
    <3>3. elapsed \in 0 .. M - 1 /\ elapsed < ticks /\ r.ticks = ticks - elapsed
      BY <1>6, <1>10, <2>1
    <3> HIDE DEF M, ticks, wait
    <3> QED
      BY <3>1, <3>2, <3>3
  <2>3. entered = Count(x)
    BY <1>4, <1>7, <2>1
  <2>4. Deadline(o) <= entered + r.ticks
    <3>1. Deadline(o) <= Entered(o) + ticks /\ ticks \in Nat /\ elapsed \in Nat
      BY <1>1, <1>2, <1>6, <1>10
    <3> HIDE DEF entered
    <3> QED
      BY <1>4, <1>5, <1>6, <2>1, <2>3, <3>1
  <2>5. wait # MaxDelay
    BY <1>1, <1>10
  <2>6. entered <= Count(x) /\ r.entry \in Nat \X Ticks
    BY <1>4, <1>7, <2>1, <2>3
  <2>7. ~(r.expired \/ r.ticks = 0)
    BY <2>1, <2>2
  <2> QED
    BY <2>2, <2>4, <2>5, <2>6, <2>7 DEF r
<1>11. CASE ticks # MaxDelay /\ ~wrapped /\ ~(elapsed < ticks)
  <2>1. r.expired /\ r.ticks = 0 /\ r.entry = entry
    BY <1>11 DEF xTaskCheckForTimeOut
  <2>2. wait # MaxDelay
    BY <1>1, <1>11
  <2> HIDE DEF r, elapsed
  <2>3. Deadline(o) <= Now(x)
    <3>1. ticks = 0 => Expired(o)
      BY DEF Expired
    <3>2. ticks > 0 => Deadline(o) <= Now(x)
      <4>1. Entered(o) + elapsed <= Count(x) /\ elapsed \in Nat /\ elapsed >= ticks
        <5> HIDE DEF ticks
        <5>1. elapsed \in Nat /\ ticks \in Nat /\ Entered(o) + elapsed <= Count(x)
          BY <1>1, <1>2, <1>6
        <5> QED
          BY <1>11, <5>1
      <4>2. ticks \in Nat /\ Count(x) <= Now(x) /\ Now(x) \in Nat
        <5>1. ticks \in Nat
          BY <1>1, <1>2
        <5>2. Count(x) \in Nat /\ Now(x) = Count(x) + x.pended /\ x.pended \in Nat
          BY <1>3, <1>4
        <5> QED
          BY <5>1, <5>2
      <4> HIDE DEF ticks, wait, wrapped
      <4> QED
        BY <1>1, <1>4, <1>5, <4>1, <4>2
    <3> QED
      BY <1>1, <1>2, <3>1, <3>2
  <2>4. 0 \in Ticks /\ 0 <= wait
    BY <1>2
  <2> QED
    BY <1>1, <1>4, <2>1, <2>2, <2>3, <2>4 DEF r
<1> QED
  BY <1>8, <1>9, <1>10, <1>11

-----------------------------------------------------------------------------
(* The steps of a call with the scheduler suspended.                       *)

\* prvLockQueue counts nothing yet.
LEMMA LockedIs ==
    ASSUME NEW q \in DOMAIN Queues, NEW c, IsQueue(c), Counted(q, c)
    PROVE  LET d == prvLockQueue(c)
           IN /\ Counted(q, d) /\ Items(d) = Items(c) /\ Spaces(q, d) = Spaces(q, c)
              /\ d.tx \in Nat /\ d.rx \in Nat
<1> DEFINE d == prvLockQueue(c)
<1>1. /\ d.n = c.n /\ d.holder = c.holder
      /\ d.rx = (IF c.rx = Unlocked THEN LockedUnmodified ELSE c.rx)
      /\ d.tx = (IF c.tx = Unlocked THEN LockedUnmodified ELSE c.tx)
  BY DEF IsQueue, prvLockQueue
<1> HIDE DEF d
<1>2. c.tx \in Nat \cup {-1} /\ c.rx \in Nat \cup {-1}
  BY DEF Counted, Unlocked
<1>3. d.tx \in Nat /\ d.rx \in Nat
  BY <1>1, <1>2 DEF Unlocked, LockedUnmodified
<1>4. Counted(q, d)
  BY <1>1, <1>3 DEF Counted
<1>5. /\ d.tx = (IF c.tx >= 0 THEN c.tx ELSE 0) /\ d.rx = (IF c.rx >= 0 THEN c.rx ELSE 0)
  BY <1>1, <1>2 DEF Unlocked, LockedUnmodified
<1>6. Max({d.tx, 0}) = Max({c.tx, 0}) /\ Max({d.rx, 0}) = Max({c.rx, 0})
  <2>1. Max({c.tx, 0}) = d.tx /\ Max({c.rx, 0}) = d.rx
    BY <1>5, CountedIs
  <2>2. Max({d.tx, 0}) = d.tx /\ Max({d.rx, 0}) = d.rx
    BY <1>3, <1>4, CountedIs
  <2> QED
    BY <2>1, <2>2
<1>7. Items(d) = Items(c) /\ Spaces(q, d) = Spaces(q, c)
  BY <1>1, <1>6 DEF Items, Spaces
<1> QED
  BY <1>3, <1>4, <1>7 DEF d

\* One structure is another one, which has as many items and spaces.
LEMMA QueueAsMany ==
    ASSUME Formed, Waiting, NEW q \in DOMAIN Queues, NEW c, queue' = [queue EXCEPT ![q] = c],
           Counted(q, c), Items(c) = Items(queue[q]), Spaces(q, c) = Spaces(q, queue[q])
    PROVE  /\ queue'[q] = c
           /\ \A r \in DOMAIN Queues : /\ Counted(r, queue'[r])
                                       /\ Items(queue'[r]) = Items(queue[r])
                                       /\ Spaces(r, queue'[r]) = Spaces(r, queue[r])
<1>1. \A r \in DOMAIN Queues : queue'[r] = IF r = q THEN c ELSE queue[r]
  BY DEF Formed
<1>2. \A r \in DOMAIN Queues : Counted(r, queue[r])
  BY DEF Waiting
<1> QED
  BY <1>1, <1>2

\* A task that executes with the scheduler suspended.
LEMMA LockedRuns ==
    ASSUME Waiting, NEW t \in Users, Runs(t), Locked(op[t])
    PROVE  /\ k.cur = t /\ Lists(k) /\ Apart(k) /\ k.locks = 1
           /\ ~OffList(op[t]) => /\ t \in Ready(k)
                                 /\ \A l \in EventLists : t \notin ToSet(k.events[l])
           /\ Now(k) \in Nat /\ Count(k) \in Nat
<1>1. k.cur = t /\ Lists(k) /\ Apart(k) /\ k.locks = 1
  BY RunsIs
<1>2. ~OffList(op[t]) => t \in Ready(k)
  BY DEF Waiting, Placed
<1>3. Now(k) \in Nat /\ Count(k) \in Nat
  BY <1>1, CountNow
<1> QED
  BY <1>1, <1>2, <1>3, RunsIs

LEMMA LocksWaits ==
    ASSUME Stored, Waiting, NEW t \in Users, LocksAndChecks(t)
    PROVE  Waiting'
<1> DEFINE p == op[t]
           q == op[t].call.q
           c == prvLockQueue(queue[q])
           r == xTaskCheckForTimeOut(k, op[t].entry, op[t].ticks)
           o == [op[t] EXCEPT !.ticks = r.ticks, !.entry = r.entry,
                              !.pc = IF r.expired THEN "unlockTx" ELSE "test",
                              !.next = IF r.expired THEN "expired" ELSE "retry"]
<1>1. /\ Runs(t) /\ p.pc = "lock" /\ k' = k /\ queue' = [queue EXCEPT ![q] = c]
      /\ idle' = idle /\ expect' = expect /\ op' = [op EXCEPT ![t] = o]
  <2>1. queue' = [queue EXCEPT ![q] = c]
    BY DEF LocksAndChecks
  <2>2. op' = [op EXCEPT ![t] = o]
    BY DEF LocksAndChecks
  <2> QED
    BY <2>1, <2>2 DEF LocksAndChecks, Going, cpuUnchanged
<1>2. /\ Calling /\ Formed /\ Placed(t, p, k) /\ InTime(p, k)
      /\ p.call \in QueueCall /\ q \in DOMAIN Queues /\ IsOp(p)
  BY <1>1, InCall DEF Stored, Waiting
<1>3. /\ o.pc = (IF r.expired THEN "unlockTx" ELSE "test")
      /\ o.next = (IF r.expired THEN "expired" ELSE "retry")
      /\ o.call = p.call /\ o.since = p.since /\ o.ticks = r.ticks /\ o.entry = r.entry
  <2> HIDE DEF r
  <2> QED
    BY <1>2 DEF IsOp
<1> HIDE DEF o, c, r
<1>4. Locked(p) /\ ~OffList(p) /\ ~OnWay(p) /\ Locked(o) /\ InCallOf(p) /\ InCallOf(o)
  BY <1>1, <1>2, <1>3 DEF Locked, OnWay, OffList, Closing, InCallOf
<1>5. /\ k.cur = t /\ Lists(k) /\ Apart(k) /\ k.locks = 1 /\ t \in Ready(k)
      /\ \A l \in EventLists : t \notin ToSet(k.events[l])
      /\ Now(k) \in Nat /\ Count(k) \in Nat
  BY <1>1, <1>4, LockedRuns
<1>6. Placed(t, o, k')
  BY <1>1, <1>2, <1>3, <1>4, <1>5 DEF Placed
<1>7. InTime(o, k')
  <2>1. LET entered == r.entry[1] * TickModulus + r.entry[2]
        IN /\ r.ticks \in Ticks /\ r.ticks <= p.call.wait /\ r.entry \in Nat \X Ticks
           /\ entered <= Count(k)
           /\ r.expired \/ r.ticks = 0 => Deadline(p) <= Now(k) /\ p.call.wait # MaxDelay
           /\ r.ticks > 0 => Deadline(p) <= entered + r.ticks
           /\ p.call.wait = MaxDelay => r.ticks = MaxDelay
    BY <1>2, <1>4, <1>5, TimeoutIs DEF r
  <2>2. Entered(o) = r.entry[1] * TickModulus + r.entry[2]
    BY <1>3 DEF Entered
  <2>3. Deadline(o) = Deadline(p)
    BY <1>3 DEF Deadline
  <2>4. Expired(o) => r.expired \/ r.ticks = 0
    BY <1>3 DEF Expired
  <2>5. p.since \in Nat /\ p.since <= Now(k)
    BY <1>2, <1>4 DEF InTime
  <2> QED
    BY <1>1, <1>3, <2>1, <2>2, <2>3, <2>4, <2>5 DEF InTime
<1>8. /\ Counted(q, c) /\ Items(c) = Items(queue[q]) /\ Spaces(q, c) = Spaces(q, queue[q])
      /\ c.tx \in Nat /\ c.rx \in Nat
  <2>1. IsQueue(queue[q]) /\ Counted(q, queue[q])
    BY <1>2 DEF Formed, Waiting
  <2> HIDE DEF q
  <2> QED
    BY <1>2, <2>1, LockedIs DEF c
<1>9. /\ queue'[q] = c
      /\ \A s \in DOMAIN Queues : /\ Counted(s, queue'[s])
                                  /\ Items(queue'[s]) = Items(queue[s])
                                  /\ Spaces(s, queue'[s]) = Spaces(s, queue[s])
  <2> HIDE DEF q
  <2> QED
    BY <1>1, <1>2, <1>8, QueueAsMany
<1>10. Tested(o, queue'[o.call.q])
  <2>1. o.pc # "place"
    BY <1>3
  <2>2. queue'[o.call.q] = c
    BY <1>3, <1>9
  <2> QED
    BY <1>8, <2>1, <2>2 DEF Tested
<1>11. \A l \in EventLists : ToSet(k'.events[l]) \subseteq ToSet(k.events[l])
  BY <1>1
<1>12. Lists(k') /\ Apart(k') /\ k'.locks = 1 /\ k'.cur = t
  BY <1>1, <1>5
<1>13. Now(k) <= Now(k') /\ Count(k) <= Count(k')
  BY <1>1, <1>5
<1> HIDE DEF q, p
<1>14. ~OnWay(op[t])
  BY <1>4 DEF p
<1> QED
  BY <1>1, <1>2, <1>4, <1>6, <1>7, <1>9, <1>10, <1>11, <1>12, <1>13, <1>14, TaskGoes

\* A list that nobody leaves but who is woken.
LEMMA NobodyStops ==
    ASSUME Waiting, Lists(k'), NEW l \in EventLists, NEW m \in Int, NEW n \in Int,
           k.events[l] # <<>> => m <= Cardinality(Bound(op, k, l)),
           ToSet(k'.events[l]) \subseteq ToSet(k.events[l]), Stops(l) = {}, n <= m
    PROVE  k'.events[l] # <<>> => n <= Cardinality(Bound(op', k', l))
<1>1. Lists(k)
  BY DEF Waiting, Core
<1>2. Cardinality(Leaves(l)) \in Nat /\ Cardinality(Stops(l)) = 0
  BY <1>1, LeavesAre
<1>3. Leaves(l) \cap Stops(l) = {}
  OBVIOUS
<1>4. n <= m + Cardinality(Leaves(l)) - Cardinality(Stops(l))
  BY <1>2
<1> QED
  BY <1>3, <1>4, ListAwake

\* Only the place of one task in its call changes, and it was not on its way.
LEMMA StopsNone ==
    ASSUME Calling, NEW t \in Users, NEW o, op' = [op EXCEPT ![t] = o], ~OnWay(op[t])
    PROVE  \A l \in EventLists : Stops(l) = {}
<1>1. \A u \in Users : u # t => op'[u] = op[u]
  BY DEF Calling
<1> QED
  BY <1>1 DEF Stops

LEMMA BoundIs ==
    ASSUME NEW ops, NEW x, NEW l
    PROVE  Cardinality(Bound(ops, x, l)) \in Nat
<1>1. Bound(ops, x, l) \subseteq Users
  BY DEF Bound
<1> DEFINE b == Bound(ops, x, l)
<1> HIDE DEF b
<1>2. IsFiniteSet(b)
  BY <1>1, NamesAre, FS_Subset DEF b
<1>3. Cardinality(b) \in Nat
  BY <1>2, FS_CardinalityType
<1> QED
  BY <1>3 DEF b

LEMMA PlacesWaits ==
    ASSUME Stored, Waiting, NEW t \in Users, Places(t)
    PROVE  Waiting'
<1> DEFINE p == op[t]
           q == op[t].call.q
           lends == Takes(op[t].call) /\ IsMutex(q)
           holder == queue[q].holder
           lent == IF lends THEN xTaskPriorityInherit(k, holder) ELSE k
           list == OnList(op[t])
           o == [op[t] EXCEPT !.pc = "unlockTx", !.next = "blocked",
                    !.inherited = IF lends THEN InheritanceOccurred(k, holder) ELSE @]
<1>1. /\ Runs(t) /\ p.pc = "place" /\ queue' = queue
      /\ idle' = idle /\ expect' = expect /\ op' = [op EXCEPT ![t] = o]
      /\ k' = vTaskPlaceOnEventList(lent, list, op[t].ticks)
  <2>1. op' = [op EXCEPT ![t] = o]
    BY DEF Places
  <2>2. k' = vTaskPlaceOnEventList(lent, list, op[t].ticks)
    BY DEF Places, OnList
  <2>3. Going(t, "place") /\ queue' = queue /\ cpuUnchanged
    BY DEF Places
  <2> HIDE DEF o, list, lent
  <2> QED
    BY <2>1, <2>2, <2>3 DEF Going, cpuUnchanged
<1>2. /\ Calling /\ Placed(t, p, k) /\ InTime(p, k) /\ Tested(p, queue[q])
      /\ p.call \in QueueCall /\ q \in DOMAIN Queues /\ IsOp(p)
  BY <1>1, InCall DEF Stored, Waiting
<1>3. /\ o.pc = "unlockTx" /\ o.next = "blocked"
      /\ o.call = p.call /\ o.since = p.since /\ o.ticks = p.ticks /\ o.entry = p.entry
  BY <1>2 DEF IsOp
<1> HIDE DEF o
<1>4. Locked(p) /\ ~OffList(p) /\ ~OnWay(p) /\ Locked(o) /\ OffList(o) /\ OnWay(o)
      /\ InCallOf(p) /\ InCallOf(o) /\ OnList(o) = list
  BY <1>1, <1>2, <1>3 DEF Locked, OnWay, OffList, Closing, InCallOf, OnList
<1>5. /\ k.cur = t /\ Lists(k) /\ Apart(k) /\ k.locks = 1 /\ t \in Ready(k)
      /\ \A l \in EventLists : t \notin ToSet(k.events[l])
      /\ Now(k) \in Nat /\ Count(k) \in Nat
  BY <1>1, <1>4, LockedRuns
<1>6. Kept(k, lent)
  <2>1. holder \in Users \cup {NoTask}
    BY <1>2 DEF Waiting, Counted
  <2>2. k.cur \in Tasks
    BY <1>5, NamesAre
  <2> HIDE DEF holder, lends
  <2>3. Kept(k, xTaskPriorityInherit(k, holder))
    BY <1>5, <2>1, <2>2, InheritIs
  <2> QED
    BY <1>5, <2>3, KeptNone
<1> HIDE DEF lent
<1>7. /\ Lists(lent) /\ Apart(lent) /\ lent.cur = t /\ lent.locks = 1 /\ t \in Ready(lent)
      /\ lent.events = k.events /\ SameTime(k, lent)
  BY <1>5, <1>6 DEF Kept, Readied
<1>8. list \in EventLists /\ op[t].ticks \in Nat
  <2>1. list \in EventLists
    BY <1>2, CallWaits DEF OnList
  <2>2. op[t].ticks \in Ticks
    BY <1>2, <1>4 DEF InTime
  <2> QED
    BY <2>1, <2>2, NamesAre DEF Ticks
<1> HIDE DEF list
<1>9. /\ Lists(k') /\ Apart(k') /\ k'.cur = t /\ k'.locks = 1 /\ SameTime(lent, k')
      /\ \A l \in EventLists \ {list} : k'.events[l] = k.events[l]
      /\ ToSet(k'.events[list]) = ToSet(k.events[list]) \cup {t}
  <2> DEFINE y == vTaskPlaceOnEventList(lent, list, op[t].ticks)
  <2>1. /\ Lists(y) /\ Apart(y) /\ y.cur = lent.cur /\ y.locks = lent.locks
        /\ SameTime(lent, y)
        /\ \A l \in EventLists \ {list} : y.events[l] = lent.events[l]
        /\ ToSet(y.events[list]) = ToSet(lent.events[list]) \cup {lent.cur}
    BY <1>7, <1>8, PlacedIs
  <2>2. k' = y
    BY <1>1
  <2> HIDE DEF y
  <2> QED
    BY <1>7, <2>1, <2>2
<1>10. Now(k) = Now(k') /\ Count(k) = Count(k')
  BY <1>5, <1>7, <1>9, SameTimeCount DEF SameTime
<1>11. Placed(t, o, k')
  BY <1>2, <1>3, <1>4, <1>5, <1>9 DEF Placed
<1>12. InTime(o, k')
  <2>1. Expired(o) => Expired(p)
    BY <1>3 DEF Expired
  <2>2. InTime(o, k)
    BY <1>1, <1>2, <1>3, <2>1, InTimeMoves
  <2> QED
    BY <1>5, <1>9, <1>10, <2>2, InTimeLater
<1>13. Tested(o, queue'[o.call.q])
  BY <1>3 DEF Tested
<1>14. \A l \in EventLists : ToSet(k'.events[l]) \subseteq ToSet(k.events[l]) \cup {t}
  BY <1>9
<1>15. /\ Core'
       /\ \A u \in Users : /\ Placed(u, op'[u], k') /\ InTime(op'[u], k')
                           /\ Tested(op'[u], queue'[op'[u].call.q])
  <2>1. Now(k) <= Now(k') /\ Count(k) <= Count(k')
    BY <1>5, <1>10
  <2> HIDE DEF p, q
  <2> QED
    BY <1>1, <1>2, <1>4, <1>9, <1>11, <1>12, <1>13, <1>14, <2>1, TaskKept
<1>16. ASSUME NEW s \in DOMAIN Queues
       PROVE  Counted(s, queue'[s]) /\ Awake(op', k', s, queue'[s])
  <2>1. Counted(s, queue[s]) /\ Awake(op, k, s, queue[s]) /\ queue'[s] = queue[s]
    BY <1>1 DEF Waiting
  <2>2. Items(queue[s]) \in Int /\ Spaces(s, queue[s]) \in Int
    BY <2>1, CountedIs
  <2>3. \A l \in EventLists : Stops(l) = {}
    BY <1>1, <1>2, <1>4, StopsNone
  <2>4. \A l \in EventLists \ {list} : ToSet(k'.events[l]) \subseteq ToSet(k.events[l])
    BY <1>9
  <2>5. SendList(s) \in EventLists /\ ReceiveList(s) \in EventLists
    BY ListsDiffer
  <2>6. k'.events[ReceiveList(s)] # <<>> =>
            Items(queue[s]) <= Cardinality(Bound(op', k', ReceiveList(s)))
    <3>1. CASE list = ReceiveList(s)
      <4>1. ~Sends(p.call) /\ s = q
        BY <1>2, <3>1, ListsDiffer DEF OnList, list
      <4>2. Items(queue[s]) <= 0
        BY <1>1, <1>2, <4>1 DEF Tested
      <4>3. Cardinality(Bound(op', k', ReceiveList(s))) \in Nat
        BY BoundIs
      <4> QED
        BY <2>2, <4>2, <4>3
    <3>2. CASE list # ReceiveList(s)
      <4> DEFINE m == Items(queue[s])
      <4>1. m \in Int /\ m <= m
        BY <2>2
      <4>2. k.events[ReceiveList(s)] # <<>> => m <= Cardinality(Bound(op, k, ReceiveList(s)))
        BY <2>1 DEF Awake
      <4> HIDE DEF m
      <4>3. k'.events[ReceiveList(s)] # <<>> => m <= Cardinality(Bound(op', k', ReceiveList(s)))
        BY <1>9, <2>3, <2>4, <2>5, <3>2, <4>1, <4>2, NobodyStops
      <4> QED
        BY <4>3 DEF m
    <3> QED
      BY <3>1, <3>2
  <2>7. k'.events[SendList(s)] # <<>> =>
            Spaces(s, queue[s]) <= Cardinality(Bound(op', k', SendList(s)))
    <3>1. CASE list = SendList(s)
      <4>1. Sends(p.call) /\ s = q
        BY <1>2, <3>1, ListsDiffer DEF OnList, list
      <4>2. Spaces(s, queue[s]) <= 0
        BY <1>1, <1>2, <4>1 DEF Tested
      <4>3. Cardinality(Bound(op', k', SendList(s))) \in Nat
        BY BoundIs
      <4> QED
        BY <2>2, <4>2, <4>3
    <3>2. CASE list # SendList(s)
      <4> DEFINE m == Spaces(s, queue[s])
      <4>1. m \in Int /\ m <= m
        BY <2>2
      <4>2. k.events[SendList(s)] # <<>> => m <= Cardinality(Bound(op, k, SendList(s)))
        BY <2>1 DEF Awake
      <4> HIDE DEF m
      <4>3. k'.events[SendList(s)] # <<>> => m <= Cardinality(Bound(op', k', SendList(s)))
        BY <1>9, <2>3, <2>4, <2>5, <3>2, <4>1, <4>2, NobodyStops
      <4> QED
        BY <4>3 DEF m
    <3> QED
      BY <3>1, <3>2
  <2> QED
    BY <2>1, <2>6, <2>7 DEF Awake
<1> QED
  BY <1>15, <1>16 DEF Waiting

\* What a step may add to what is there, and to the space: what it has tasks
\* woken for.
Answered(l, old, new) ==
    /\ Leaves(l) \cap Stops(l) = {}
    /\ new <= 0 \/ new <= old + Cardinality(Leaves(l)) - Cardinality(Stops(l))

LEMMA AwakeIs ==
    ASSUME Waiting, Lists(k'), NEW q \in DOMAIN Queues, Counted(q, queue'[q]),
           ToSet(k'.events[ReceiveList(q)]) \subseteq ToSet(k.events[ReceiveList(q)]),
           ToSet(k'.events[SendList(q)]) \subseteq ToSet(k.events[SendList(q)]),
           k'.events[ReceiveList(q)] # <<>> =>
                Answered(ReceiveList(q), Items(queue[q]), Items(queue'[q])),
           k'.events[SendList(q)] # <<>> =>
                Answered(SendList(q), Spaces(q, queue[q]), Spaces(q, queue'[q]))
    PROVE  Awake(op', k', q, queue'[q])
<1> DEFINE R == ReceiveList(q)
           S == SendList(q)
           i == Items(queue[q])
           j == Items(queue'[q])
           m == Spaces(q, queue[q])
           n == Spaces(q, queue'[q])
<1>1. R \in EventLists /\ S \in EventLists
  BY ListsDiffer
<1>2. Counted(q, queue[q]) /\ Awake(op, k, q, queue[q])
  BY DEF Waiting
<1>3. i \in Int /\ m \in Int
  BY <1>2, CountedIs
<1>4. j \in Int /\ n \in Int
  BY CountedIs
<1>5. k.events[R] # <<>> => i <= Cardinality(Bound(op, k, R))
  BY <1>2 DEF Awake
<1>6. k.events[S] # <<>> => m <= Cardinality(Bound(op, k, S))
  BY <1>2 DEF Awake
<1>7. /\ k'.events[R] # <<>> => Answered(R, i, j)
      /\ k'.events[S] # <<>> => Answered(S, m, n)
      /\ ToSet(k'.events[R]) \subseteq ToSet(k.events[R])
      /\ ToSet(k'.events[S]) \subseteq ToSet(k.events[S])
  OBVIOUS
<1> HIDE DEF R, S, i, j, m, n
<1>8. ASSUME k'.events[R] # <<>>
      PROVE  j <= Cardinality(Bound(op', k', R))
  <2>1. Leaves(R) \cap Stops(R) = {}
    BY <1>7, <1>8 DEF Answered
  <2>2. j <= 0 \/ j <= i + Cardinality(Leaves(R)) - Cardinality(Stops(R))
    BY <1>7, <1>8 DEF Answered
  <2> QED
    BY <1>1, <1>3, <1>4, <1>5, <1>7, <1>8, <2>1, <2>2, ListAwake
<1>9. ASSUME k'.events[S] # <<>>
      PROVE  n <= Cardinality(Bound(op', k', S))
  <2>1. Leaves(S) \cap Stops(S) = {}
    BY <1>7, <1>9 DEF Answered
  <2>2. n <= 0 \/ n <= m + Cardinality(Leaves(S)) - Cardinality(Stops(S))
    BY <1>7, <1>9 DEF Answered
  <2> QED
    BY <1>1, <1>3, <1>4, <1>6, <1>7, <1>9, <2>1, <2>2, ListAwake
<1> QED
  BY <1>8, <1>9 DEF Awake, R, S, j, n

\* Nobody stops, and nothing is new.
LEMMA AnsweredSame ==
    ASSUME Waiting, Lists(k'), NEW l \in EventLists, Stops(l) = {}, NEW n \in Int
    PROVE  Answered(l, n, n)
<1>1. Lists(k)
  BY DEF Waiting, Core
<1>2. Cardinality(Leaves(l)) \in Nat /\ Cardinality(Stops(l)) = 0
  BY <1>1, LeavesAre
<1> QED
  BY <1>2 DEF Answered

\* prvUnlockQueue, either critical section, as far as the task that executes goes.
LEMMA UnlockGoes ==
    ASSUME Stored, Waiting, NEW t \in Users, Runs(t),
           op[t].pc \in {"unlockTx", "unlockRx"}, NEW pc \in {"unlockRx", "resume"},
           Goto(t, pc), UNCHANGED <<idle, expect>>,
           NEW list \in EventLists, NEW count \in Int, k' = UnlockWakes(k, list, count)
    PROVE  /\ Core'
           /\ \A u \in Users : /\ Placed(u, op'[u], k') /\ InTime(op'[u], k')
                               /\ Tested(op'[u], queue'[op'[u].call.q])
           /\ \A l \in EventLists : /\ Stops(l) = {}
                                    /\ ToSet(k'.events[l]) \subseteq ToSet(k.events[l])
           /\ k'.events[list] # <<>> => Cardinality(Leaves(list)) = Max({count, 0})
<1> DEFINE p == op[t]
           o == [op[t] EXCEPT !.pc = pc]
<1>1. /\ Calling /\ Placed(t, p, k) /\ InTime(p, k) /\ p.call \in QueueCall
  BY InCall DEF Stored, Waiting
<1>2. /\ op' = [op EXCEPT ![t] = o] /\ o.pc = pc /\ o.call = op[t].call
      /\ o.next = op[t].next /\ o.ticks = op[t].ticks /\ o.entry = op[t].entry
      /\ o.since = op[t].since /\ OnList(o) = OnList(op[t])
  BY <1>1, GotoIs
<1> HIDE DEF o
<1>3. Locked(p) /\ Locked(o) /\ (OffList(o) <=> OffList(p)) /\ (OnWay(o) <=> OnWay(p))
      /\ InCallOf(p) /\ InCallOf(o)
  BY <1>1, <1>2 DEF Locked, OnWay, OffList, Closing, InCallOf
<1>4. /\ k.cur = t /\ Lists(k) /\ Apart(k) /\ k.locks = 1
      /\ ~OffList(p) => t \in Ready(k)
      /\ Now(k) \in Nat /\ Count(k) \in Nat
  BY <1>3, LockedRuns
<1> DEFINE y == UnlockWakes(k, list, count)
           gone == ToSet(k.events[list]) \ ToSet(y.events[list])
<1>5. /\ Readied(k, y) /\ SameTime(k, y)
      /\ \A l \in EventLists \ {list} : y.events[l] = k.events[l]
      /\ y.events[list] # <<>> => Cardinality(gone) = Max({count, 0})
  BY <1>4, UnlockedIs
<1>6. k' = y
  OBVIOUS
<1> HIDE DEF y
<1>7. /\ Lists(k') /\ Apart(k') /\ k'.cur = t /\ k'.locks = 1 /\ Ready(k) \subseteq Ready(k')
      /\ \A l \in EventLists : ToSet(k'.events[l]) \subseteq ToSet(k.events[l])
      /\ SameTime(k, k')
  BY <1>4, <1>5, <1>6 DEF Readied
<1>8. Now(k) = Now(k') /\ Count(k) = Count(k')
  BY <1>7, SameTimeCount
<1>9. Placed(t, o, k')
  BY <1>1, <1>2, <1>3, <1>4, <1>7 DEF Placed
<1>10. InTime(o, k')
  <2>1. Expired(o) => Expired(p)
    BY <1>2 DEF Expired
  <2>2. InTime(o, k)
    BY <1>1, <1>2, <2>1, InTimeMoves
  <2> QED
    BY <1>4, <1>7, <1>8, <2>2, InTimeLater
<1>11. Tested(o, queue'[o.call.q])
  BY <1>2 DEF Tested
<1>12. /\ Core'
       /\ \A u \in Users : /\ Placed(u, op'[u], k') /\ InTime(op'[u], k')
                           /\ Tested(op'[u], queue'[op'[u].call.q])
  <2>1. Now(k) <= Now(k') /\ Count(k) <= Count(k')
    BY <1>4, <1>8
  <2>2. \A l \in EventLists : ToSet(k'.events[l]) \subseteq ToSet(k.events[l]) \cup {t}
    BY <1>7
  <2> HIDE DEF p
  <2> QED
    BY <1>1, <1>2, <1>3, <1>7, <1>9, <1>10, <1>11, <2>1, <2>2, TaskKept
<1>13. \A l \in EventLists : Stops(l) = {}
  <2>1. \A u \in Users : op'[u] = IF u = t THEN o ELSE op[u]
    BY <1>1, <1>2 DEF Calling
  <2> QED
    BY <1>2, <1>3, <2>1 DEF Stops
<1>14. gone = Leaves(list)
  BY <1>6 DEF Leaves
<1> QED
  BY <1>5, <1>6, <1>7, <1>12, <1>13, <1>14

LEMMA UnlocksTxWaits ==
    ASSUME Stored, Waiting, NEW t \in Users, UnlocksTx(t)
    PROVE  Waiting'
<1> DEFINE q == op[t].call.q
           c == queue[q]
           d == [c EXCEPT !.tx = Unlocked]
<1>1. /\ Runs(t) /\ op[t].pc = "unlockTx" /\ Goto(t, "unlockRx")
      /\ idle' = idle /\ expect' = expect
      /\ k' = UnlockWakes(k, ReceiveList(q), c.tx)
      /\ queue' = [queue EXCEPT ![q] = d]
  BY DEF UnlocksTx, Going, cpuUnchanged
<1>2. Formed /\ q \in DOMAIN Queues /\ IsQueue(c) /\ Counted(q, c)
  BY <1>1, InCall DEF Stored, Waiting, Formed
<1>3. ReceiveList(q) \in EventLists /\ SendList(q) \in EventLists /\ c.tx \in Int
  BY <1>2, ListsDiffer, CountedIs
<1>4. d.n = c.n /\ d.holder = c.holder /\ d.rx = c.rx /\ d.tx = -1
  BY <1>2 DEF IsQueue, Unlocked
<1> HIDE DEF c, d
<1>5. /\ Core'
      /\ \A u \in Users : /\ Placed(u, op'[u], k') /\ InTime(op'[u], k')
                          /\ Tested(op'[u], queue'[op'[u].call.q])
      /\ \A l \in EventLists : /\ Stops(l) = {}
                               /\ ToSet(k'.events[l]) \subseteq ToSet(k.events[l])
      /\ k'.events[ReceiveList(q)] # <<>> =>
            Cardinality(Leaves(ReceiveList(q))) = Max({c.tx, 0})
  <2> HIDE DEF q
  <2> QED
    BY <1>1, <1>3, UnlockGoes
<1>6. Lists(k) /\ Lists(k')
  BY <1>5 DEF Waiting, Core
<1>7. \A s \in DOMAIN Queues : queue'[s] = IF s = q THEN d ELSE queue[s]
  BY <1>1, <1>2 DEF Formed
<1>8. ASSUME NEW s \in DOMAIN Queues, s # q
      PROVE  Counted(s, queue'[s]) /\ Awake(op', k', s, queue'[s])
  <2>1. queue'[s] = queue[s] /\ Counted(s, queue[s])
    BY <1>7, <1>8 DEF Waiting
  <2>2. Items(queue[s]) \in Int /\ Spaces(s, queue[s]) \in Int
    BY <2>1, CountedIs
  <2>3. SendList(s) \in EventLists /\ ReceiveList(s) \in EventLists
    BY ListsDiffer
  <2>4. /\ Answered(ReceiveList(s), Items(queue[s]), Items(queue[s]))
        /\ Answered(SendList(s), Spaces(s, queue[s]), Spaces(s, queue[s]))
    BY <1>5, <1>6, <2>2, <2>3, AnsweredSame
  <2> QED
    BY <1>5, <1>6, <2>1, <2>3, <2>4, AwakeIs
<1>9. Counted(q, d) /\ Awake(op', k', q, d)
  <2>1. Counted(q, d)
    BY <1>2, <1>4 DEF Counted, Unlocked
  <2>2. /\ Items(c) \in Int /\ Spaces(q, c) \in Int /\ Max({c.tx, 0}) \in Nat /\ c.n \in Nat
        /\ Size(q) \in Nat /\ Max({d.tx, 0}) = 0
    <3>1. Max({d.tx, 0}) = (IF d.tx >= 0 THEN d.tx ELSE 0)
      BY <1>2, <2>1, CountedIs
    <3>2. /\ Items(c) \in Int /\ Spaces(q, c) \in Int /\ Max({c.tx, 0}) \in Nat
          /\ Max({c.rx, 0}) \in Nat /\ c.n \in Nat /\ Size(q) \in Nat
      BY <1>2, CountedIs
    <3>3. Max({d.tx, 0}) = 0
      BY <1>4, <3>1
    <3> QED
      BY <3>2, <3>3
  <2>3. Items(d) = Items(c) + Max({c.tx, 0}) /\ Spaces(q, d) = Spaces(q, c)
    BY <1>4, <2>2 DEF Items, Spaces
  <2>4. k'.events[ReceiveList(q)] # <<>> => Answered(ReceiveList(q), Items(c), Items(d))
    <3>1. Cardinality(Stops(ReceiveList(q))) = 0
      BY <1>3, <1>5, <1>6, LeavesAre
    <3> QED
      BY <1>3, <1>5, <2>2, <2>3, <3>1 DEF Answered
  <2>5. Answered(SendList(q), Spaces(q, c), Spaces(q, d))
    BY <1>3, <1>5, <1>6, <2>2, <2>3, AnsweredSame
  <2>6. queue[q] = c /\ queue'[q] = d
    BY <1>2, <1>7 DEF c
  <2> HIDE DEF q
  <2>7. Awake(op', k', q, queue'[q])
    BY <1>2, <1>3, <1>5, <1>6, <2>1, <2>4, <2>5, <2>6, AwakeIs
  <2> QED
    BY <2>1, <2>6, <2>7
<1>10. \A s \in DOMAIN Queues : Counted(s, queue'[s]) /\ Awake(op', k', s, queue'[s])
  BY <1>7, <1>8, <1>9
<1> QED
  BY <1>5, <1>10 DEF Waiting
LEMMA UnlocksRxWaits ==
    ASSUME Stored, Waiting, NEW t \in Users, UnlocksRx(t)
    PROVE  Waiting'
<1> DEFINE q == op[t].call.q
           c == queue[q]
           d == [c EXCEPT !.rx = Unlocked]
<1>1. /\ Runs(t) /\ op[t].pc = "unlockRx" /\ Goto(t, "resume")
      /\ idle' = idle /\ expect' = expect
      /\ k' = UnlockWakes(k, SendList(q), c.rx)
      /\ queue' = [queue EXCEPT ![q] = d]
  BY DEF UnlocksRx, Going, cpuUnchanged
<1>2. Formed /\ q \in DOMAIN Queues /\ IsQueue(c) /\ Counted(q, c)
  BY <1>1, InCall DEF Stored, Waiting, Formed
<1>3. SendList(q) \in EventLists /\ ReceiveList(q) \in EventLists /\ c.rx \in Int
  BY <1>2, ListsDiffer, CountedIs
<1>4. d.n = c.n /\ d.holder = c.holder /\ d.tx = c.tx /\ d.rx = -1
  BY <1>2 DEF IsQueue, Unlocked
<1> HIDE DEF c, d
<1>5. /\ Core'
      /\ \A u \in Users : /\ Placed(u, op'[u], k') /\ InTime(op'[u], k')
                          /\ Tested(op'[u], queue'[op'[u].call.q])
      /\ \A l \in EventLists : /\ Stops(l) = {}
                               /\ ToSet(k'.events[l]) \subseteq ToSet(k.events[l])
      /\ k'.events[SendList(q)] # <<>> =>
            Cardinality(Leaves(SendList(q))) = Max({c.rx, 0})
  <2> HIDE DEF q
  <2> QED
    BY <1>1, <1>3, UnlockGoes
<1>6. Lists(k) /\ Lists(k')
  BY <1>5 DEF Waiting, Core
<1>7. \A s \in DOMAIN Queues : queue'[s] = IF s = q THEN d ELSE queue[s]
  BY <1>1, <1>2 DEF Formed
<1>8. ASSUME NEW s \in DOMAIN Queues, s # q
      PROVE  Counted(s, queue'[s]) /\ Awake(op', k', s, queue'[s])
  <2>1. queue'[s] = queue[s] /\ Counted(s, queue[s])
    BY <1>7, <1>8 DEF Waiting
  <2>2. Items(queue[s]) \in Int /\ Spaces(s, queue[s]) \in Int
    BY <2>1, CountedIs
  <2>3. SendList(s) \in EventLists /\ ReceiveList(s) \in EventLists
    BY ListsDiffer
  <2>4. /\ Answered(ReceiveList(s), Items(queue[s]), Items(queue[s]))
        /\ Answered(SendList(s), Spaces(s, queue[s]), Spaces(s, queue[s]))
    BY <1>5, <1>6, <2>2, <2>3, AnsweredSame
  <2> QED
    BY <1>5, <1>6, <2>1, <2>3, <2>4, AwakeIs
<1>9. Counted(q, d) /\ Awake(op', k', q, d)
  <2>1. Counted(q, d)
    BY <1>2, <1>4 DEF Counted, Unlocked
  <2>2. /\ Items(c) \in Int /\ Spaces(q, c) \in Int /\ Max({c.rx, 0}) \in Nat /\ c.n \in Nat
        /\ Size(q) \in Nat /\ Max({d.rx, 0}) = 0
    <3>1. Max({d.rx, 0}) = (IF d.rx >= 0 THEN d.rx ELSE 0)
      BY <1>2, <2>1, CountedIs
    <3>2. /\ Items(c) \in Int /\ Spaces(q, c) \in Int /\ Max({c.rx, 0}) \in Nat
          /\ Max({c.tx, 0}) \in Nat /\ c.n \in Nat /\ Size(q) \in Nat
      BY <1>2, CountedIs
    <3>3. Max({d.rx, 0}) = 0
      BY <1>4, <3>1
    <3> QED
      BY <3>2, <3>3
  <2>3. Items(d) = Items(c) /\ Spaces(q, d) = Spaces(q, c) + Max({c.rx, 0})
    BY <1>4, <2>2 DEF Items, Spaces
  <2>4. k'.events[SendList(q)] # <<>> => Answered(SendList(q), Spaces(q, c), Spaces(q, d))
    <3>1. Cardinality(Stops(SendList(q))) = 0
      BY <1>3, <1>5, <1>6, LeavesAre
    <3> QED
      BY <1>3, <1>5, <2>2, <2>3, <3>1 DEF Answered
  <2>5. Answered(ReceiveList(q), Items(c), Items(d))
    BY <1>3, <1>5, <1>6, <2>2, <2>3, AnsweredSame
  <2>6. queue[q] = c /\ queue'[q] = d
    BY <1>2, <1>7 DEF c
  <2> HIDE DEF q
  <2>7. Awake(op', k', q, queue'[q])
    BY <1>2, <1>3, <1>5, <1>6, <2>1, <2>4, <2>5, <2>6, AwakeIs
  <2> QED
    BY <2>1, <2>6, <2>7
<1>10. \A s \in DOMAIN Queues : Counted(s, queue'[s]) /\ Awake(op', k', s, queue'[s])
  BY <1>7, <1>8, <1>9
<1> QED
  BY <1>5, <1>10 DEF Waiting

\* xTaskResumeAll, and the yield of a task that blocked.
LEMMA ResumesKernel ==
    ASSUME Waiting, NEW t \in Users, Runs(t), Locked(op[t]), NEW c,
           k' = IF c THEN ResumeAllAndYield(k) ELSE xTaskResumeAll(k),
           ~c => ~OffList(op[t])
    PROVE  /\ Lists(k') /\ Apart(k') /\ k'.locks = 0 /\ k'.pended = 0
           /\ k'.pendsv \/ k'.cur \in Ready(k')
           /\ \A l \in EventLists : ToSet(k'.events[l]) \subseteq ToSet(k.events[l])
           /\ Now(k) <= Now(k') /\ Count(k) <= Count(k')
<1> DEFINE y == xTaskResumeAll(k)
           x == [k EXCEPT !.locks = 0]
<1>1. /\ k.cur = t /\ Lists(k) /\ Apart(k) /\ k.locks = 1
      /\ ~OffList(op[t]) => t \in Ready(k)
      /\ Now(k) \in Nat /\ Count(k) \in Nat
  BY LockedRuns
<1>2. /\ Readied(x, y) /\ y.locks = 0 /\ y.cur = k.cur
      /\ Ready(k) \subseteq Ready(y) /\ Apart(y)
      /\ \A l \in EventLists : ToSet(y.events[l]) \subseteq ToSet(k.events[l])
      /\ Count(y) = Count(k) + k.pended /\ y.pended = 0 /\ Now(y) = Now(k)
  BY <1>1, ResumedIs
<1>3. Lists(y)
  BY <1>2 DEF Readied
<1>4. k.pended \in Nat
  BY <1>1 DEF Lists, Values
<1>5. k' = IF c THEN portYIELD(y) ELSE y
  BY DEF ResumeAllAndYield
<1> HIDE DEF y, x
<1>6. Now(k) <= Now(y) /\ Count(k) <= Count(y)
  BY <1>1, <1>2, <1>4
<1>7. CASE c
  <2> DEFINE z == YieldIf(c, y)
  <2>1. k' = z
    BY <1>5, <1>7 DEF YieldIf
  <2>5. Readied(y, z) /\ SameTime(y, z) /\ z.events = y.events /\ (c => z.pendsv)
    BY <1>3, YieldIs
  <2> HIDE DEF z
  <2>2. /\ Readied(y, k') /\ SameTime(y, k') /\ k'.events = y.events /\ k'.pendsv
    BY <1>7, <2>1, <2>5
  <2>3. Now(k') = Now(y) /\ Count(k') = Count(y) /\ k'.pended = y.pended
    BY <2>2, SameTimeCount
  <2>4. Lists(k') /\ Apart(k') /\ k'.locks = 0
    BY <1>2, <2>2 DEF Readied
  <2> QED
    BY <1>2, <1>6, <2>2, <2>3, <2>4
<1>8. CASE ~c
  <2>1. k' = y
    BY <1>5, <1>8
  <2>2. k'.cur \in Ready(k')
    BY <1>1, <1>2, <1>8, <2>1
  <2> QED
    BY <1>2, <1>3, <1>6, <2>1, <2>2
<1> QED
  BY <1>7, <1>8

LEMMA ResumesWaits ==
    ASSUME Stored, Waiting, NEW t \in Users, Resumes(t)
    PROVE  Waiting'
<1> DEFINE p == op[t]
           c == p.next \in {"blocked", "delayed"}
<1>1. /\ Runs(t) /\ p.pc = "resume" /\ queue' = queue
      /\ idle' = idle /\ expect' = expect
      /\ k' = IF c THEN ResumeAllAndYield(k) ELSE xTaskResumeAll(k)
      /\ IF p.next \in {"retry", "blocked"} THEN Goto(t, "try")
         ELSE IF p.next = "delayed" THEN Returns(t, "pass")
         ELSE IF Sends(p.call) THEN Returns(t, "fail")
         ELSE Goto(t, "recheck")
  BY DEF Resumes, Going, cpuUnchanged
<1>2. Calling /\ Placed(t, p, k) /\ InTime(p, k)
  BY DEF Stored, Waiting
<1>3. Locked(p) /\ (~c => ~OffList(p)) /\ p.pc # "out"
  BY <1>1 DEF Locked, OffList, Closing
<1> HIDE DEF c
<1>4. /\ Lists(k') /\ Apart(k') /\ k'.locks = 0 /\ k'.pended = 0
      /\ k'.pendsv \/ k'.cur \in Ready(k')
      /\ \A l \in EventLists : ToSet(k'.events[l]) \subseteq ToSet(k.events[l])
      /\ Now(k) <= Now(k') /\ Count(k) <= Count(k')
  BY <1>1, <1>3, ResumesKernel
<1>5. Lists(k)
  BY DEF Waiting, Core
<1>6. ASSUME NEW pc \in {"try", "recheck"}, Goto(t, pc),
             pc = "try" => p.next \in {"retry", "blocked"},
             pc = "recheck" => p.next = "expired"
      PROVE  Waiting'
  <2> DEFINE o == [op[t] EXCEPT !.pc = pc]
  <2>1. /\ op' = [op EXCEPT ![t] = o] /\ o.pc = pc /\ o.call = op[t].call
        /\ o.next = op[t].next /\ o.ticks = op[t].ticks /\ o.entry = op[t].entry
        /\ o.since = op[t].since /\ OnList(o) = OnList(op[t])
    BY <1>2, <1>6, GotoIs
  <2> HIDE DEF o
  <2>2. ~Locked(o) /\ (InCallOf(o) => InCallOf(p))
    BY <1>3, <2>1 DEF Locked, Closing, InCallOf
  <2>3. OnWay(p) => OnWay(o)
    BY <1>1, <1>6, <2>1 DEF OnWay
  <2>4. Placed(t, o, k')
    BY <1>2, <1>4, <2>1, <2>2, <2>3 DEF Placed
  <2>5. InTime(o, k')
    <3>1. Expired(o) => Expired(p)
      BY <1>6, <2>1 DEF Expired
    <3>2. InTime(o, k)
      BY <1>2, <1>3, <2>1, <3>1, InTimeMoves
    <3> QED
      BY <1>4, <1>5, <3>2, InTimeLater
  <2>6. Tested(o, queue'[o.call.q])
    BY <1>6, <2>1 DEF Tested
  <2> QED
    BY <1>1, <1>2, <1>4, <2>1, <2>2, <2>3, <2>4, <2>5, <2>6, SameQueues, TaskGoes
<1>7. ASSUME NEW result, Returns(t, result), p.next \notin {"retry", "blocked"}
      PROVE  Waiting'
  <2>1. ~OnWay(p)
    BY <1>1, <1>7 DEF OnWay
  <2>2. \A l \in EventLists : t \notin ToSet(k'.events[l])
    BY <1>2, <1>4, <2>1 DEF Placed
  <2> QED
    BY <1>1, <1>2, <1>4, <1>7, <2>1, <2>2, TaskReturns
<1>8. p.next \in {"retry", "blocked", "delayed", "expired"}
  BY <1>2 DEF Placed
<1> HIDE DEF p
<1>9. CASE p.next \in {"retry", "blocked"}
  BY <1>1, <1>6, <1>9
<1>10. CASE p.next = "delayed"
  BY <1>1, <1>7, <1>10
<1>11. CASE p.next = "expired" /\ Sends(p.call)
  BY <1>1, <1>7, <1>11
<1>12. CASE p.next = "expired" /\ ~Sends(p.call)
  BY <1>1, <1>6, <1>12
<1> QED
  BY <1>8, <1>9, <1>10, <1>11, <1>12

\* A task that executes with the scheduler running.
LEMMA UnlockedRuns ==
    ASSUME Waiting, NEW t \in Users, Runs(t), ~Locked(op[t])
    PROVE  /\ k.cur = t /\ Lists(k) /\ Apart(k) /\ k.locks = 0 /\ k.pended = 0
           /\ t \in Ready(k) /\ \A l \in EventLists : t \notin ToSet(k.events[l])
           /\ Now(k) \in Nat /\ Count(k) \in Nat
<1>1. k.cur = t /\ Lists(k) /\ Apart(k) /\ k.locks = 0 /\ k.pended = 0 /\ t \in Ready(k)
  BY RunsIs
<1>2. Now(k) \in Nat /\ Count(k) \in Nat
  BY <1>1, CountNow
<1> QED
  BY <1>1, <1>2, RunsIs

LEMMA RechecksWaits ==
    ASSUME Stored, Waiting, NEW t \in Users, Rechecks(t)
    PROVE  Waiting'
<1> DEFINE p == op[t]
<1>1. /\ Runs(t) /\ p.pc = "recheck" /\ queue' = queue /\ k' = k
      /\ idle' = idle /\ expect' = expect
      /\ Goto(t, "try") \/ Goto(t, "disinherit") \/ Returns(t, "fail")
  BY DEF Rechecks, Going, cpuUnchanged
<1>2. Calling /\ Placed(t, p, k) /\ InTime(p, k)
  BY DEF Stored, Waiting
<1>3. ~Locked(p) /\ ~OnWay(p) /\ p.pc # "out" /\ Expired(p)
  BY <1>1 DEF Locked, OnWay, Closing, Expired
<1>4. /\ k.cur = t /\ Lists(k) /\ Apart(k) /\ k.locks = 0 /\ k.pended = 0 /\ t \in Ready(k)
      /\ \A l \in EventLists : t \notin ToSet(k.events[l])
      /\ Now(k) \in Nat /\ Count(k) \in Nat
  BY <1>1, <1>3, UnlockedRuns
<1>5. /\ Lists(k') /\ Apart(k') /\ k'.locks = 0 /\ k'.pended = 0 /\ k'.cur \in Ready(k')
      /\ \A l \in EventLists : /\ ToSet(k'.events[l]) \subseteq ToSet(k.events[l])
                               /\ t \notin ToSet(k'.events[l])
      /\ Now(k) <= Now(k') /\ Count(k) <= Count(k')
  BY <1>1, <1>4
<1>6. ASSUME NEW pc \in {"try", "disinherit"}, Goto(t, pc)
      PROVE  Waiting'
  <2> DEFINE o == [op[t] EXCEPT !.pc = pc]
  <2>1. /\ op' = [op EXCEPT ![t] = o] /\ o.pc = pc /\ o.call = op[t].call
        /\ o.next = op[t].next /\ o.ticks = op[t].ticks /\ o.entry = op[t].entry
        /\ o.since = op[t].since /\ OnList(o) = OnList(op[t])
    BY <1>2, <1>6, GotoIs
  <2> HIDE DEF o
  <2>2. ~Locked(o) /\ (InCallOf(o) => InCallOf(p))
    BY <1>3, <2>1 DEF Locked, Closing, InCallOf
  <2>3. Placed(t, o, k')
    BY <1>2, <1>5, <2>1, <2>2 DEF Placed
  <2>4. InTime(o, k')
    BY <1>1, <1>2, <1>3, <2>1, InTimeMoves
  <2>5. Tested(o, queue'[o.call.q])
    BY <1>6, <2>1 DEF Tested
  <2> QED
    BY <1>1, <1>2, <1>3, <1>5, <2>1, <2>2, <2>3, <2>4, <2>5, SameQueues, TaskGoes
<1>7. ASSUME Returns(t, "fail") PROVE Waiting'
  BY <1>1, <1>2, <1>3, <1>5, <1>7, TaskReturns
<1> QED
  BY <1>1, <1>6, <1>7

LEMMA DisinheritsWaits ==
    ASSUME Stored, Waiting, NEW t \in Users, Disinherits(t)
    PROVE  Waiting'
<1> DEFINE q == op[t].call.q
           lent == prvGetDisinheritPriorityAfterTimeout(k, q)
<1>1. /\ Runs(t) /\ op[t].pc = "disinherit" /\ queue' = queue
      /\ idle' = idle /\ expect' = expect /\ Returns(t, "fail")
      /\ k' = vTaskPriorityDisinheritAfterTimeout(k, queue[q].holder, lent)
  BY DEF Disinherits, Going, cpuUnchanged
<1>2. Calling /\ q \in DOMAIN Queues
  BY <1>1, InCall DEF Stored
<1>3. ~Locked(op[t]) /\ ~OnWay(op[t])
  BY <1>1 DEF Locked, OnWay, Closing
<1>4. /\ k.cur = t /\ Lists(k) /\ Apart(k) /\ k.locks = 0 /\ k.pended = 0 /\ t \in Ready(k)
      /\ \A l \in EventLists : t \notin ToSet(k.events[l])
      /\ Now(k) \in Nat /\ Count(k) \in Nat
  BY <1>1, <1>3, UnlockedRuns
<1>5. queue[q].holder \in Users \cup {NoTask}
  BY <1>2 DEF Waiting, Counted
<1> HIDE DEF q
<1>6. lent \in 0 .. MaxPriorities - 1
  BY <1>2, <1>4, LentIs
<1> HIDE DEF lent
<1>7. Kept(k, k')
  BY <1>1, <1>4, <1>5, <1>6, TimeoutDisinheritIs
<1>8. /\ Lists(k') /\ Apart(k') /\ k'.locks = 0 /\ k'.cur \in Ready(k')
      /\ k'.events = k.events /\ SameTime(k, k')
  BY <1>4, <1>7 DEF Kept, Readied
<1>9. k'.pended = 0 /\ Now(k) <= Now(k') /\ Count(k) <= Count(k')
  BY <1>4, <1>8, SameTimeCount
<1> QED
  BY <1>1, <1>2, <1>3, <1>4, <1>8, <1>9, TaskReturns

LEMMA DelaysWaits ==
    ASSUME Stored, Waiting, NEW t \in Users, vTaskDelay(t)
    PROVE  Waiting'
<1>1. PICK call \in plan[t] :
        /\ call.fn = "delay"
        /\ k' = prvAddCurrentTaskToDelayedList(vTaskSuspendAll(k), call.wait, FALSE)
        /\ op' = [op EXCEPT ![t] = [NoOp EXCEPT !.call = call, !.pc = "resume",
                                    !.next = "delayed", !.since = Now(k)]]
  BY DEF vTaskDelay
<1> DEFINE x == vTaskSuspendAll(k)
           o == [NoOp EXCEPT !.call = call, !.pc = "resume",
                             !.next = "delayed", !.since = Now(k)]
<1>2. /\ Runs(t) /\ op[t].pc = "out" /\ queue' = queue /\ idle' = idle /\ expect' = expect
  BY DEF vTaskDelay, Going, cpuUnchanged
<1>3. Calling /\ plan \in Scenarios
  BY DEF Stored
<1>4. call.wait \in Nat
  <2>1. t \in DOMAIN plan
    BY <1>3, ScenariosAssumption
  <2>2. call.wait \in 0 .. MaxDelay
    BY <1>1, <1>3, <2>1, ScenariosAssumption
  <2> QED
    BY <2>2
<1>5. op' = [op EXCEPT ![t] = o] /\ o.pc = "resume" /\ o.next = "delayed" /\ o.call = call
  BY <1>1, NoOpIs DEF IsOp, NoOp
<1> HIDE DEF o
<1>6. /\ ~Locked(op[t]) /\ ~OnWay(op[t]) /\ Locked(o) /\ OffList(o)
  BY <1>2, <1>5 DEF Locked, OnWay, OffList, Closing
<1>7. /\ k.cur = t /\ Lists(k) /\ Apart(k) /\ k.locks = 0 /\ k.pended = 0 /\ t \in Ready(k)
      /\ \A l \in EventLists : t \notin ToSet(k.events[l])
      /\ Now(k) \in Nat /\ Count(k) \in Nat
  BY <1>2, <1>6, UnlockedRuns
<1>8. SuspendedAs(k, x)
  BY <1>7, SuspendedIs
<1>9. /\ Lists(x) /\ Ready(x) = Ready(k) /\ x.events = k.events /\ x.cur = t /\ x.locks = 1
      /\ Now(x) = Now(k) /\ Count(x) = Count(k) /\ Apart(x)
  BY <1>7, <1>8 DEF SuspendedAs
<1> HIDE DEF x
<1> DEFINE y == prvAddCurrentTaskToDelayedList(x, call.wait, FALSE)
<1>10. /\ Lists(y) /\ Ready(y) = Ready(x) \ {x.cur} /\ y.events = x.events
       /\ y.cur = x.cur /\ y.locks = x.locks /\ SameTime(x, y)
  BY <1>4, <1>9, DelayedIs
<1>11. k' = y
  BY <1>1 DEF x
<1> HIDE DEF y
<1>12. /\ Lists(k') /\ k'.locks = 1 /\ k'.cur = t /\ k'.events = k.events /\ Apart(k')
       /\ SameTime(x, k')
  BY <1>9, <1>10, <1>11 DEF Apart
<1>13. Now(k) <= Now(k') /\ Count(k) <= Count(k')
  BY <1>7, <1>9, <1>12, SameTimeCount
<1>14. ~InCallOf(o)
  BY <1>1, <1>5 DEF InCallOf, QueueCall, QueueCalls
<1>15. Placed(t, o, k')
  BY <1>5, <1>6, <1>7, <1>12, <1>14 DEF Placed
<1>16. InTime(o, k') /\ Tested(o, queue'[o.call.q])
  BY <1>5, <1>14 DEF InTime, Tested
<1>17. \A l \in EventLists : ToSet(k'.events[l]) \subseteq ToSet(k.events[l])
  BY <1>12
<1> QED
  BY <1>2, <1>3, <1>5, <1>6, <1>12, <1>13, <1>15, <1>16, <1>17, SameQueues, TaskGoes

LEMMA FinishesWaits ==
    ASSUME Stored, Waiting, NEW t \in Users, Finishes(t)
    PROVE  Waiting'
<1> DEFINE x == Unready(k, t, k.prio[t])
           y == [x EXCEPT !.suspended = Append(@, t)]
           z == prvResetNextTaskUnblockTime(y)
<1>1. /\ Runs(t) /\ op[t].pc = "out" /\ queue' = queue /\ idle' = idle /\ expect' = expect
      /\ op' = op /\ k' = portYIELD(z)
  BY DEF Finishes, Going, cpuUnchanged
<1>2. Calling /\ Placed(t, op[t], k)
  BY DEF Stored, Waiting
<1>3. ~Locked(op[t]) /\ ~OnWay(op[t]) /\ ~InCallOf(op[t])
  BY <1>1 DEF Locked, OnWay, Closing, InCallOf
<1>4. /\ k.cur = t /\ Lists(k) /\ Apart(k) /\ k.locks = 0 /\ k.pended = 0 /\ t \in Ready(k)
      /\ \A l \in EventLists : t \notin ToSet(k.events[l])
      /\ Now(k) \in Nat /\ Count(k) \in Nat
  BY <1>1, <1>3, UnlockedRuns
<1>5. /\ Lists(x) /\ Ready(x) = Ready(k) \ {t}
      /\ Frame(k, x, {"ready", "top", "delayed", "overflow", "suspended", "termination"})
  BY <1>4, UnreadyIs
<1>6. x.events = k.events /\ x.locks = 0 /\ SameTime(k, x) /\ IsKernel(x)
  BY <1>4, <1>5 DEF Frame, Fields, SameTime
<1> HIDE DEF x
<1>7. Frame(x, y, {"suspended"})
  BY <1>6 DEF Frame, IsKernel, Fields
<1>8. Lists(y) /\ Ready(y) = Ready(x) /\ y.events = x.events /\ y.locks = x.locks /\ SameTime(x, y)
  <2> DEFINE S == {"suspended"}
  <2>1. /\ S \subseteq {"running", "tasks", "suspended", "yield", "pendsv", "held", "bits",
                        "nstate", "nvalue"}
        /\ Frame(x, y, S)
    BY <1>7
  <2> HIDE DEF S, y
  <2> QED
    BY <1>5, <2>1, OtherFields
<1> HIDE DEF y
<1>9. /\ Lists(z) /\ Frame(y, z, {"unblock"}) /\ Ready(z) = Ready(y)
  BY <1>8, UnblockTimeIs
<1>10. z.events = y.events /\ z.locks = y.locks /\ SameTime(y, z)
  BY <1>9 DEF Frame, Fields, SameTime
<1> HIDE DEF z
<1>11. k' = YieldIf(TRUE, z)
  BY <1>1 DEF YieldIf
<1>12. /\ Readied(z, k') /\ SameTime(z, k') /\ k'.events = z.events /\ k'.pendsv
       /\ Ready(k') = Ready(z)
  BY <1>9, <1>11, YieldIs
<1>13. Lists(k') /\ k'.locks = 0 /\ k'.events = k.events
  BY <1>6, <1>8, <1>10, <1>12 DEF Readied
<1>14. Ready(k') \subseteq Ready(k)
  BY <1>5, <1>8, <1>9, <1>12
<1>15. Apart(k')
  BY <1>4, <1>13, <1>14 DEF Apart
<1>16. SameTime(k, k')
  BY <1>6, <1>8, <1>10, <1>12, SameTimeTwice
<1>17. k'.pended = 0 /\ Now(k) <= Now(k') /\ Count(k) <= Count(k')
  BY <1>4, <1>16, SameTimeCount
<1>18. op' = [op EXCEPT ![t] = op[t]]
  BY <1>1, <1>2 DEF Calling
<1>19. Placed(t, op[t], k')
  BY <1>2, <1>3, <1>4, <1>13 DEF Placed
<1>20. InTime(op[t], k') /\ Tested(op[t], queue'[op[t].call.q])
  BY <1>1, <1>3 DEF InTime, Tested
<1>21. \A l \in EventLists : ToSet(k'.events[l]) \subseteq ToSet(k.events[l])
  BY <1>13
<1> QED
  BY <1>1, <1>2, <1>3, <1>12, <1>13, <1>15, <1>17, <1>18, <1>19, <1>20, <1>21, SameQueues, TaskGoes

-----------------------------------------------------------------------------
(* Items come and go.                                                      *)

\* prvCopyDataToQueue, what it counts.
LEMMA CopyIs ==
    ASSUME Formed, Waiting, NEW call \in QueueCall, Sends(call), CanProceed(queue, call),
           NEW item
    PROVE  LET c == queue[call.q]
               d == CopyItem(queue, call.q, item, Position(call))
           IN /\ IsQueue(d) /\ d.tx = c.tx /\ d.rx = c.rx /\ d.holder = c.holder
              /\ d.n \in 0 .. Size(call.q)
              /\ d.n = c.n + 1 \/ (d.n = c.n /\ c.n = Size(call.q))
<1> DEFINE q == call.q
           c == queue[q]
           d == CopyItem(queue, q, item, Position(call))
<1>1. q \in DOMAIN Queues /\ IsQueue(c) /\ Counted(q, c)
  BY CallIsLegal DEF Formed, Waiting
<1>2. c.n \in Nat /\ c.n <= Size(q) /\ Size(q) \in Nat \ {0}
  BY <1>1, CountedIs
<1>3. /\ call.fn = "overwrite" => HoldsData(q) /\ Size(q) = 1
      /\ c.n < Size(q) \/ call.fn = "overwrite"
  <2>1. call.fn = "overwrite" => HoldsData(q) /\ Size(q) = 1
    BY CallIsLegal, ScenariosAssumption DEF QueueCall, Callers, Size
  <2>2. c.n # Size(q) \/ call.fn = "overwrite"
    BY DEF CanProceed, Full, Size
  <2> QED
    BY <1>2, <2>1, <2>2
<1> HIDE DEF q
<1>4. CASE ~HoldsData(q)
  <2>1. d = [c EXCEPT !.n = @ + 1]
    BY <1>4 DEF CopyItem
  <2> HIDE DEF c, d
  <2>2. /\ IsQueue(d) /\ d.tx = c.tx /\ d.rx = c.rx /\ d.holder = c.holder /\ d.n = c.n + 1
    BY <1>1, <2>1 DEF IsQueue
  <2> QED
    BY <1>2, <1>3, <1>4, <2>2 DEF c, d, q
<1>5. CASE HoldsData(q) /\ Position(call) = "back"
  <2> DEFINE write == NextSlot(q, c.write)
             buf == [c.buf EXCEPT ![c.write] = item]
  <2>1. d = [c EXCEPT !.buf = buf, !.write = write, !.n = @ + 1]
    BY <1>5 DEF CopyItem
  <2> HIDE DEF c, d, write, buf
  <2>2. /\ IsQueue(d) /\ d.tx = c.tx /\ d.rx = c.rx /\ d.holder = c.holder /\ d.n = c.n + 1
    BY <1>1, <2>1 DEF IsQueue
  <2>3. call.fn # "overwrite"
    BY <1>5 DEF Position, Gives
  <2> QED
    BY <1>2, <1>3, <2>2, <2>3 DEF c, d, q
<1>6. CASE HoldsData(q) /\ Position(call) # "back"
  <2> DEFINE read == PreviousSlot(q, c.read)
             buf == [c.buf EXCEPT ![c.read] = item]
             n == IF Position(call) = "overwrite" /\ c.n > 0 THEN c.n ELSE c.n + 1
  <2>1. d = [c EXCEPT !.buf = buf, !.read = read, !.n = n]
    BY <1>6 DEF CopyItem
  <2>2. n = IF call.fn = "overwrite" /\ c.n > 0 THEN c.n ELSE c.n + 1
    BY DEF Position, Gives
  <2> HIDE DEF c, d, read, buf, n
  <2>3. /\ IsQueue(d) /\ d.tx = c.tx /\ d.rx = c.rx /\ d.holder = c.holder /\ d.n = n
    BY <1>1, <2>1 DEF IsQueue
  <2> QED
    BY <1>2, <1>3, <2>2, <2>3 DEF c, d, q
<1> QED
  BY <1>4, <1>5, <1>6

\* The count of a queue changes, its locks do not.
LEMMA CountsAre ==
    ASSUME NEW q \in DOMAIN Queues, NEW c, Counted(q, c), NEW d, d.n \in Int,
           d.tx = c.tx, d.rx = c.rx
    PROVE  /\ Items(d) = Items(c) + d.n - c.n
           /\ Spaces(q, d) = Spaces(q, c) + c.n - d.n
           /\ d.n = Size(q) => Spaces(q, d) <= 0
<1>1. /\ c.n \in Nat /\ Size(q) \in Nat
      /\ Max({c.tx, 0}) \in Nat /\ Max({c.rx, 0}) \in Nat
  BY CountedIs
<1> QED
  BY <1>1 DEF Items, Spaces

\* A waiter is woken, if one waits, after a change that matters to no waiter.
LEMMA WokenBy ==
    ASSUME Lists(k), NEW x, Kept(k, x), NEW w \in EventLists, NEW c, k' = Wake(x, w, c)
    PROVE  /\ Readied(k, k') /\ SameTime(k, k')
           /\ k.events[w] # <<>> => Cardinality(Leaves(w)) >= 1
<1> DEFINE y == Wake(x, w, c)
<1>1. Lists(x) /\ Readied(k, x) /\ SameTime(k, x) /\ x.events = k.events
  BY DEF Kept, Readied
<1>2. /\ x.events[w] # <<>> => Woken(x, y, w)
      /\ Readied(x, y) /\ SameTime(x, y)
  BY <1>1, WakeIs
<1>3. k' = y
  OBVIOUS
<1> HIDE DEF y
<1>4. Readied(k, k') /\ SameTime(k, k')
  BY <1>1, <1>2, <1>3, ReadiedTwice, SameTimeTwice
<1>5. ASSUME k.events[w] # <<>> PROVE Cardinality(Leaves(w)) >= 1
  <2>1. PICK t \in ToSet(x.events[w]) : ToSet(y.events[w]) = ToSet(x.events[w]) \ {t}
    BY <1>1, <1>2, <1>5 DEF Woken
  <2>2. t \in Leaves(w)
    BY <1>1, <1>3, <2>1 DEF Leaves
  <2>3. Lists(k')
    BY <1>4 DEF Readied
  <2> QED
    BY <2>2, <2>3, LeavesAre
<1> QED
  BY <1>4, <1>5

\* A list of which "woken" tasks are woken and "stopped" go no more.
LEMMA AnsweredBy ==
    ASSUME Lists(k), Lists(k'), NEW l \in EventLists,
           NEW woken \in {0, 1}, NEW stopped \in {0, 1},
           woken <= Cardinality(Leaves(l)), Cardinality(Stops(l)) <= stopped,
           Leaves(l) \cap Stops(l) = {},
           NEW old \in Int, NEW new \in Int, new <= 0 \/ new <= old + woken - stopped
    PROVE  Answered(l, old, new)
<1>1. Cardinality(Leaves(l)) \in Nat /\ Cardinality(Stops(l)) \in Nat
  BY LeavesAre
<1> QED
  BY <1>1 DEF Answered

One(b) == IF b THEN 1 ELSE 0

\* A call succeeds, and its task returns.
LEMMA TriedWaits ==
    ASSUME Stored, Waiting, NEW t \in Users, Runs(t), op[t].pc \in {"out", "try"},
           UNCHANGED <<idle, expect>>, Returns(t, "pass"),
           NEW own, OnWay(op[t]) => OnList(op[t]) = own,
           NEW w \in EventLists, NEW x, NEW c, Kept(k, x), k' = Wake(x, w, c),
           \A q \in DOMAIN Queues :
                /\ Counted(q, queue'[q])
                /\ \/ Items(queue'[q]) <= 0
                   \/ Items(queue'[q]) <=
                        Items(queue[q]) + One(ReceiveList(q) = w) - One(ReceiveList(q) = own)
                /\ \/ Spaces(q, queue'[q]) <= 0
                   \/ Spaces(q, queue'[q]) <=
                        Spaces(q, queue[q]) + One(SendList(q) = w) - One(SendList(q) = own)
    PROVE  Waiting'
<1>1. Calling
  BY DEF Stored
<1>2. ~Locked(op[t])
  BY DEF Locked, Closing
<1>3. /\ k.cur = t /\ Lists(k) /\ Apart(k) /\ k.locks = 0 /\ k.pended = 0 /\ t \in Ready(k)
      /\ \A l \in EventLists : t \notin ToSet(k.events[l])
      /\ Now(k) \in Nat /\ Count(k) \in Nat
  BY <1>2, UnlockedRuns
<1>4. /\ Readied(k, k') /\ SameTime(k, k')
      /\ k.events[w] # <<>> => Cardinality(Leaves(w)) >= 1
  BY <1>3, WokenBy
<1>5. /\ Lists(k') /\ Apart(k') /\ k'.locks = 0 /\ k'.cur \in Ready(k') /\ SameTime(k, k')
      /\ \A l \in EventLists : ToSet(k'.events[l]) \subseteq ToSet(k.events[l])
  BY <1>3, <1>4 DEF Readied
<1>6. k'.pended = 0 /\ Now(k) <= Now(k') /\ Count(k) <= Count(k')
  BY <1>3, <1>5, SameTimeCount
<1>7. PICK o : /\ op' = [op EXCEPT ![t] = o] /\ o.pc = "out" /\ ~Locked(o) /\ ~OnWay(o)
               /\ \A z, d : /\ (\A l \in EventLists : t \notin ToSet(z.events[l])) =>
                                    Placed(t, o, z)
                            /\ InTime(o, z) /\ Tested(o, d)
  BY ReturnIs
<1>8. Placed(t, o, k') /\ InTime(o, k') /\ Tested(o, queue'[o.call.q])
  BY <1>3, <1>5, <1>7
<1>9. \A l \in EventLists : ToSet(k'.events[l]) \subseteq ToSet(k.events[l]) \cup {t}
  BY <1>5
<1>10. /\ Core'
       /\ \A u \in Users : /\ Placed(u, op'[u], k') /\ InTime(op'[u], k')
                           /\ Tested(op'[u], queue'[op'[u].call.q])
  BY <1>1, <1>5, <1>6, <1>7, <1>8, <1>9, TaskKept
<1>11. ASSUME NEW l \in EventLists
       PROVE  /\ Leaves(l) \cap Stops(l) = {} /\ Cardinality(Stops(l)) <= One(l = own)
              /\ k'.events[l] # <<>> => One(l = w) <= Cardinality(Leaves(l))
  <2>1. Stops(l) \subseteq {t} /\ (l # own => Stops(l) = {})
    <3>1. \A u \in Users : u # t => op'[u] = op[u]
      BY <1>1, <1>7 DEF Calling
    <3> QED
      BY <3>1 DEF Stops
  <2>2. Leaves(l) \cap Stops(l) = {}
    BY <1>3, <2>1 DEF Leaves
  <2>3. /\ Cardinality(Leaves(l)) \in Nat /\ Cardinality(Stops(l)) <= 1
        /\ Stops(l) = {} => Cardinality(Stops(l)) = 0
    BY <1>3, <1>5, <2>1, LeavesAre
  <2>4. Cardinality(Stops(l)) <= One(l = own)
    BY <2>1, <2>3 DEF One
  <2>5. ASSUME k'.events[l] # <<>> PROVE One(l = w) <= Cardinality(Leaves(l))
    <3>1. k.events[l] # <<>>
      <4>1. ToSet(k'.events[l]) # {}
        BY <1>5, <2>5, ListOf
      <4> QED
        BY <1>3, <1>5, <4>1, ListOf
    <3> QED
      BY <1>4, <2>3, <3>1 DEF One
  <2> QED
    BY <2>2, <2>4, <2>5
<1>12. ASSUME NEW l \in EventLists, k'.events[l] # <<>>, NEW old \in Int, NEW new \in Int,
              new <= 0 \/ new <= old + One(l = w) - One(l = own)
       PROVE  Answered(l, old, new)
  <2> DEFINE woken == One(l = w)
             stopped == One(l = own)
  <2>1. woken \in {0, 1} /\ stopped \in {0, 1}
    BY DEF One
  <2>2. woken <= Cardinality(Leaves(l)) /\ Cardinality(Stops(l)) <= stopped
        /\ Leaves(l) \cap Stops(l) = {} /\ (new <= 0 \/ new <= old + woken - stopped)
    BY <1>11, <1>12
  <2> HIDE DEF woken, stopped
  <2> QED
    BY <1>3, <1>5, <2>1, <2>2, AnsweredBy
<1>13. ASSUME NEW q \in DOMAIN Queues
       PROVE  Counted(q, queue'[q]) /\ Awake(op', k', q, queue'[q])
  <2>1. Counted(q, queue[q]) /\ Counted(q, queue'[q])
    BY DEF Waiting
  <2>2. /\ Items(queue[q]) \in Int /\ Spaces(q, queue[q]) \in Int
        /\ Items(queue'[q]) \in Int /\ Spaces(q, queue'[q]) \in Int
    BY <2>1, CountedIs
  <2>3. SendList(q) \in EventLists /\ ReceiveList(q) \in EventLists
    BY ListsDiffer
  <2>4. k'.events[ReceiveList(q)] # <<>> =>
            Answered(ReceiveList(q), Items(queue[q]), Items(queue'[q]))
    BY <1>12, <2>2, <2>3
  <2>5. k'.events[SendList(q)] # <<>> =>
            Answered(SendList(q), Spaces(q, queue[q]), Spaces(q, queue'[q]))
    BY <1>12, <2>2, <2>3
  <2> QED
    BY <1>5, <2>1, <2>3, <2>4, <2>5, AwakeIs
<1> QED
  BY <1>10, <1>13 DEF Waiting

-----------------------------------------------------------------------------
(* The first critical section of a call.                                   *)

\* One queue has another count; nothing waits for that of the others.
LEMMA OneCount ==
    ASSUME Formed, Waiting, NEW q \in DOMAIN Queues, NEW d,
           queue' = [queue EXCEPT ![q] = d], Counted(q, d),
           NEW own \in {SendList(q), ReceiveList(q)}, NEW w \in {SendList(q), ReceiveList(q)},
           \/ Items(d) <= 0
           \/ Items(d) <= Items(queue[q]) + One(ReceiveList(q) = w) - One(ReceiveList(q) = own),
           \/ Spaces(q, d) <= 0
           \/ Spaces(q, d) <= Spaces(q, queue[q]) + One(SendList(q) = w) - One(SendList(q) = own)
    PROVE  \A r \in DOMAIN Queues :
                /\ Counted(r, queue'[r])
                /\ \/ Items(queue'[r]) <= 0
                   \/ Items(queue'[r]) <=
                        Items(queue[r]) + One(ReceiveList(r) = w) - One(ReceiveList(r) = own)
                /\ \/ Spaces(r, queue'[r]) <= 0
                   \/ Spaces(r, queue'[r]) <=
                        Spaces(r, queue[r]) + One(SendList(r) = w) - One(SendList(r) = own)
<1>1. \A r \in DOMAIN Queues : queue'[r] = IF r = q THEN d ELSE queue[r]
  BY DEF Formed
<1>2. ASSUME NEW r \in DOMAIN Queues, r # q
      PROVE  /\ Counted(r, queue'[r])
             /\ Items(queue'[r]) <=
                    Items(queue[r]) + One(ReceiveList(r) = w) - One(ReceiveList(r) = own)
             /\ Spaces(r, queue'[r]) <=
                    Spaces(r, queue[r]) + One(SendList(r) = w) - One(SendList(r) = own)
  <2>1. queue'[r] = queue[r] /\ Counted(r, queue[r])
    BY <1>1, <1>2 DEF Waiting
  <2>2. Items(queue[r]) \in Int /\ Spaces(r, queue[r]) \in Int
    BY <2>1, CountedIs
  <2>3. /\ ReceiveList(r) # w /\ ReceiveList(r) # own
        /\ SendList(r) # w /\ SendList(r) # own
    BY <1>2, ListsDiffer
  <2>4. /\ One(ReceiveList(r) = w) = 0 /\ One(ReceiveList(r) = own) = 0
        /\ One(SendList(r) = w) = 0 /\ One(SendList(r) = own) = 0
    BY <2>3 DEF One
  <2> QED
    BY <2>1, <2>2, <2>4
<1>3. queue'[q] = d
  BY <1>1
<1> QED
  BY <1>2, <1>3

LEMMA OnesAre ==
    ASSUME NEW q \in DOMAIN Queues
    PROVE  /\ One(ReceiveList(q) = ReceiveList(q)) = 1 /\ One(SendList(q) = SendList(q)) = 1
           /\ One(ReceiveList(q) = SendList(q)) = 0 /\ One(SendList(q) = ReceiveList(q)) = 0
BY ListsDiffer DEF One

\* What a task in its first critical section can rely on.
Trying(t, o) ==
    /\ Runs(t) /\ op[t].pc \in {"out", "try"} /\ idle' = idle /\ expect' = expect
    /\ IsOp(o) /\ o.call \in QueueCall
    /\ OnWay(op[t]) => OnList(op[t]) = OnList(o)
    /\ Sends(o.call) /\ IsMutex(o.call.q) => queue[o.call.q].holder = t

LEMMA SendWaits ==
    ASSUME Stored, Waiting, NEW t \in Users, NEW o, Trying(t, o),
           Sends(o.call), CanProceed(queue, o.call), Returns(t, "pass"),
           LET e == Effect(k, queue, o.call) IN k' = e.k /\ queue' = e.queue
    PROVE  Waiting'
<1> DEFINE call == o.call
           q == o.call.q
           c == queue[q]
           copied == CopyItem(queue, q, Len(items) + 1, Position(call))
           d == [copied EXCEPT !.holder = IF IsMutex(q) THEN NoTask ELSE @, !.recursion = 0]
           given == IF IsMutex(q) THEN xTaskPriorityDisinherit(k, c.holder) ELSE k
           drops == IsMutex(q) /\ c.holder # NoTask /\ LosesPriority(k, c.holder)
           R == ReceiveList(q)
           S == SendList(q)
<1>1. Formed /\ call \in QueueCall /\ q \in DOMAIN Queues /\ Counted(q, c)
  BY CallIsLegal DEF Trying, Stored, Waiting
<1>2. queue' = [queue EXCEPT ![q] = d] /\ k' = Wake(given, R, drops)
  <2>1. ~(call.fn = "receive" \/ Takes(call)) /\ call.fn # "peek"
    BY DEF Sends, Gives, Takes
  <2>2. Effect(k, queue, call) = SendEffect(k, queue, q, Len(items) + 1, Position(call))
    BY <2>1 DEF Effect
  <2> QED
    BY <2>2 DEF SendEffect
<1>3. /\ IsQueue(copied) /\ copied.tx = c.tx /\ copied.rx = c.rx /\ copied.holder = c.holder
      /\ copied.n \in 0 .. Size(q)
      /\ copied.n = c.n + 1 \/ (copied.n = c.n /\ c.n = Size(q))
  BY <1>1, CopyIs
<1> HIDE DEF copied
<1>4. d.n = copied.n /\ d.tx = c.tx /\ d.rx = c.rx
      /\ d.holder = (IF IsMutex(q) THEN NoTask ELSE c.holder)
  <2> DEFINE h == IF IsMutex(q) THEN NoTask ELSE copied.holder
  <2>1. d = [copied EXCEPT !.holder = h, !.recursion = 0]
    OBVIOUS
  <2> HIDE DEF h, d
  <2>2. d.n = copied.n /\ d.tx = copied.tx /\ d.rx = copied.rx /\ d.holder = h
    BY <1>3, <2>1 DEF IsQueue
  <2> QED
    BY <1>3, <2>2 DEF h
<1> HIDE DEF d
<1>5. Counted(q, d)
  BY <1>1, <1>3, <1>4 DEF Counted
<1>6. /\ Items(c) \in Int /\ Spaces(q, c) \in Int /\ c.n \in Nat /\ Size(q) \in Nat
      /\ Items(d) \in Int /\ Spaces(q, d) \in Int /\ d.n \in Int
  <2> HIDE DEF q, c
  <2>1. Items(c) \in Int /\ Spaces(q, c) \in Int /\ c.n \in Nat /\ Size(q) \in Nat
    BY <1>1, CountedIs
  <2>2. q \in DOMAIN Queues
    BY <1>1
  <2>3. Items(d) \in Int /\ Spaces(q, d) \in Int /\ d.n \in Nat
    BY <1>5, <2>2, CountedIs
  <2> QED
    BY <2>1, <2>3
<1>7. /\ Items(d) = Items(c) + d.n - c.n /\ Spaces(q, d) = Spaces(q, c) + c.n - d.n
      /\ d.n = Size(q) => Spaces(q, d) <= 0
  BY <1>1, <1>4, <1>6, CountsAre
<1>8. /\ Items(d) <= Items(c) + 1
      /\ Spaces(q, d) <= 0 \/ Spaces(q, d) <= Spaces(q, c) - 1
  <2>1. CASE copied.n = c.n + 1
    BY <1>4, <1>6, <1>7, <2>1
  <2>2. CASE copied.n = c.n /\ c.n = Size(q)
    BY <1>4, <1>6, <1>7, <2>2
  <2> QED
    BY <1>3, <2>1, <2>2
<1>9. /\ Runs(t) /\ op[t].pc \in {"out", "try"} /\ idle' = idle /\ expect' = expect
      /\ OnWay(op[t]) => OnList(op[t]) = S
      /\ IsMutex(q) => c.holder = t
  BY DEF Trying, OnList
<1>10. Kept(k, given)
  <2>1. ~Locked(op[t])
    BY <1>9 DEF Locked, Closing
  <2>2. Lists(k) /\ \A l \in EventLists : t \notin ToSet(k.events[l])
    BY <1>9, <2>1, UnlockedRuns
  <2>3. IsMutex(q) => Kept(k, xTaskPriorityDisinherit(k, c.holder))
    BY <1>9, <2>2, DisinheritIs
  <2> QED
    BY <2>2, <2>3, KeptNone
<1>11. R \in EventLists /\ S \in EventLists
  BY <1>1, ListsDiffer
<1>12. /\ Items(d) <= Items(c) + One(R = R) - One(R = S)
       /\ Spaces(q, d) <= 0 \/ Spaces(q, d) <= Spaces(q, c) + One(S = R) - One(S = S)
  <2>1. One(R = R) = 1 /\ One(S = S) = 1 /\ One(R = S) = 0 /\ One(S = R) = 0
    BY <1>1, OnesAre
  <2> QED
    BY <1>6, <1>8, <2>1
<1>13. queue[q] = c
  OBVIOUS
<1>14. \A r \in DOMAIN Queues :
                /\ Counted(r, queue'[r])
                /\ \/ Items(queue'[r]) <= 0
                   \/ Items(queue'[r]) <=
                        Items(queue[r]) + One(ReceiveList(r) = R) - One(ReceiveList(r) = S)
                /\ \/ Spaces(r, queue'[r]) <= 0
                   \/ Spaces(r, queue'[r]) <=
                        Spaces(r, queue[r]) + One(SendList(r) = R) - One(SendList(r) = S)
  <2> HIDE DEF q
  <2> QED
    BY <1>1, <1>2, <1>5, <1>12, OneCount
<1> HIDE DEF R, S, given, drops
<1> QED
  BY <1>2, <1>9, <1>10, <1>11, <1>14, TriedWaits

LEMMA ReceiveWaits ==
    ASSUME Stored, Waiting, NEW t \in Users, NEW o, Trying(t, o),
           o.call.fn = "receive" \/ Takes(o.call), CanProceed(queue, o.call),
           Returns(t, "pass"),
           LET e == Effect(k, queue, o.call) IN k' = e.k /\ queue' = e.queue
    PROVE  Waiting'
<1> DEFINE call == o.call
           q == o.call.q
           c == queue[q]
           read == prvCopyDataFromQueue(c, q)
           d == [read EXCEPT !.n = @ - 1, !.holder = IF IsMutex(q) THEN k.cur ELSE @,
                             !.recursion = IF IsMutex(q) THEN 1 ELSE @]
           held == IF IsMutex(q) THEN [k EXCEPT !.held[k.cur] = @ + 1] ELSE k
           R == ReceiveList(q)
           S == SendList(q)
<1>1. /\ Formed /\ call \in QueueCall /\ q \in DOMAIN Queues /\ IsQueue(c) /\ Counted(q, c)
      /\ ~Sends(call)
  <2>1. call \in QueueCall /\ q \in DOMAIN Queues /\ ~Sends(call)
    BY CallIsLegal DEF Trying, Sends, Gives, Takes
  <2> QED
    BY <2>1 DEF Stored, Formed, Waiting
<1>2. queue' = [queue EXCEPT ![q] = d] /\ k' = Wake(held, S, FALSE)
  <2>1. call.fn # "peek"
    BY DEF Takes
  <2>2. Effect(k, queue, call) = ReceiveEffect(k, queue, q)
    BY <1>1, <2>1 DEF Effect
  <2> QED
    BY <2>2 DEF ReceiveEffect
<1>3. IsQueue(read) /\ read.n = c.n /\ read.tx = c.tx /\ read.rx = c.rx /\ read.holder = c.holder
  BY <1>1 DEF prvCopyDataFromQueue, IsQueue
<1>4. /\ Runs(t) /\ op[t].pc \in {"out", "try"} /\ idle' = idle /\ expect' = expect
      /\ OnWay(op[t]) => OnList(op[t]) = R
      /\ k.cur = t
  BY <1>1 DEF Trying, OnList, Runs
<1> HIDE DEF read
<1>5. d.n = c.n - 1 /\ d.tx = c.tx /\ d.rx = c.rx
      /\ d.holder = (IF IsMutex(q) THEN t ELSE c.holder)
  <2> DEFINE n == read.n - 1
             h == IF IsMutex(q) THEN k.cur ELSE read.holder
             m == IF IsMutex(q) THEN 1 ELSE read.recursion
  <2>1. d = [read EXCEPT !.n = n, !.holder = h, !.recursion = m]
    OBVIOUS
  <2> HIDE DEF n, h, m, d
  <2>2. d.n = n /\ d.tx = read.tx /\ d.rx = read.rx /\ d.holder = h
    BY <1>3, <2>1 DEF IsQueue
  <2> QED
    BY <1>3, <1>4, <2>2 DEF n, h
<1> HIDE DEF d
<1>6. c.n \in Nat /\ c.n <= Size(q) /\ Size(q) \in Nat /\ c.n # 0 /\ (IsMutex(q) => Size(q) = 1)
  <2>1. c.n # 0
    BY <1>1 DEF CanProceed, Empty
  <2>2. IsMutex(q) => Size(q) = 1
    BY <1>1, QueuesAssumption DEF IsMutex, Size
  <2> QED
    BY <1>1, <2>1, <2>2, CountedIs
<1>7. Counted(q, d)
  <2>1. d.n \in 0 .. Size(q) /\ (IsMutex(q) => d.n = 0)
    BY <1>5, <1>6
  <2> QED
    BY <1>1, <1>5, <2>1 DEF Counted
<1>8. /\ Items(c) \in Int /\ Spaces(q, c) \in Int
      /\ Items(d) \in Int /\ Spaces(q, d) \in Int /\ d.n \in Int
  <2> HIDE DEF q, c
  <2>1. Items(c) \in Int /\ Spaces(q, c) \in Int
    BY <1>1, CountedIs
  <2>2. q \in DOMAIN Queues
    BY <1>1
  <2>3. Items(d) \in Int /\ Spaces(q, d) \in Int /\ d.n \in Nat
    BY <1>7, <2>2, CountedIs
  <2> QED
    BY <2>1, <2>3
<1>9. Items(d) = Items(c) + d.n - c.n /\ Spaces(q, d) = Spaces(q, c) + c.n - d.n
  BY <1>1, <1>5, <1>8, CountsAre
<1>10. Items(d) = Items(c) - 1 /\ Spaces(q, d) = Spaces(q, c) + 1
  BY <1>5, <1>6, <1>8, <1>9
<1>11. Kept(k, held)
  <2>1. ~Locked(op[t])
    BY <1>4 DEF Locked, Closing
  <2>2. Lists(k)
    BY <1>4, <2>1, UnlockedRuns
  <2> DEFINE S1 == {"held"}
             x == [k EXCEPT !.held[k.cur] = @ + 1]
  <2>3. Frame(k, x, S1)
    BY <2>2 DEF Lists, Frame, IsKernel, Fields
  <2>4. S1 \subseteq {"running", "tasks", "suspended", "yield", "held", "bits",
                      "nstate", "nvalue"}
    OBVIOUS
  <2> HIDE DEF S1, x
  <2>5. Kept(k, x)
    BY <2>2, <2>3, <2>4, KeptOther
  <2> QED
    BY <2>2, <2>5, KeptNone DEF x
<1>12. R \in EventLists /\ S \in EventLists
  BY <1>1, ListsDiffer
<1>13. /\ Items(d) <= Items(c) + One(R = S) - One(R = R)
       /\ Spaces(q, d) <= Spaces(q, c) + One(S = S) - One(S = R)
  <2>1. One(R = R) = 1 /\ One(S = S) = 1 /\ One(R = S) = 0 /\ One(S = R) = 0
    BY <1>1, OnesAre
  <2> QED
    BY <1>8, <1>10, <2>1
<1>14. \A r \in DOMAIN Queues :
                /\ Counted(r, queue'[r])
                /\ \/ Items(queue'[r]) <= 0
                   \/ Items(queue'[r]) <=
                        Items(queue[r]) + One(ReceiveList(r) = S) - One(ReceiveList(r) = R)
                /\ \/ Spaces(r, queue'[r]) <= 0
                   \/ Spaces(r, queue'[r]) <=
                        Spaces(r, queue[r]) + One(SendList(r) = S) - One(SendList(r) = R)
  <2> HIDE DEF q
  <2> QED
    BY <1>1, <1>2, <1>7, <1>13, OneCount
<1> DEFINE no == FALSE
<1>15. k' = Wake(held, S, no)
  BY <1>2
<1> HIDE DEF R, S, held, no
<1> QED
  BY <1>4, <1>11, <1>12, <1>14, <1>15, TriedWaits

LEMMA PeekWaits ==
    ASSUME Stored, Waiting, NEW t \in Users, NEW o, Trying(t, o),
           o.call.fn = "peek", Returns(t, "pass"),
           LET e == Effect(k, queue, o.call) IN k' = e.k /\ queue' = e.queue
    PROVE  Waiting'
<1> DEFINE call == o.call
           q == o.call.q
           R == ReceiveList(q)
<1>1. /\ call \in QueueCall /\ q \in DOMAIN Queues /\ ~Sends(call)
  BY CallIsLegal DEF Trying, Sends, Gives, Takes
<1>2. queue' = queue /\ k' = Wake(k, R, FALSE)
  <2>1. Effect(k, queue, call) = PeekEffect(k, queue, q)
    BY <1>1 DEF Effect, Takes
  <2> QED
    BY <2>1 DEF PeekEffect
<1>3. /\ Runs(t) /\ op[t].pc \in {"out", "try"} /\ idle' = idle /\ expect' = expect
      /\ OnWay(op[t]) => OnList(op[t]) = R
  BY <1>1 DEF Trying, OnList
<1>4. Kept(k, k)
  <2>1. Lists(k)
    BY DEF Waiting, Core
  <2> QED
    BY <2>1, KeptNone
<1>5. R \in EventLists
  BY <1>1, ListsDiffer
<1> HIDE DEF R
<1>6. ASSUME NEW r \in DOMAIN Queues
      PROVE  /\ Counted(r, queue'[r])
             /\ Items(queue'[r]) <=
                    Items(queue[r]) + One(ReceiveList(r) = R) - One(ReceiveList(r) = R)
             /\ Spaces(r, queue'[r]) <=
                    Spaces(r, queue[r]) + One(SendList(r) = R) - One(SendList(r) = R)
  <2>1. queue'[r] = queue[r] /\ Counted(r, queue[r])
    BY <1>2 DEF Waiting
  <2>2. Items(queue[r]) \in Int /\ Spaces(r, queue[r]) \in Int
    BY <2>1, CountedIs
  <2>3. One(ReceiveList(r) = R) \in Int /\ One(SendList(r) = R) \in Int
    BY DEF One
  <2> QED
    BY <2>1, <2>2, <2>3
<1> DEFINE no == FALSE
<1>7. k' = Wake(k, R, no)
  BY <1>2
<1> HIDE DEF no
<1> QED
  BY <1>3, <1>4, <1>5, <1>6, <1>7, TriedWaits

\* The first critical section fails, or the wait begins.
LEMMA FailedWaits ==
    ASSUME Stored, Waiting, NEW t \in Users, Runs(t), op[t].pc \in {"out", "try"},
           UNCHANGED <<idle, expect, k, queue>>, NEW o, op' = [op EXCEPT ![t] = o],
           o.pc \in {"out", "assert", "suspend"}, Placed(t, o, k), InTime(o, k),
           NEW call \in QueueCall, ~CanProceed(queue, call), NEW own,
           own = IF Sends(call) THEN SendList(call.q) ELSE ReceiveList(call.q),
           OnWay(op[t]) => OnList(op[t]) = own
    PROVE  Waiting'
<1>1. Calling
  BY DEF Stored
<1>2. ~Locked(op[t]) /\ ~Locked(o) /\ ~OnWay(o)
  BY DEF Locked, Closing, OnWay
<1>3. /\ k.cur = t /\ Lists(k) /\ Apart(k) /\ k.locks = 0 /\ k.pended = 0 /\ t \in Ready(k)
      /\ Now(k) \in Nat /\ Count(k) \in Nat
  BY <1>2, UnlockedRuns
<1>4. /\ Core'
      /\ \A u \in Users : /\ Placed(u, op'[u], k') /\ InTime(op'[u], k')
                          /\ Tested(op'[u], queue'[op'[u].call.q])
  <2>1. Placed(t, o, k') /\ InTime(o, k') /\ Tested(o, queue'[o.call.q])
    BY DEF Tested
  <2>2. \A l \in EventLists : ToSet(k'.events[l]) \subseteq ToSet(k.events[l]) \cup {t}
    OBVIOUS
  <2>3. Now(k) <= Now(k') /\ Count(k) <= Count(k')
    BY <1>3
  <2>4. Lists(k') /\ Apart(k') /\ k'.locks = 0 /\ k'.pended = 0 /\ k'.cur \in Ready(k')
    BY <1>3
  <2> QED
    BY <1>1, <1>2, <2>1, <2>2, <2>3, <2>4, TaskKept
<1>5. \A l \in EventLists : l # own => Stops(l) = {}
  <2>1. \A u \in Users : u # t => op'[u] = op[u]
    BY <1>1 DEF Calling
  <2> QED
    BY <2>1 DEF Stops
<1>6. ASSUME NEW q \in DOMAIN Queues
      PROVE  Counted(q, queue'[q]) /\ Awake(op', k', q, queue'[q])
  <2>1. queue'[q] = queue[q] /\ Counted(q, queue[q])
    BY DEF Waiting
  <2>2. /\ Items(queue[q]) \in Int /\ Spaces(q, queue[q]) \in Int
        /\ queue[q].n \in Nat /\ Size(q) \in Nat
        /\ Max({queue[q].tx, 0}) \in Nat /\ Max({queue[q].rx, 0}) \in Nat
    BY <2>1, CountedIs
  <2>3. SendList(q) \in EventLists /\ ReceiveList(q) \in EventLists
    BY ListsDiffer
  <2>4. Lists(k')
    BY <1>3
  <2>5. Answered(ReceiveList(q), Items(queue[q]), Items(queue[q]))
    <3>1. CASE ReceiveList(q) # own
      BY <1>5, <2>2, <2>3, <2>4, <3>1, AnsweredSame
    <3>2. CASE ReceiveList(q) = own
      <4>1. ~Sends(call) /\ q = call.q
        BY <3>2, CallWaits, ListsDiffer
      <4>2. queue[q].n = 0
        BY <4>1 DEF CanProceed, Empty
      <4>3. Items(queue[q]) <= 0
        BY <2>2, <4>2 DEF Items
      <4>4. Leaves(ReceiveList(q)) = {}
        BY DEF Leaves
      <4> QED
        BY <4>3, <4>4 DEF Answered
    <3> QED
      BY <3>1, <3>2
  <2>6. Answered(SendList(q), Spaces(q, queue[q]), Spaces(q, queue[q]))
    <3>1. CASE SendList(q) # own
      BY <1>5, <2>2, <2>3, <2>4, <3>1, AnsweredSame
    <3>2. CASE SendList(q) = own
      <4>1. Sends(call) /\ q = call.q
        BY <3>2, CallWaits, ListsDiffer
      <4>2. queue[q].n = Size(q)
        BY <4>1 DEF CanProceed, Full, Size
      <4>3. Spaces(q, queue[q]) <= 0
        BY <2>2, <4>2 DEF Spaces
      <4>4. Leaves(SendList(q)) = {}
        BY DEF Leaves
      <4> QED
        BY <4>3, <4>4 DEF Answered
    <3> QED
      BY <3>1, <3>2
  <2> QED
    BY <2>1, <2>3, <2>4, <2>5, <2>6, AwakeIs
<1> QED
  BY <1>4, <1>6 DEF Waiting

\* The time that is left to a call that comes to its first critical section.
Timed(o) ==
    /\ o.next \in {"retry", "blocked", "delayed", "expired"}
    /\ o.since \in Nat /\ o.ticks \in Ticks /\ o.ticks <= o.call.wait
    /\ o.entry \in Nat \X Ticks
    /\ o.since <= Now(k) /\ Entered(o) <= Count(k)
    /\ Expired(o) => Deadline(o) <= Now(k) /\ o.call.wait # MaxDelay
    /\ o.ticks > 0 => /\ Deadline(o) <= Count(k) + o.ticks
                      /\ o.timed => Deadline(o) <= Entered(o) + o.ticks
    /\ o.call.wait = MaxDelay => o.ticks = MaxDelay

LEMMA TryWaits ==
    ASSUME Stored, Waiting, NEW t \in Users, NEW o, Trying(t, o), Timed(o), Try(t, o)
    PROVE  Waiting'
<1> DEFINE call == o.call
           entry == IF o.timed THEN o.entry ELSE <<k.overflows, k.tick>>
           failed == [NoOp EXCEPT !.result = "fail"]
           asserted == [o EXCEPT !.pc = "assert"]
           waiting == [o EXCEPT !.pc = "suspend", !.timed = TRUE, !.entry = entry]
<1>1. /\ Runs(t) /\ op[t].pc \in {"out", "try"} /\ idle' = idle /\ expect' = expect
      /\ call \in QueueCall
      /\ OnWay(op[t]) => OnList(op[t]) = OnList(o)
      /\ IsOp(o) /\ call.fn \in QueueCalls
  BY CallIsLegal DEF Trying
<1>2. CASE /\ CanProceed(queue, call) /\ Returns(t, "pass")
           /\ LET e == Effect(k, queue, call) IN k' = e.k /\ queue' = e.queue
  <2>1. CASE Sends(call)
    BY <1>2, <2>1, SendWaits
  <2>2. CASE call.fn = "receive" \/ Takes(call)
    BY <1>2, <2>2, ReceiveWaits
  <2>3. CASE call.fn = "peek"
    BY <1>2, <2>3, PeekWaits
  <2> QED
    BY <1>1, <2>1, <2>2, <2>3 DEF Sends, Gives, Takes, QueueCalls
<1>3. CASE /\ ~CanProceed(queue, call) /\ k' = k /\ queue' = queue
           /\ op' = [op EXCEPT ![t] =
                IF o.ticks = 0 THEN IF o.inherited THEN asserted ELSE failed ELSE waiting]
  <2>1. ~Locked(op[t])
    BY <1>1 DEF Locked, Closing
  <2>2. /\ Lists(k) /\ \A l \in EventLists : t \notin ToSet(k.events[l])
        /\ Now(k) \in Nat /\ Count(k) \in Nat
    BY <1>1, <2>1, UnlockedRuns
  <2>3. ~(Sends(call) /\ IsMutex(call.q))
    <3>1. SUFFICES ASSUME Sends(call), IsMutex(call.q) PROVE FALSE
      OBVIOUS
    <3>2. call.q \in DOMAIN Queues /\ queue[call.q].holder = t
      BY <3>1, CallIsLegal DEF Trying
    <3>3. queue[call.q].n = 0 /\ Size(call.q) = 1
      BY <3>1, <3>2, NamesAre, QueuesAssumption DEF Waiting, Counted, IsMutex, Size
    <3> QED
      BY <1>3, <3>1, <3>3 DEF CanProceed, Full, Size
  <2> DEFINE own == IF Sends(call) THEN SendList(call.q) ELSE ReceiveList(call.q)
  <2>4. OnWay(op[t]) => OnList(op[t]) = own
    BY <1>1 DEF OnList
  <2>5. ASSUME NEW p, op' = [op EXCEPT ![t] = p], p.pc \in {"out", "assert", "suspend"},
               Placed(t, p, k), InTime(p, k)
        PROVE  Waiting'
    <3> HIDE DEF own, call
    <3>1. own = IF Sends(call) THEN SendList(call.q) ELSE ReceiveList(call.q)
      BY DEF own
    <3> QED
      BY <1>1, <1>3, <2>4, <2>5, <3>1, FailedWaits
  <2>6. /\ o.since \in Nat /\ o.ticks \in Ticks /\ o.ticks <= call.wait
        /\ o.entry \in Nat \X Ticks
        /\ o.since <= Now(k) /\ Entered(o) <= Count(k)
        /\ Expired(o) => Deadline(o) <= Now(k) /\ call.wait # MaxDelay
        /\ o.ticks > 0 => /\ Deadline(o) <= Count(k) + o.ticks
                          /\ o.timed => Deadline(o) <= Entered(o) + o.ticks
        /\ call.wait = MaxDelay => o.ticks = MaxDelay
        /\ o.next \in {"retry", "blocked", "delayed", "expired"}
    BY DEF Timed
  <2>7. CASE o.ticks = 0 /\ ~o.inherited
    <3>1. Returns(t, "fail")
      BY <1>3, <2>7 DEF Returns
    <3>2. PICK p : /\ op' = [op EXCEPT ![t] = p] /\ p.pc = "out" /\ ~Locked(p) /\ ~OnWay(p)
                   /\ \A x, c : /\ (\A l \in EventLists : t \notin ToSet(x.events[l])) =>
                                        Placed(t, p, x)
                                /\ InTime(p, x) /\ Tested(p, c)
      BY <3>1, ReturnIs
    <3> QED
      BY <2>2, <2>5, <3>2
  <2>8. CASE o.ticks = 0 /\ o.inherited
    <3>1. op' = [op EXCEPT ![t] = asserted]
      BY <1>3, <2>8
    <3>2. /\ asserted.pc = "assert" /\ asserted.call = call /\ asserted.next = o.next
          /\ asserted.since = o.since /\ asserted.ticks = o.ticks /\ asserted.entry = o.entry
      BY <1>1 DEF IsOp
    <3> HIDE DEF asserted
    <3>3. Placed(t, asserted, k)
      BY <2>2, <2>3, <2>6, <3>2 DEF Placed, Locked, Closing
    <3>4. /\ Entered(asserted) = Entered(o) /\ Deadline(asserted) = Deadline(o)
          /\ Expired(asserted) => Expired(o)
      BY <3>2 DEF Entered, Deadline, Expired
    <3>5. InTime(asserted, k)
      <4>1. ~(o.ticks > 0)
        BY <2>8
      <4> QED
        BY <2>6, <3>2, <3>4, <4>1 DEF InTime
    <3> QED
      BY <2>5, <3>1, <3>2, <3>3, <3>5
  <2>9. CASE o.ticks # 0
    <3>1. op' = [op EXCEPT ![t] = waiting]
      BY <1>3, <2>9
    <3> HIDE DEF entry
    <3>2. /\ waiting.pc = "suspend" /\ waiting.call = call /\ waiting.next = o.next
          /\ waiting.since = o.since /\ waiting.ticks = o.ticks /\ waiting.entry = entry
      BY <1>1 DEF IsOp
    <3> HIDE DEF waiting
    <3>3. Placed(t, waiting, k)
      BY <2>2, <2>3, <2>6, <3>2 DEF Placed, Locked, Closing
    <3>4. /\ Deadline(waiting) = Deadline(o)
          /\ Expired(waiting) => Expired(o)
      BY <3>2 DEF Deadline, Expired
    <3>5. CASE o.timed
      <4>1. entry = o.entry
        BY <3>5 DEF entry
      <4>2. Entered(waiting) = Entered(o)
        BY <3>2, <4>1 DEF Entered
      <4>3. InTime(waiting, k)
        BY <2>6, <3>2, <3>4, <3>5, <4>1, <4>2 DEF InTime
      <4> QED
        BY <2>5, <3>1, <3>2, <3>3, <4>3
    <3>6. CASE ~o.timed
      <4>1. entry = <<k.overflows, k.tick>>
        BY <3>6 DEF entry
      <4>2. entry \in Nat \X Ticks /\ entry[1] = k.overflows /\ entry[2] = k.tick
        BY <2>2, <4>1 DEF Lists, Values
      <4>3. Entered(waiting) = Count(k)
        BY <3>2, <4>2 DEF Entered, Count
      <4>4. InTime(waiting, k)
        BY <2>2, <2>6, <3>2, <3>4, <4>2, <4>3 DEF InTime
      <4> QED
        BY <2>5, <3>1, <3>2, <3>3, <4>4
    <3> QED
      BY <3>5, <3>6
  <2> QED
    BY <2>7, <2>8, <2>9
<1> QED
  BY <1>2, <1>3 DEF Try

LEMMA RetriesWaits ==
    ASSUME Stored, Waiting, NEW t \in Users, Retries(t)
    PROVE  Waiting'
<1> DEFINE o == op[t]
<1>1. /\ Runs(t) /\ o.pc = "try" /\ Try(t, o) /\ idle' = idle /\ expect' = expect
  BY DEF Retries, Going, cpuUnchanged
<1>2. /\ Placed(t, o, k) /\ InTime(o, k) /\ o.call \in QueueCall /\ IsOp(o)
  BY <1>1, InCall DEF Stored, Waiting
<1>3. InCallOf(o)
  BY <1>1, <1>2 DEF InCallOf
<1>4. Trying(t, o)
  BY <1>1, <1>2, <1>3 DEF Trying, Placed
<1>5. Timed(o)
  <2>1. /\ o.since \in Nat /\ o.ticks \in Ticks /\ o.ticks <= o.call.wait
        /\ o.entry \in Nat \X Ticks
        /\ o.since <= Now(k) /\ Entered(o) <= Count(k)
        /\ Expired(o) => Deadline(o) <= Now(k) /\ o.call.wait # MaxDelay
        /\ o.ticks > 0 => Deadline(o) <= Entered(o) + o.ticks
        /\ o.call.wait = MaxDelay => o.ticks = MaxDelay
    BY <1>2, <1>3 DEF InTime
  <2>2. o.next \in {"retry", "blocked", "delayed", "expired"}
    BY <1>2 DEF Placed
  <2>3. Deadline(o) \in Nat /\ Entered(o) \in Nat /\ Count(k) \in Nat /\ o.ticks \in Nat
    <3>1. Count(k) \in Nat
      BY CountNow DEF Waiting, Core
    <3>2. o.call.wait \in Nat
      BY <1>2, CallWaits
    <3>3. o.entry[1] \in Nat /\ o.entry[2] \in Nat /\ TickModulus \in Nat /\ o.ticks \in Nat
      BY <2>1, NamesAre DEF Ticks
    <3>4. o.entry[1] * TickModulus \in Nat
      BY <3>3
    <3> DEFINE e == o.entry[1] * TickModulus
    <3>5. Entered(o) = e + o.entry[2]
      BY DEF Entered
    <3> HIDE DEF e
    <3>6. Entered(o) \in Nat
      BY <3>3, <3>4, <3>5 DEF e
    <3>7. Deadline(o) \in Nat
      BY <2>1, <3>2 DEF Deadline
    <3> QED
      BY <3>1, <3>3, <3>6, <3>7
  <2>4. o.ticks > 0 => Deadline(o) <= Count(k) + o.ticks
    BY <2>1, <2>3
  <2> HIDE DEF o
  <2> QED
    BY <2>1, <2>2, <2>4 DEF Timed
<1> HIDE DEF o
<1> QED
  BY <1>1, <1>4, <1>5, TryWaits

LEMMA CallsWaits ==
    ASSUME Stored, Waiting, NEW t \in Users, Calls(t)
    PROVE  Waiting'
<1>1. PICK call \in {c \in plan[t] : c.fn \in QueueCalls} :
        /\ MayCall(t, call)
        /\ IF HoldsAgain(t, call) THEN Recurses(t, call)
           ELSE Try(t, [NoOp EXCEPT !.call = call, !.ticks = call.wait, !.since = Now(k)])
  BY DEF Calls
<1>2. /\ call \in QueueCall /\ call.q \in DOMAIN Queues /\ call.fn \in QueueCalls
  BY <1>1, PlannedIsCall, CallIsLegal DEF Stored, Callers
<1>3. /\ Runs(t) /\ op[t].pc = "out" /\ idle' = idle /\ expect' = expect
  BY DEF Calls, Going, cpuUnchanged
<1>4. ~Locked(op[t]) /\ ~OnWay(op[t]) /\ Calling /\ Formed
  BY <1>3 DEF Locked, OnWay, Closing, Stored
<1>5. /\ k.cur = t /\ Lists(k) /\ Apart(k) /\ k.locks = 0 /\ k.pended = 0 /\ t \in Ready(k)
      /\ \A l \in EventLists : t \notin ToSet(k.events[l])
      /\ Now(k) \in Nat /\ Count(k) \in Nat
  BY <1>3, <1>4, UnlockedRuns
<1>6. CASE HoldsAgain(t, call)
  <2> DEFINE q == call.q
             m == IF Takes(call) THEN queue[q].recursion + 1 ELSE queue[q].recursion - 1
             c == [queue[q] EXCEPT !.recursion = m]
  <2>1. queue' = [queue EXCEPT ![q] = c] /\ Returns(t, "pass") /\ k' = k
    BY <1>1, <1>6 DEF Recurses
  <2> HIDE DEF m
  <2>2. IsQueue(queue[q]) /\ Counted(q, queue[q])
    BY <1>2, <1>4 DEF Formed, Waiting
  <2>3. c.n = queue[q].n /\ c.tx = queue[q].tx /\ c.rx = queue[q].rx /\ c.holder = queue[q].holder
    BY <2>2 DEF IsQueue
  <2> HIDE DEF c
  <2>4. /\ Counted(q, c) /\ Items(c) = Items(queue[q]) /\ Spaces(q, c) = Spaces(q, queue[q])
    BY <2>2, <2>3 DEF Counted, Items, Spaces
  <2> HIDE DEF q
  <2>5. \A r \in DOMAIN Queues : /\ Counted(r, queue'[r])
                                 /\ Items(queue'[r]) = Items(queue[r])
                                 /\ Spaces(r, queue'[r]) = Spaces(r, queue[r])
    BY <1>2, <1>4, <2>1, <2>4, QueueAsMany DEF q
  <2>6. PICK o : /\ op' = [op EXCEPT ![t] = o] /\ o.pc = "out" /\ ~Locked(o) /\ ~OnWay(o)
                 /\ \A x, d : /\ (\A l \in EventLists : t \notin ToSet(x.events[l])) =>
                                      Placed(t, o, x)
                              /\ InTime(o, x) /\ Tested(o, d)
    BY <2>1, ReturnIs
  <2>7. Placed(t, o, k') /\ InTime(o, k') /\ Tested(o, queue'[o.call.q])
    BY <1>5, <2>1, <2>6
  <2>8. /\ Lists(k') /\ Apart(k') /\ k'.locks = 0 /\ k'.pended = 0 /\ k'.cur \in Ready(k')
        /\ \A l \in EventLists : ToSet(k'.events[l]) \subseteq ToSet(k.events[l])
        /\ Now(k) <= Now(k') /\ Count(k) <= Count(k')
    BY <1>5, <2>1
  <2> QED
    BY <1>3, <1>4, <2>5, <2>6, <2>7, <2>8, TaskGoes
<1>7. CASE ~HoldsAgain(t, call)
  <2> DEFINE wait == call.wait
             now == Now(k)
             o == [NoOp EXCEPT !.call = call, !.ticks = wait, !.since = now]
  <2>1. Try(t, o)
    BY <1>1, <1>7
  <2> HIDE DEF wait, now
  <2>2. /\ IsOp(o) /\ o.call = call /\ o.ticks = wait /\ o.since = now
        /\ o.pc = "out" /\ o.next = "retry" /\ o.entry = <<0, 0>> /\ o.timed = FALSE
    <3>1. o = [NoOp EXCEPT !.call = call, !.ticks = wait, !.since = now]
      OBVIOUS
    <3> HIDE DEF o
    <3> QED
      BY <3>1, NoOpIs DEF IsOp, NoOp
  <2> HIDE DEF o
  <2>3. Trying(t, o)
    <3>1. Sends(call) /\ IsMutex(call.q) => queue[call.q].holder = t
      BY <1>1, <1>2, CallWaits DEF MayCall, Sends, Gives, Takes
    <3> QED
      BY <1>2, <1>3, <1>4, <2>2, <3>1 DEF Trying
  <2>4. Timed(o)
    <3>1. wait \in Ticks /\ wait \in Nat /\ wait = call.wait
      BY <1>2, CallWaits DEF wait
    <3>2. now \in Nat /\ now = Count(k) /\ now = Now(k)
      BY <1>5, CountNow DEF now
    <3>3. o.entry \in Nat \X Ticks /\ Entered(o) = 0
      <4>1. o.entry[1] = 0 /\ o.entry[2] = 0 /\ 0 * TickModulus = 0
        BY <2>2, NamesAre
      <4> QED
        BY <2>2, <4>1, NamesAre DEF Entered
    <3>4. Deadline(o) = now + wait
      BY <2>2, <3>1 DEF Deadline
    <3>5. Expired(o) => wait = 0
      BY <2>2 DEF Expired
    <3>6. MaxDelay # 0
      BY NamesAre DEF MaxDelay
    <3> QED
      BY <1>5, <2>2, <3>1, <3>2, <3>3, <3>4, <3>5, <3>6 DEF Timed
  <2> QED
    BY <2>1, <2>3, <2>4, TryWaits
<1> QED
  BY <1>6, <1>7

-----------------------------------------------------------------------------
(* Interrupts.                                                             *)

\* An interrupt handler changes what one queue counts, and wakes a waiter or, if
\* the queue is locked, nobody.
LEMMA InterruptedWaits ==
    ASSUME Stored, Waiting, UNCHANGED <<idle, expect, op>>,
           NEW q \in DOMAIN Queues, NEW d, queue' = [queue EXCEPT ![q] = d], Counted(q, d),
           NEW w \in EventLists, NEW c, NEW woken \in {0, 1},
           woken = 1 => k' = Wake(k, w, c), woken = 0 => k' = k,
           \/ Items(d) <= 0
           \/ Items(d) <= Items(queue[q]) + (IF ReceiveList(q) = w THEN woken ELSE 0),
           \/ Spaces(q, d) <= 0
           \/ Spaces(q, d) <= Spaces(q, queue[q]) + (IF SendList(q) = w THEN woken ELSE 0),
           queue[q].tx \in Nat /\ queue[q].rx \in Nat =>
                /\ d.tx \in Nat /\ d.rx \in Nat
                /\ Items(d) <= 0 \/ Items(d) <= Items(queue[q])
                /\ Spaces(q, d) <= 0 \/ Spaces(q, d) <= Spaces(q, queue[q])
    PROVE  Waiting'
<1>1. /\ Formed /\ Lists(k) /\ Core
      /\ \A t \in Users : /\ Placed(t, op[t], k) /\ InTime(op[t], k)
                          /\ Tested(op[t], queue[op[t].call.q])
  BY DEF Stored, Waiting, Core
<1>2. \A r \in DOMAIN Queues : queue'[r] = IF r = q THEN d ELSE queue[r]
  BY <1>1 DEF Formed
<1>3. /\ Readied(k, k') /\ SameTime(k, k')
      /\ k.events[w] # <<>> => woken <= Cardinality(Leaves(w))
  <2>1. CASE woken = 1
    <3>1. Kept(k, k)
      BY <1>1, KeptNone
    <3>2. /\ Readied(k, k') /\ SameTime(k, k')
          /\ k.events[w] # <<>> => Cardinality(Leaves(w)) >= 1
      BY <1>1, <2>1, <3>1, WokenBy
    <3>3. Lists(k')
      BY <3>2 DEF Readied
    <3>4. Cardinality(Leaves(w)) \in Nat
      BY <1>1, <3>3, LeavesAre
    <3> QED
      BY <2>1, <3>2, <3>4
  <2>2. CASE woken = 0
    <3>1. Readied(k, k') /\ SameTime(k, k')
      BY <1>1, <2>2, ReadiedNone
    <3>2. Cardinality(Leaves(w)) \in Nat
      BY <1>1, <2>2, LeavesAre
    <3> QED
      BY <2>2, <3>1, <3>2
  <2> QED
    BY <2>1, <2>2
<1>4. /\ Lists(k') /\ k'.locks = k.locks /\ k'.cur = k.cur /\ (k.pendsv => k'.pendsv)
      /\ Ready(k) \subseteq Ready(k') /\ Apart(k')
      /\ \A l \in EventLists : ToSet(k'.events[l]) \subseteq ToSet(k.events[l])
      /\ k'.tick = k.tick /\ k'.pended = k.pended
  BY <1>1, <1>3 DEF Readied, SameTime, Core
<1>5. Now(k) = Now(k') /\ Count(k) = Count(k') /\ Now(k) \in Nat /\ Count(k) \in Nat
  BY <1>1, <1>3, SameTimeCount, CountNow
<1>6. Core'
  BY <1>1, <1>4 DEF Core, IdleLocked
<1>7. ASSUME NEW t \in Users
      PROVE  /\ Placed(t, op'[t], k') /\ InTime(op'[t], k')
             /\ Tested(op'[t], queue'[op'[t].call.q])
  <2>1. Placed(t, op'[t], k')
    <3>1. op'[t] = op[t]
      OBVIOUS
    <3> QED
      BY <1>1, <1>4, <3>1 DEF Placed
  <2>2. InTime(op'[t], k')
    BY <1>1, <1>4, <1>5, InTimeLater
  <2>3. Tested(op'[t], queue'[op'[t].call.q])
    <3> DEFINE o == op[t]
               r == op[t].call.q
    <3>1. Tested(o, queue[r])
      BY <1>1
    <3>2. CASE o.pc \notin {"test", "place"}
      BY <3>2 DEF Tested
    <3>3. CASE o.pc \in {"test", "place"} /\ r # q
      <4>1. o.call \in QueueCall /\ r \in DOMAIN Queues
        BY <3>3, InCall DEF Stored
      <4>2. queue'[r] = queue[r]
        BY <1>2, <3>3, <4>1
      <4> QED
        BY <3>1, <4>2
    <3>4. CASE o.pc \in {"test", "place"} /\ r = q
      <4>1. queue[q].tx \in Nat /\ queue[q].rx \in Nat
        BY <3>1, <3>4 DEF Tested
      <4>2. /\ d.tx \in Nat /\ d.rx \in Nat
            /\ Items(d) <= 0 \/ Items(d) <= Items(queue[q])
            /\ Spaces(q, d) <= 0 \/ Spaces(q, d) <= Spaces(q, queue[q])
        BY <4>1
      <4>3. /\ Items(d) \in Int /\ Spaces(q, d) \in Int
            /\ Items(queue[q]) \in Int /\ Spaces(q, queue[q]) \in Int
        <5>1. Counted(q, queue[q])
          BY DEF Waiting
        <5>2. Items(queue[q]) \in Int /\ Spaces(q, queue[q]) \in Int
          BY <5>1, CountedIs
        <5>3. Items(d) \in Int /\ Spaces(q, d) \in Int
          BY CountedIs
        <5> QED
          BY <5>2, <5>3
      <4>4. Items(queue[q]) <= 0 => Items(d) <= 0
        BY <4>2, <4>3
      <4>5. Spaces(q, queue[q]) <= 0 => Spaces(q, d) <= 0
        BY <4>2, <4>3
      <4>6. queue'[r] = d
        BY <1>2, <3>4
      <4>7. o.call.q = q
        BY <3>4
      <4> QED
        BY <3>1, <3>4, <4>2, <4>4, <4>5, <4>6, <4>7 DEF Tested
    <3> QED
      BY <3>2, <3>3, <3>4
  <2> QED
    BY <2>1, <2>2, <2>3
<1>8. ASSUME NEW l \in EventLists, k'.events[l] # <<>>, NEW old \in Int, NEW new \in Int,
             new <= 0 \/ new <= old + (IF l = w THEN woken ELSE 0)
      PROVE  Answered(l, old, new)
  <2> DEFINE n == IF l = w THEN woken ELSE 0
  <2>1. Stops(l) = {}
    BY DEF Stops
  <2>2. /\ Cardinality(Leaves(l)) \in Nat /\ Cardinality(Stops(l)) = 0
    BY <1>1, <1>4, <2>1, LeavesAre
  <2>3. k.events[l] # <<>>
    <3>1. ToSet(k'.events[l]) # {}
      BY <1>4, <1>8, ListOf
    <3> QED
      BY <1>1, <1>4, <3>1, ListOf
  <2>4. n <= Cardinality(Leaves(l)) /\ n \in {0, 1}
    BY <1>3, <2>2, <2>3
  <2>5. new <= 0 \/ new <= old + n
    BY <1>8
  <2> HIDE DEF n
  <2> QED
    BY <2>1, <2>2, <2>4, <2>5 DEF Answered
<1>9. ASSUME NEW r \in DOMAIN Queues
      PROVE  Counted(r, queue'[r]) /\ Awake(op', k', r, queue'[r])
  <2> DEFINE R == ReceiveList(r)
             S == SendList(r)
  <2>1. Counted(r, queue[r]) /\ Counted(r, queue'[r])
    BY <1>2 DEF Waiting
  <2>2. /\ Items(queue[r]) \in Int /\ Spaces(r, queue[r]) \in Int
        /\ Items(queue'[r]) \in Int /\ Spaces(r, queue'[r]) \in Int
    BY <2>1, CountedIs
  <2>3. S \in EventLists /\ R \in EventLists
    BY ListsDiffer
  <2>4. /\ \/ Items(queue'[r]) <= 0
           \/ Items(queue'[r]) <= Items(queue[r]) + (IF R = w THEN woken ELSE 0)
        /\ \/ Spaces(r, queue'[r]) <= 0
           \/ Spaces(r, queue'[r]) <= Spaces(r, queue[r]) + (IF S = w THEN woken ELSE 0)
    <3>1. CASE r = q
      BY <1>2, <3>1
    <3>2. CASE r # q
      <4>1. queue'[r] = queue[r]
        BY <1>2, <3>2
      <4> QED
        BY <2>2, <4>1
    <3> QED
      BY <3>1, <3>2
  <2>5. k'.events[R] # <<>> => Answered(R, Items(queue[r]), Items(queue'[r]))
    <3> HIDE DEF R
    <3> QED
      BY <1>8, <2>2, <2>3, <2>4
  <2>6. k'.events[S] # <<>> => Answered(S, Spaces(r, queue[r]), Spaces(r, queue'[r]))
    <3> HIDE DEF S
    <3> QED
      BY <1>8, <2>2, <2>3, <2>4
  <2> QED
    BY <1>4, <2>1, <2>3, <2>5, <2>6, AwakeIs
<1> QED
  BY <1>6, <1>7, <1>9 DEF Waiting

\* An item is there, given by an interrupt: a waiter is woken, or the lock of the
\* queue counts it.
LEMMA ArrivedWaits ==
    ASSUME Stored, Waiting, UNCHANGED <<idle, expect, op>>,
           NEW q \in DOMAIN Queues, NEW d, queue' = [queue EXCEPT ![q] = d],
           NEW c, c = queue[q], c.holder = NoTask, d.holder = NoTask, d.rx = c.rx,
           d.n \in 0 .. Size(q), d.n = c.n + 1 \/ (d.n = c.n /\ c.n = Size(q)),
           c.tx = Unlocked => d.tx = c.tx /\ k' = Wake(k, ReceiveList(q), FALSE),
           c.tx # Unlocked => d.tx = c.tx + 1 /\ k' = k
    PROVE  Waiting'
<1>1. Counted(q, c)
  BY DEF Waiting
<1>2. c.tx \in Nat \cup {-1} /\ c.rx \in Nat \cup {-1}
  BY <1>1 DEF Counted, Unlocked
<1>3. d.tx \in Nat \cup {-1} /\ (c.tx \in Nat => d.tx = c.tx + 1)
      /\ (c.tx = -1 => d.tx = -1)
  <2>1. /\ c.tx = -1 => d.tx = -1
        /\ c.tx # -1 => d.tx = c.tx + 1
    BY DEF Unlocked
  <2> QED
    BY <1>2, <2>1
<1>4. Counted(q, d)
  BY <1>2, <1>3 DEF Counted, Unlocked
<1>5. /\ c.n \in Nat /\ d.n \in Nat /\ Size(q) \in Nat
      /\ Max({c.tx, 0}) = (IF c.tx >= 0 THEN c.tx ELSE 0)
      /\ Max({d.tx, 0}) = (IF d.tx >= 0 THEN d.tx ELSE 0)
      /\ Max({c.rx, 0}) \in Nat /\ Max({d.rx, 0}) = Max({c.rx, 0})
  <2>1. c.n \in Nat /\ Size(q) \in Nat /\ Max({c.rx, 0}) \in Nat
        /\ Max({c.tx, 0}) = (IF c.tx >= 0 THEN c.tx ELSE 0)
    BY <1>1, CountedIs
  <2>2. d.n \in Nat /\ Max({d.tx, 0}) = (IF d.tx >= 0 THEN d.tx ELSE 0)
    BY <1>4, CountedIs
  <2> QED
    BY <2>1, <2>2
<1> DEFINE woken == IF c.tx = Unlocked THEN 1 ELSE 0
           no == FALSE
           R == ReceiveList(q)
           S == SendList(q)
<1>6. Items(d) <= Items(c) + woken /\ (c.tx \in Nat => Items(d) <= Items(c))
  <2>1. CASE c.tx = -1
    BY <1>2, <1>3, <1>5, <2>1 DEF Items, Unlocked
  <2>2. CASE c.tx \in Nat
    <3>1. d.tx = c.tx + 1 /\ woken = 0 /\ Max({d.tx, 0}) = c.tx + 1 /\ Max({c.tx, 0}) = c.tx
      BY <1>3, <1>5, <2>2 DEF Unlocked
    <3> HIDE DEF woken
    <3> QED
      BY <1>5, <2>2, <3>1 DEF Items
  <2> QED
    BY <1>2, <2>1, <2>2
<1>7. Spaces(q, d) <= 0 \/ Spaces(q, d) <= Spaces(q, c)
  BY <1>5 DEF Spaces
<1>8. R \in EventLists /\ S # R
  BY ListsDiffer
<1>9. Spaces(q, c) \in Int
  BY <1>1, CountedIs
<1>10. woken \in {0, 1} /\ (woken = 1 => k' = Wake(k, R, no)) /\ (woken = 0 => k' = k)
  <2>1. CASE c.tx = Unlocked
    <3>1. k' = Wake(k, R, no)
      BY <2>1
    <3>2. woken = 1
      BY <2>1
    <3> HIDE DEF woken, no
    <3> QED
      BY <3>1, <3>2
  <2>2. CASE c.tx # Unlocked
    <3>1. k' = k /\ woken = 0
      BY <2>2
    <3> HIDE DEF woken, no
    <3> QED
      BY <3>1
  <2> QED
    BY <2>1, <2>2
<1> HIDE DEF woken, no
<1>11. \/ Spaces(q, d) <= 0
       \/ Spaces(q, d) <= Spaces(q, c) + (IF S = R THEN woken ELSE 0)
  BY <1>7, <1>8, <1>9
<1>12. Items(d) <= Items(c) + (IF R = R THEN woken ELSE 0)
  BY <1>6
<1>13. c.tx \in Nat /\ c.rx \in Nat =>
                /\ d.tx \in Nat /\ d.rx \in Nat
                /\ Items(d) <= 0 \/ Items(d) <= Items(c)
                /\ Spaces(q, d) <= 0 \/ Spaces(q, d) <= Spaces(q, c)
  BY <1>3, <1>6, <1>7
<1> QED
  BY <1>4, <1>8, <1>10, <1>11, <1>12, <1>13, InterruptedWaits DEF R, S

\* An item is taken by an interrupt, and leaves a space.
LEMMA LeftWaits ==
    ASSUME Stored, Waiting, UNCHANGED <<idle, expect, op>>,
           NEW q \in DOMAIN Queues, NEW d, queue' = [queue EXCEPT ![q] = d],
           NEW c, c = queue[q], d.holder = c.holder, d.tx = c.tx,
           c.n # 0, d.n = c.n - 1,
           c.rx = Unlocked => d.rx = c.rx /\ k' = Wake(k, SendList(q), FALSE),
           c.rx # Unlocked => d.rx = c.rx + 1 /\ k' = k
    PROVE  Waiting'
<1>1. Counted(q, c)
  BY DEF Waiting
<1>2. c.tx \in Nat \cup {-1} /\ c.rx \in Nat \cup {-1} /\ c.holder = NoTask
  BY <1>1 DEF Counted, Unlocked
<1>3. d.rx \in Nat \cup {-1} /\ (c.rx \in Nat => d.rx = c.rx + 1)
      /\ (c.rx = -1 => d.rx = -1)
  <2>1. /\ c.rx = -1 => d.rx = -1
        /\ c.rx # -1 => d.rx = c.rx + 1
    BY DEF Unlocked
  <2> QED
    BY <1>2, <2>1
<1>4. Counted(q, d)
  <2>1. d.n \in 0 .. Size(q)
    <3>1. c.n \in Nat /\ c.n <= Size(q) /\ Size(q) \in Nat
      BY <1>1, CountedIs
    <3> QED
      BY <3>1
  <2> QED
    BY <1>2, <1>3, <2>1 DEF Counted, Unlocked
<1>5. /\ c.n \in Nat /\ d.n \in Nat /\ Size(q) \in Nat
      /\ Max({c.rx, 0}) = (IF c.rx >= 0 THEN c.rx ELSE 0)
      /\ Max({d.rx, 0}) = (IF d.rx >= 0 THEN d.rx ELSE 0)
      /\ Max({c.tx, 0}) \in Nat /\ Max({d.tx, 0}) = Max({c.tx, 0})
  <2>1. c.n \in Nat /\ Size(q) \in Nat /\ Max({c.tx, 0}) \in Nat
        /\ Max({c.rx, 0}) = (IF c.rx >= 0 THEN c.rx ELSE 0)
    BY <1>1, CountedIs
  <2>2. d.n \in Nat /\ Max({d.rx, 0}) = (IF d.rx >= 0 THEN d.rx ELSE 0)
    BY <1>4, CountedIs
  <2> QED
    BY <2>1, <2>2
<1> DEFINE woken == IF c.rx = Unlocked THEN 1 ELSE 0
           no == FALSE
           R == ReceiveList(q)
           S == SendList(q)
<1>6. Spaces(q, d) <= Spaces(q, c) + woken /\ (c.rx \in Nat => Spaces(q, d) <= Spaces(q, c))
  <2>1. CASE c.rx = -1
    BY <1>2, <1>3, <1>5, <2>1 DEF Spaces, Unlocked
  <2>2. CASE c.rx \in Nat
    <3>1. d.rx = c.rx + 1 /\ woken = 0 /\ Max({d.rx, 0}) = c.rx + 1 /\ Max({c.rx, 0}) = c.rx
      BY <1>3, <1>5, <2>2 DEF Unlocked
    <3> HIDE DEF woken
    <3> QED
      BY <1>5, <2>2, <3>1 DEF Spaces
  <2> QED
    BY <1>2, <2>1, <2>2
<1>7. Items(d) <= Items(c)
  BY <1>5 DEF Items
<1>8. S \in EventLists /\ S # R
  BY ListsDiffer
<1>9. Items(c) \in Int
  BY <1>1, CountedIs
<1>10. woken \in {0, 1} /\ (woken = 1 => k' = Wake(k, S, no)) /\ (woken = 0 => k' = k)
  <2>1. CASE c.rx = Unlocked
    <3>1. k' = Wake(k, S, no)
      BY <2>1
    <3>2. woken = 1
      BY <2>1
    <3> HIDE DEF woken, no
    <3> QED
      BY <3>1, <3>2
  <2>2. CASE c.rx # Unlocked
    <3>1. k' = k /\ woken = 0
      BY <2>2
    <3> HIDE DEF woken, no
    <3> QED
      BY <3>1
  <2> QED
    BY <2>1, <2>2
<1> HIDE DEF woken, no
<1>11. Items(d) <= Items(c) + (IF R = S THEN woken ELSE 0)
  BY <1>7, <1>8, <1>9
<1>12. Spaces(q, d) <= Spaces(q, c) + (IF S = S THEN woken ELSE 0)
  BY <1>6
<1>13. c.tx \in Nat /\ c.rx \in Nat =>
                /\ d.tx \in Nat /\ d.rx \in Nat
                /\ Items(d) <= 0 \/ Items(d) <= Items(c)
                /\ Spaces(q, d) <= 0 \/ Spaces(q, d) <= Spaces(q, c)
  BY <1>3, <1>6, <1>7
<1> QED
  BY <1>4, <1>8, <1>10, <1>11, <1>12, <1>13, InterruptedWaits DEF R, S

LEMMA InterruptWaits ==
    ASSUME Stored, Waiting, Interrupt
    PROVE  Waiting'
<1>1. PICK call \in plan["isr"] :
        /\ call.fn \in QueueCalls
        /\ \/ Sends(call) /\ ~Gives(call) /\ xQueueGenericSendFromISR(call)
           \/ Gives(call) /\ xQueueGiveFromISR(call)
           \/ call.fn \in {"receive", "take"} /\ xQueueReceiveFromISR(call)
  BY DEF Interrupt
<1>2. idle' = idle /\ expect' = expect /\ op' = op
  BY DEF Interrupt, cpuUnchanged
<1> DEFINE q == call.q
           c == queue[q]
<1>3. /\ call \in QueueCall /\ q \in DOMAIN Queues /\ Formed /\ Counted(q, c) /\ IsQueue(c)
      /\ IsMutex(q) => Gives(call) \/ Takes(call)
  <2>1. "isr" \in Callers
    BY DEF Callers
  <2>2. call \in QueueCall
    BY <1>1, <2>1, PlannedIsCall DEF Stored
  <2>3. q \in DOMAIN Queues /\ (IsMutex(q) => Gives(call) \/ Takes(call))
    BY <2>2, CallWaits
  <2> QED
    BY <2>2, <2>3 DEF Stored, Formed, Waiting
<1>4. c.n \in Nat /\ c.n <= Size(q) /\ Size(q) \in Nat
  BY <1>3, CountedIs
<1>5. CASE Sends(call) /\ ~Gives(call) /\ xQueueGenericSendFromISR(call)
  <2> DEFINE copy == CopyItem(queue, q, Len(items) + 1, Position(call))
             m == c.tx + 1
             locked == [copy EXCEPT !.tx = m]
  <2>1. CanProceed(queue, call)
    BY <1>5 DEF xQueueGenericSendFromISR
  <2>2. /\ IsQueue(copy) /\ copy.tx = c.tx /\ copy.rx = c.rx /\ copy.holder = c.holder
        /\ copy.n \in 0 .. Size(q)
        /\ copy.n = c.n + 1 \/ (copy.n = c.n /\ c.n = Size(q))
    BY <1>3, <1>5, <2>1, CopyIs
  <2>3. IF c.tx = Unlocked
        THEN queue' = [queue EXCEPT ![q] = copy] /\ k' = Wake(k, ReceiveList(q), FALSE)
        ELSE queue' = [[queue EXCEPT ![q] = copy] EXCEPT ![q].tx = @ + 1] /\ k' = k
    BY <1>5 DEF xQueueGenericSendFromISR
  <2> HIDE DEF copy
  <2>4. locked.n = copy.n /\ locked.rx = copy.rx /\ locked.holder = copy.holder /\ locked.tx = m
    <3> HIDE DEF m
    <3> QED
      BY <2>2 DEF IsQueue
  <2>5. c.tx # Unlocked => queue' = [queue EXCEPT ![q] = locked]
    BY <1>3, <2>2, <2>3 DEF Formed
  <2>6. c.holder = NoTask
    <3>1. ~IsMutex(q)
      BY <1>3, <1>5 DEF Sends, Gives, Takes
    <3> QED
      BY <1>3, <3>1 DEF Counted
  <2> HIDE DEF locked
  <2>7. CASE c.tx = Unlocked
    <3> HIDE DEF q
    <3> QED
      BY <1>2, <1>3, <2>2, <2>3, <2>6, <2>7, ArrivedWaits
  <2>8. CASE c.tx # Unlocked
    <3> HIDE DEF q
    <3> QED
      BY <1>2, <1>3, <2>2, <2>3, <2>4, <2>5, <2>6, <2>8, ArrivedWaits
  <2> QED
    BY <2>7, <2>8
<1>6. CASE Gives(call) /\ xQueueGiveFromISR(call)
  <2> DEFINE n == c.n + 1
             m == c.tx + 1
             given == [c EXCEPT !.n = n]
             locked == [c EXCEPT !.n = n, !.tx = m]
  <2>1. /\ c.n # Size(q) /\ c.holder = NoTask
        /\ IF c.tx = Unlocked
           THEN queue' = [queue EXCEPT ![q].n = @ + 1] /\ k' = Wake(k, ReceiveList(q), FALSE)
           ELSE queue' = [[queue EXCEPT ![q].n = @ + 1] EXCEPT ![q].tx = @ + 1] /\ k' = k
    BY <1>6 DEF xQueueGiveFromISR, Full, Size
  <2>2. /\ c.tx = Unlocked => queue' = [queue EXCEPT ![q] = given]
        /\ c.tx # Unlocked => queue' = [queue EXCEPT ![q] = locked]
    BY <1>3, <2>1 DEF Formed, IsQueue
  <2> HIDE DEF n, m
  <2>3. given.n = n /\ given.tx = c.tx /\ given.rx = c.rx /\ given.holder = c.holder
    BY <1>3 DEF IsQueue
  <2>4. locked.n = n /\ locked.tx = m /\ locked.rx = c.rx /\ locked.holder = c.holder
    BY <1>3 DEF IsQueue
  <2> HIDE DEF given, locked
  <2>5. n = c.n + 1 /\ n \in 0 .. Size(q) /\ m = c.tx + 1
    BY <1>4, <2>1 DEF n, m
  <2>6. CASE c.tx = Unlocked
    <3> HIDE DEF q
    <3> QED
      BY <1>2, <1>3, <2>1, <2>2, <2>3, <2>5, <2>6, ArrivedWaits
  <2>7. CASE c.tx # Unlocked
    <3> HIDE DEF q
    <3> QED
      BY <1>2, <1>3, <2>1, <2>2, <2>4, <2>5, <2>7, ArrivedWaits
  <2> QED
    BY <2>6, <2>7
<1>7. CASE call.fn \in {"receive", "take"} /\ xQueueReceiveFromISR(call)
  <2> DEFINE copy == prvCopyDataFromQueue(c, q)
             n == copy.n - 1
             m == c.rx + 1
             taken == [copy EXCEPT !.n = n]
             locked == [taken EXCEPT !.rx = m]
  <2>1. IsQueue(copy) /\ copy.n = c.n /\ copy.tx = c.tx /\ copy.rx = c.rx /\ copy.holder = c.holder
    BY <1>3 DEF prvCopyDataFromQueue, IsQueue
  <2>2. c.n # 0
    BY <1>7 DEF xQueueReceiveFromISR, CanProceed, Empty, Sends, Gives
  <2>3. IF c.rx = Unlocked
        THEN queue' = [queue EXCEPT ![q] = taken] /\ k' = Wake(k, SendList(q), FALSE)
        ELSE queue' = [[queue EXCEPT ![q] = taken] EXCEPT ![q].rx = @ + 1] /\ k' = k
    BY <1>7 DEF xQueueReceiveFromISR
  <2> HIDE DEF copy, n, m
  <2>4. /\ IsQueue(taken) /\ taken.n = n /\ taken.tx = copy.tx /\ taken.rx = copy.rx
        /\ taken.holder = copy.holder
    BY <2>1 DEF IsQueue
  <2> HIDE DEF taken
  <2>5. locked.n = n /\ locked.tx = taken.tx /\ locked.rx = m /\ locked.holder = taken.holder
    BY <2>4 DEF IsQueue
  <2>6. c.rx # Unlocked => queue' = [queue EXCEPT ![q] = locked]
    BY <1>3, <2>1, <2>3, <2>4 DEF Formed, m
  <2>7. n = c.n - 1 /\ m = c.rx + 1
    BY <2>1 DEF n, m
  <2> HIDE DEF locked
  <2>10. /\ taken.n = c.n - 1 /\ taken.tx = c.tx /\ taken.rx = c.rx /\ taken.holder = c.holder
         /\ locked.n = c.n - 1 /\ locked.tx = c.tx /\ locked.rx = c.rx + 1
         /\ locked.holder = c.holder
    BY <2>1, <2>4, <2>5, <2>7
  <2>8. CASE c.rx = Unlocked
    <3>1. queue' = [queue EXCEPT ![q] = taken] /\ k' = Wake(k, SendList(q), FALSE)
      BY <2>3, <2>8
    <3> HIDE DEF q
    <3> QED
      BY <1>2, <1>3, <2>2, <2>8, <2>10, <3>1, LeftWaits
  <2>9. CASE c.rx # Unlocked
    <3>1. queue' = [queue EXCEPT ![q] = locked] /\ k' = k
      BY <2>3, <2>6, <2>9
    <3> HIDE DEF q
    <3> QED
      BY <1>2, <1>3, <2>2, <2>9, <2>10, <3>1, LeftWaits
  <2> QED
    BY <2>8, <2>9
<1> QED
  BY <1>1, <1>5, <1>6, <1>7

-----------------------------------------------------------------------------
(* The invariant of the blocking calls is kept.                            *)

LEMMA TaskWaits ==
    ASSUME Stored, Waiting, NEW t \in Users, Task(t)
    PROVE  Waiting'
<1>1. CASE Calls(t) \/ vTaskDelay(t) \/ Finishes(t)
  BY <1>1, CallsWaits, DelaysWaits, FinishesWaits
<1>2. CASE Suspends(t) \/ LocksAndChecks(t) \/ Tests(t) \/ Places(t)
  BY <1>2, SuspendsWaits, LocksWaits, TestsWaits, PlacesWaits
<1>3. CASE UnlocksTx(t) \/ UnlocksRx(t) \/ Resumes(t)
  BY <1>3, UnlocksTxWaits, UnlocksRxWaits, ResumesWaits
<1>4. CASE Retries(t) \/ Rechecks(t) \/ Disinherits(t)
  BY <1>4, RetriesWaits, RechecksWaits, DisinheritsWaits
<1> QED
  BY <1>1, <1>2, <1>3, <1>4 DEF Task

LEMMA StillWaits ==
    ASSUME Waiting, UNCHANGED vars
    PROVE  Waiting'
<1>1. k' = k /\ idle' = idle /\ expect' = expect /\ queue' = queue /\ op' = op
  BY DEF vars
<1>2. Core'
  BY <1>1 DEF Waiting, Core, IdleLocked
<1>3. \A t \in Users : /\ Placed(t, op'[t], k') /\ InTime(op'[t], k')
                       /\ Tested(op'[t], queue'[op'[t].call.q])
  BY <1>1 DEF Waiting
<1>4. \A q \in DOMAIN Queues : Counted(q, queue'[q]) /\ Awake(op', k', q, queue'[q])
  BY <1>1 DEF Waiting
<1> QED
  BY <1>2, <1>3, <1>4 DEF Waiting

LEMMA WaitingInductive ==
    ASSUME Stored, Waiting, [Next]_vars
    PROVE  Waiting'
<1>1. CASE PendSV /\ queueUnchanged
  BY <1>1, PendSVWaits DEF queueUnchanged
<1>2. CASE xPortSysTickHandler /\ queueUnchanged
  BY <1>2, TickWaits DEF queueUnchanged
<1>3. CASE prvIdleTask /\ queueUnchanged
  BY <1>3, IdleWaits DEF queueUnchanged
<1>4. ASSUME NEW t \in Users, Task(t) PROVE Waiting'
  BY <1>4, TaskWaits
<1>5. CASE Interrupt
  BY <1>5, InterruptWaits
<1>6. CASE UNCHANGED vars
  BY <1>6, StillWaits
<1> QED
  BY <1>1, <1>2, <1>3, <1>4, <1>5, <1>6 DEF Next

\* When the scheduler starts no task is in a call and no list holds a waiter.
LEMMA WaitingInit == Init => Waiting
<1> SUFFICES ASSUME Init PROVE Waiting
  OBVIOUS
<1>1. /\ k = Created(SetToSeq(Users), EventLists) /\ idle = "clean" /\ expect = 0
      /\ queue = [q \in DOMAIN Queues |-> xQueueGenericCreate(q)]
      /\ op = [t \in Users |-> NoOp]
  <2>1. EventLists \cup {} = EventLists
    OBVIOUS
  <2> QED
    BY <2>1 DEF Init, QueueInit, CpuInit
<1>2. /\ Lists(k) /\ Apart(k) /\ k.cur \in Ready(k) /\ k.locks = 0 /\ k.pended = 0
      /\ \A l \in EventLists : k.events[l] = <<>>
  BY <1>1, StartIs
<1>3. NoOp.pc = "out" /\ NoOp.next = "retry"
  BY DEF NoOp
<1>4. Core
  <2>1. ~IdleLocked
    BY <1>1 DEF IdleLocked
  <2>2. \A t \in Users : ~Locked(op[t])
    BY <1>1, <1>3 DEF Locked, Closing
  <2> QED
    BY <1>1, <1>2, <2>1, <2>2 DEF Core
<1>5. ASSUME NEW t \in Users
      PROVE  Placed(t, op[t], k) /\ Tested(op[t], queue[op[t].call.q]) /\ InTime(op[t], k)
  <2>1. op[t].pc = "out" /\ op[t].next = "retry"
    BY <1>1, <1>3
  <2>2. \A l \in EventLists : t \notin ToSet(k.events[l])
    BY <1>2 DEF ToSet
  <2> QED
    BY <2>1, <2>2 DEF Placed, Tested, InTime, Locked, Closing, InCallOf
<1>6. ASSUME NEW q \in DOMAIN Queues
      PROVE  Counted(q, queue[q]) /\ Awake(op, k, q, queue[q])
  <2> DEFINE c == queue[q]
             n == IF Queues[q].kind = "mutex" THEN 1 ELSE 0
  <2>1. c = [[n |-> 0, buf |-> [i \in 0 .. Queues[q].length - 1 |-> 0], write |-> 0,
              read |-> Queues[q].length - 1, rx |-> Unlocked, tx |-> Unlocked,
              holder |-> NoTask, recursion |-> 0] EXCEPT !.n = n]
    BY <1>1 DEF xQueueGenericCreate, xQueueGenericReset
  <2> HIDE DEF c, n
  <2>2. c.n = n /\ c.tx = Unlocked /\ c.rx = Unlocked /\ c.holder = NoTask
    BY <2>1
  <2>3. n \in 0 .. Size(q)
    BY SizeIs DEF n
  <2>4. Counted(q, c)
    BY <2>2, <2>3 DEF Counted
  <2>5. Awake(op, k, q, c)
    BY <1>2, ListsDiffer DEF Awake
  <2> QED
    BY <2>4, <2>5 DEF c
<1> QED
  BY <1>4, <1>5, <1>6 DEF Waiting

\* A task that is on its way is awake in its call.
LEMMA BoundActive ==
    ASSUME Calling, NEW q \in DOMAIN Queues, NEW l \in {SendList(q), ReceiveList(q)}
    PROVE  /\ Bound(op, k, l) \subseteq Active(q, l)
           /\ IsFiniteSet(Active(q, l)) /\ IsFiniteSet(Bound(op, k, l))
           /\ Cardinality(Bound(op, k, l)) <= Cardinality(Active(q, l))
           /\ Cardinality(Bound(op, k, l)) \in Nat /\ Cardinality(Active(q, l)) \in Nat
<1>1. ASSUME NEW t \in Bound(op, k, l) PROVE t \in Active(q, l)
  <2>1. t \in Users /\ OnWay(op[t]) /\ OnList(op[t]) = l /\ t \notin ToSet(k.events[l])
    BY DEF Bound
  <2>2. op[t].pc # "out" /\ ~(op[t].pc = "resume" /\ op[t].next = "delayed")
    BY <2>1 DEF OnWay, Closing
  <2>3. op[t].call \in QueueCall
    BY <2>1, <2>2 DEF Calling
  <2>4. op[t].call.q \in DOMAIN Queues
    BY <2>3, CallIsLegal
  <2>5. op[t].call.q = q /\ (~Sends(op[t].call) <=> l = ReceiveList(q))
    BY <2>1, <2>4, ListsDiffer DEF OnList
  <2> QED
    BY <2>1, <2>2, <2>5 DEF Active
<1>2. IsFiniteSet(Users)
  BY KernelAssumption, FS_Subset DEF Users
<1>3. Bound(op, k, l) \subseteq Users /\ Active(q, l) \subseteq Users
  BY DEF Bound, Active
<1>4. Bound(op, k, l) \subseteq Active(q, l)
  BY <1>1
<1>5. IsFiniteSet(Bound(op, k, l)) /\ IsFiniteSet(Active(q, l))
  BY <1>2, <1>3, FS_Subset
<1> HIDE DEF Bound, Active
<1> QED
  BY <1>4, <1>5, FS_Subset, FS_CardinalityType

LEMMA WaitingWakes ==
    ASSUME Stored, Waiting
    PROVE  NoLostWakeup
<1> SUFFICES ASSUME NEW q \in DOMAIN Queues
             PROVE  /\ queue[q].tx = Unlocked /\ k.events[ReceiveList(q)] # <<>> =>
                            queue[q].n <= Cardinality(Active(q, ReceiveList(q)))
                    /\ queue[q].rx = Unlocked /\ k.events[SendList(q)] # <<>> =>
                            Queues[q].length - queue[q].n <= Cardinality(Active(q, SendList(q)))
  BY DEF NoLostWakeup
<1> DEFINE c == queue[q]
           R == ReceiveList(q)
           S == SendList(q)
<1>1. Counted(q, c) /\ Awake(op, k, q, c) /\ Calling
  BY DEF Waiting, Stored
<1>2. /\ c.n \in Nat /\ Size(q) \in Nat /\ Size(q) = Queues[q].length
      /\ Max({c.tx, 0}) = (IF c.tx >= 0 THEN c.tx ELSE 0)
      /\ Max({c.rx, 0}) = (IF c.rx >= 0 THEN c.rx ELSE 0)
  BY <1>1, CountedIs DEF Size
<1>3. c.tx = Unlocked => Items(c) = c.n
  BY <1>2 DEF Items, Unlocked
<1>4. c.rx = Unlocked => Spaces(q, c) = Queues[q].length - c.n
  BY <1>2 DEF Spaces, Unlocked
<1>5. /\ Cardinality(Bound(op, k, R)) <= Cardinality(Active(q, R))
      /\ Cardinality(Bound(op, k, R)) \in Nat /\ Cardinality(Active(q, R)) \in Nat
  BY <1>1, BoundActive
<1>6. /\ Cardinality(Bound(op, k, S)) <= Cardinality(Active(q, S))
      /\ Cardinality(Bound(op, k, S)) \in Nat /\ Cardinality(Active(q, S)) \in Nat
  BY <1>1, BoundActive
<1>7. /\ k.events[R] # <<>> => Items(c) <= Cardinality(Bound(op, k, R))
      /\ k.events[S] # <<>> => Spaces(q, c) <= Cardinality(Bound(op, k, S))
  BY <1>1 DEF Awake
<1>8. c.tx = Unlocked /\ k.events[R] # <<>> => c.n <= Cardinality(Active(q, R))
  <2> DEFINE b == Cardinality(Bound(op, k, R))
             a == Cardinality(Active(q, R))
  <2>1. b \in Nat /\ a \in Nat /\ b <= a /\ (k.events[R] # <<>> => Items(c) <= b)
    BY <1>5, <1>7
  <2> HIDE DEF a, b
  <2>2. c.tx = Unlocked /\ k.events[R] # <<>> => c.n <= a
    BY <1>2, <1>3, <2>1
  <2> QED
    BY <2>2 DEF a
<1>9. c.rx = Unlocked /\ k.events[S] # <<>> =>
            Queues[q].length - c.n <= Cardinality(Active(q, S))
  <2> DEFINE b == Cardinality(Bound(op, k, S))
             a == Cardinality(Active(q, S))
             n == Queues[q].length - c.n
  <2>1. b \in Nat /\ a \in Nat /\ b <= a /\ (k.events[S] # <<>> => Spaces(q, c) <= b)
    BY <1>6, <1>7
  <2>2. n \in Int /\ (c.rx = Unlocked => Spaces(q, c) = n)
    BY <1>2, <1>4
  <2> HIDE DEF a, b, n
  <2>3. c.rx = Unlocked /\ k.events[S] # <<>> => n <= a
    BY <2>1, <2>2
  <2> QED
    BY <2>3 DEF a, n
<1> QED
  BY <1>8, <1>9

\* Whatever tasks and interrupts do between the critical sections of each other's
\* calls, no wakeup is lost: while a queue is not locked, each item in it that a
\* task waits for, and each free space, has a task awake and on its way to it
\* (the locks and the waits of queue.c).
THEOREM NoWakeupIsLost == Spec => []NoLostWakeup
<1>1. Init => Stored /\ Waiting
  BY StoredInit, WaitingInit
<1>2. Stored /\ Waiting /\ [Next]_vars => Stored' /\ Waiting'
  BY StoredInductive, WaitingInductive
<1>3. Stored /\ Waiting => NoLostWakeup
  BY WaitingWakes
<1> QED
  BY <1>1, <1>2, <1>3, PTL DEF Spec

-----------------------------------------------------------------------------
(* The time a call is given.                                               *)

\* In a step the call of a task fails.
Fails(t) == op[t].pc # "out" /\ op'[t].pc = "out" /\ op'[t].result = "fail"

LEMMA GoneTo ==
    ASSUME Calling, NEW t \in Users, NEW pc, Goto(t, pc)
    PROVE  op'[t].pc = pc
<1> DEFINE o == [op[t] EXCEPT !.pc = pc]
<1>1. op' = [op EXCEPT ![t] = o] /\ o.pc = pc
  BY GotoIs
<1> HIDE DEF o
<1> QED
  BY <1>1 DEF Calling

\* The steps in which the call of the task goes on.
LEMMA GoesOn ==
    ASSUME Calling, NEW t \in Users,
           Suspends(t) \/ LocksAndChecks(t) \/ Tests(t) \/ Places(t) \/ UnlocksTx(t)
               \/ UnlocksRx(t)
    PROVE  op'[t].pc # "out"
<1>1. IsOp(op[t])
  BY DEF Calling
<1>2. ASSUME NEW pc, Goto(t, pc), pc # "out" PROVE op'[t].pc # "out"
  BY <1>2, GoneTo
<1>3. CASE Suspends(t) \/ UnlocksTx(t) \/ UnlocksRx(t)
  BY <1>2, <1>3 DEF Suspends, UnlocksTx, UnlocksRx
<1>4. CASE Tests(t)
  <2> DEFINE pc == IF CanProceed(queue, op[t].call) THEN "unlockTx" ELSE "place"
  <2>1. Goto(t, pc) /\ pc # "out"
    BY <1>4 DEF Tests
  <2> HIDE DEF pc
  <2> QED
    BY <1>2, <2>1
<1>5. CASE LocksAndChecks(t)
  <2> DEFINE r == xTaskCheckForTimeOut(k, op[t].entry, op[t].ticks)
             w == r.ticks
             x == r.entry
             y == IF r.expired THEN "unlockTx" ELSE "test"
             z == IF r.expired THEN "expired" ELSE "retry"
             o == [op[t] EXCEPT !.ticks = w, !.entry = x, !.pc = y, !.next = z]
  <2>1. op' = [op EXCEPT ![t] = o]
    BY <1>5 DEF LocksAndChecks
  <2>2. y # "out"
    OBVIOUS
  <2>3. o = [op[t] EXCEPT !.ticks = w, !.entry = x, !.pc = y, !.next = z]
    OBVIOUS
  <2> HIDE DEF o, w, x, y, z
  <2>4. o.pc = y
    BY <1>1, <2>3 DEF IsOp
  <2>5. op'[t] = o
    BY <2>1 DEF Calling
  <2> QED
    BY <2>2, <2>4, <2>5
<1>6. CASE Places(t)
  <2> DEFINE x == IF Takes(op[t].call) /\ IsMutex(op[t].call.q)
                  THEN InheritanceOccurred(k, queue[op[t].call.q].holder)
                  ELSE op[t].inherited
             o == [op[t] EXCEPT !.pc = "unlockTx", !.next = "blocked", !.inherited = x]
  <2>1. op' = [op EXCEPT ![t] = o]
    BY <1>6 DEF Places
  <2>2. o = [op[t] EXCEPT !.pc = "unlockTx", !.next = "blocked", !.inherited = x]
    OBVIOUS
  <2> HIDE DEF o, x
  <2>3. o.pc = "unlockTx"
    BY <1>1, <2>2 DEF IsOp
  <2>4. op'[t] = o
    BY <2>1 DEF Calling
  <2> QED
    BY <2>3, <2>4
<1> QED
  BY <1>3, <1>4, <1>5, <1>6

LEMMA ReturnedIs ==
    ASSUME Calling, NEW t \in Users, NEW result, Returns(t, result)
    PROVE  op'[t].result = result
<1> DEFINE o == [NoOp EXCEPT !.result = result]
<1>1. op' = [op EXCEPT ![t] = o]
  BY DEF Returns
<1>2. o.result = result
  <2>1. o = [NoOp EXCEPT !.result = result]
    OBVIOUS
  <2> HIDE DEF o
  <2> QED
    BY <2>1, NoOpIs DEF IsOp
<1> HIDE DEF o
<1> QED
  BY <1>1, <1>2 DEF Calling

\* A call fails only if its time is over, and no time is lost in the step.
LEMMA FailsLate ==
    ASSUME Stored, Waiting, NEW t \in Users, Runs(t), Task(t), Fails(t)
    PROVE  InCallOf(op[t]) /\ Expired(op[t]) /\ Now(k) <= Now(k')
<1>1. Calling /\ Lists(k) /\ Placed(t, op[t], k)
  BY DEF Stored, Waiting, Core
<1>2. op[t].pc # "out" /\ op'[t].pc = "out" /\ op'[t].result = "fail"
  BY DEF Fails
<1>3. ~Calls(t) /\ ~vTaskDelay(t) /\ ~Finishes(t)
  BY <1>2 DEF Calls, vTaskDelay, Finishes, Going
<1>4. Now(k) \in Nat
  BY <1>1, CountNow
<1>5. CASE Resumes(t)
  <2> DEFINE c == op[t].next \in {"blocked", "delayed"}
  <2>1. /\ op[t].pc = "resume"
        /\ k' = IF c THEN ResumeAllAndYield(k) ELSE xTaskResumeAll(k)
        /\ IF op[t].next \in {"retry", "blocked"} THEN Goto(t, "try")
           ELSE IF op[t].next = "delayed" THEN Returns(t, "pass")
           ELSE IF Sends(op[t].call) THEN Returns(t, "fail")
           ELSE Goto(t, "recheck")
    BY <1>5 DEF Resumes, Going
  <2>2. ~Goto(t, "try") /\ ~Goto(t, "recheck") /\ ~Returns(t, "pass")
    BY <1>1, <1>2, GoneTo, ReturnedIs
  <2>3. op[t].next = "expired"
    BY <1>1, <2>1, <2>2 DEF Placed
  <2>4. Locked(op[t]) /\ (~c => ~OffList(op[t]))
    BY <2>1 DEF Locked, OffList, Closing
  <2> HIDE DEF c
  <2>5. Now(k) <= Now(k')
    BY <2>1, <2>4, ResumesKernel
  <2>6. op[t].call \in QueueCall
    BY <1>1, <2>1, <2>3 DEF Calling
  <2> QED
    BY <1>2, <2>3, <2>5, <2>6 DEF InCallOf, Expired
<1>6. CASE Retries(t)
  <2>1. op[t].pc = "try" /\ Try(t, op[t]) /\ op[t].call \in QueueCall /\ IsOp(op[t])
    BY <1>1, <1>6, InCall DEF Retries, Going
  <2>2. ~Returns(t, "pass")
    BY <1>1, <1>2, ReturnedIs
  <2>3. /\ k' = k
        /\ op' = [op EXCEPT ![t] =
            IF op[t].ticks = 0
            THEN IF op[t].inherited THEN [op[t] EXCEPT !.pc = "assert"]
                 ELSE [NoOp EXCEPT !.result = "fail"]
            ELSE [op[t] EXCEPT !.pc = "suspend", !.timed = TRUE,
                    !.entry = IF op[t].timed THEN @ ELSE <<k.overflows, k.tick>>]]
    BY <2>1, <2>2 DEF Try
  <2>4. op[t].ticks = 0
    <3> SUFFICES ASSUME op[t].ticks # 0 PROVE FALSE
      OBVIOUS
    <3> DEFINE yes == TRUE
               e == IF op[t].timed THEN op[t].entry ELSE <<k.overflows, k.tick>>
               o == [op[t] EXCEPT !.pc = "suspend", !.timed = yes, !.entry = e]
    <3>1. op' = [op EXCEPT ![t] = o]
      BY <2>3
    <3>2. o = [op[t] EXCEPT !.pc = "suspend", !.timed = yes, !.entry = e]
      OBVIOUS
    <3> HIDE DEF o, e, yes
    <3>3. o.pc = "suspend"
      BY <2>1, <3>2 DEF IsOp
    <3>4. op'[t] = o
      BY <1>1, <3>1 DEF Calling
    <3> QED
      BY <1>2, <3>3, <3>4
  <2> QED
    BY <1>2, <1>4, <2>1, <2>3, <2>4 DEF InCallOf, Expired
<1>7. CASE Rechecks(t)
  <2>1. op[t].pc = "recheck" /\ k' = k /\ op[t].call \in QueueCall
    BY <1>1, <1>7, InCall DEF Rechecks, Going
  <2> QED
    BY <1>2, <1>4, <2>1 DEF InCallOf, Expired
<1>8. CASE Disinherits(t)
  <2> DEFINE q == op[t].call.q
             lent == prvGetDisinheritPriorityAfterTimeout(k, q)
  <2>1. /\ op[t].pc = "disinherit"
        /\ k' = vTaskPriorityDisinheritAfterTimeout(k, queue[q].holder, lent)
    BY <1>8 DEF Disinherits, Going
  <2>2. op[t].call \in QueueCall /\ q \in DOMAIN Queues
    BY <1>1, <2>1, InCall
  <2>3. queue[q].holder \in Users \cup {NoTask}
    BY <2>2 DEF Waiting, Counted
  <2>4. Apart(k)
    BY DEF Waiting, Core
  <2> HIDE DEF q
  <2>5. lent \in 0 .. MaxPriorities - 1
    BY <1>1, <2>2, LentIs
  <2> HIDE DEF lent
  <2>6. Kept(k, k')
    BY <1>1, <2>1, <2>3, <2>4, <2>5, TimeoutDisinheritIs
  <2>7. Now(k') = Now(k)
    BY <2>6, SameTimeCount DEF Kept
  <2> QED
    BY <1>2, <1>4, <2>1, <2>2, <2>7 DEF InCallOf, Expired
<1> QED
  BY <1>1, <1>2, <1>3, <1>5, <1>6, <1>7, <1>8, GoesOn DEF Task

\* A task's step is in its own call.
LEMMA OthersKept ==
    ASSUME Calling, NEW u \in Users, Task(u), NEW t \in Users, t # u
    PROVE  op'[t] = op[t]
<1>1. ASSUME NEW o, op' = [op EXCEPT ![u] = o] PROVE op'[t] = op[t]
  BY <1>1 DEF Calling
<1>2. ASSUME NEW pc, Goto(u, pc) PROVE op'[t] = op[t]
  <2> DEFINE o == [op[u] EXCEPT !.pc = pc]
  <2>1. op' = [op EXCEPT ![u] = o]
    BY <1>2 DEF Goto
  <2> HIDE DEF o
  <2> QED
    BY <1>1, <2>1
<1>3. ASSUME NEW result, Returns(u, result) PROVE op'[t] = op[t]
  <2> DEFINE o == [NoOp EXCEPT !.result = result]
  <2>1. op' = [op EXCEPT ![u] = o]
    BY <1>3 DEF Returns
  <2> HIDE DEF o
  <2> QED
    BY <1>1, <2>1
<1>4. ASSUME NEW p, Try(u, p) PROVE op'[t] = op[t]
  <2> DEFINE o == IF p.ticks = 0
                  THEN IF p.inherited THEN [p EXCEPT !.pc = "assert"]
                       ELSE [NoOp EXCEPT !.result = "fail"]
                  ELSE [p EXCEPT !.pc = "suspend", !.timed = TRUE,
                          !.entry = IF p.timed THEN @ ELSE <<k.overflows, k.tick>>]
  <2>1. Returns(u, "pass") \/ op' = [op EXCEPT ![u] = o]
    BY <1>4 DEF Try
  <2> HIDE DEF o
  <2> QED
    BY <1>1, <1>3, <2>1
<1>5. CASE Calls(u)
  <2>1. PICK call \in {c \in plan[u] : c.fn \in QueueCalls} :
            IF HoldsAgain(u, call) THEN Recurses(u, call)
            ELSE Try(u, [NoOp EXCEPT !.call = call, !.ticks = call.wait, !.since = Now(k)])
    BY <1>5 DEF Calls
  <2>2. Recurses(u, call) => Returns(u, "pass")
    BY DEF Recurses
  <2> QED
    BY <1>3, <1>4, <2>1, <2>2
<1>6. CASE vTaskDelay(u)
  <2>1. PICK call : op' = [op EXCEPT ![u] = [NoOp EXCEPT !.call = call, !.pc = "resume",
                                      !.next = "delayed", !.since = Now(k)]]
    BY <1>6 DEF vTaskDelay
  <2> DEFINE o == [NoOp EXCEPT !.call = call, !.pc = "resume", !.next = "delayed",
                               !.since = Now(k)]
  <2>2. op' = [op EXCEPT ![u] = o]
    BY <2>1
  <2> HIDE DEF o
  <2> QED
    BY <1>1, <2>2
<1>7. CASE LocksAndChecks(u)
  <2> DEFINE r == xTaskCheckForTimeOut(k, op[u].entry, op[u].ticks)
             o == [op[u] EXCEPT !.ticks = r.ticks, !.entry = r.entry,
                      !.pc = IF r.expired THEN "unlockTx" ELSE "test",
                      !.next = IF r.expired THEN "expired" ELSE "retry"]
  <2>1. op' = [op EXCEPT ![u] = o]
    BY <1>7 DEF LocksAndChecks
  <2> HIDE DEF o
  <2> QED
    BY <1>1, <2>1
<1>8. CASE Places(u)
  <2> DEFINE x == IF Takes(op[u].call) /\ IsMutex(op[u].call.q)
                  THEN InheritanceOccurred(k, queue[op[u].call.q].holder)
                  ELSE op[u].inherited
             o == [op[u] EXCEPT !.pc = "unlockTx", !.next = "blocked", !.inherited = x]
  <2>1. op' = [op EXCEPT ![u] = o]
    BY <1>8 DEF Places
  <2> HIDE DEF o
  <2> QED
    BY <1>1, <2>1
<1>9. CASE Finishes(u)
  BY <1>9 DEF Finishes
<1>10. CASE Suspends(u) \/ UnlocksTx(u) \/ UnlocksRx(u)
  BY <1>2, <1>10 DEF Suspends, UnlocksTx, UnlocksRx
<1>11. CASE Tests(u)
  BY <1>2, <1>11 DEF Tests
<1>12. CASE Resumes(u) \/ Rechecks(u)
  BY <1>2, <1>3, <1>12 DEF Resumes, Rechecks
<1>13. CASE Disinherits(u) \/ Retries(u)
  BY <1>3, <1>4, <1>13 DEF Disinherits, Retries
<1> QED
  BY <1>5, <1>6, <1>7, <1>8, <1>9, <1>10, <1>11, <1>12, <1>13 DEF Task

LEMMA FailsInTime ==
    ASSUME Stored, Waiting, [Next]_vars, NEW t \in Users, Fails(t)
    PROVE  /\ Now(k') >= op[t].since + op[t].call.wait
           /\ op[t].call.wait # MaxDelay
<1>1. op'[t] # op[t]
  BY DEF Fails
<1>2. op' # op
  BY <1>1
<1>3. PICK u \in Users : Runs(u) /\ Task(u)
  BY <1>2 DEF Next, queueUnchanged, Interrupt, vars
<1>4. u = t
  BY <1>1, <1>3, OthersKept DEF Stored
<1>5. InCallOf(op[t]) /\ Expired(op[t]) /\ Now(k) <= Now(k')
  BY <1>3, <1>4, FailsLate
<1>6. InTime(op[t], k)
  BY DEF Waiting
<1>7. /\ op[t].since \in Nat /\ Deadline(op[t]) <= Now(k)
      /\ op[t].call.wait # MaxDelay
  BY <1>5, <1>6 DEF InTime
<1>8. op[t].call.wait \in Nat
  BY <1>5, CallWaits DEF InCallOf
<1>9. Now(k) \in Nat /\ Now(k') \in Nat
  BY WaitingInductive, CountNow DEF Waiting, Core
<1> QED
  BY <1>5, <1>7, <1>8, <1>9 DEF Deadline

\* A call does not fail before the ticks it was given, even when the tick count
\* wraps meanwhile, and never if it was given portMAX_DELAY
\* (xTaskCheckForTimeOut and its use in queue.c).
THEOREM NoCallFailsEarly == Spec => NoEarlyTimeout
<1>1. Init => Stored /\ Waiting
  BY StoredInit, WaitingInit
<1>2. Stored /\ Waiting /\ [Next]_vars => Stored' /\ Waiting'
  BY StoredInductive, WaitingInductive
<1>3. Stored /\ Waiting /\ [Next]_vars =>
        [\A t \in Users :
            op[t].pc # "out" /\ op'[t].pc = "out" /\ op'[t].result = "fail" =>
                /\ Now(k') >= op[t].since + op[t].call.wait
                /\ op[t].call.wait # MaxDelay]_vars
  BY FailsInTime DEF Fails
<1> QED
  BY <1>1, <1>2, <1>3, PTL DEF Spec, NoEarlyTimeout
=============================================================================
