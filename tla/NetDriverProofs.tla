-------------------------- MODULE NetDriverProofs --------------------------
(***************************************************************************)
(* NetDriver accounts for its buffers: the heap of heap_4.c stays whole    *)
(* whatever is allocated and freed, and every network buffer is in one     *)
(* place, for every number of buffers, every length of the rings and of    *)
(* the event queue, every size of the heap and of what is asked of it.     *)
(* And NetDriver implements TelemetryChannel: it may lose a frame, but     *)
(* never doubles, invents or overtakes one.                                *)
(***************************************************************************)
EXTENDS NetDriver, SequenceFacts, FiniteSetTheorems, WellFoundedInduction, TLAPS

(***************************************************************************)
(* The heap, by its addresses.                                             *)
(***************************************************************************)
Blk == [at : Nat, size : Nat \ {0}]

\* u is one of the units of b.
In(u, b) == b.at <= u /\ u < b.at + b.size

Apart(b, c) == b.at + b.size <= c.at \/ c.at + c.size <= b.at

\* Blocks that do not overlap.
Packed(blocks) == /\ blocks \subseteq Blk
                  /\ \A b, c \in blocks : b # c => Apart(b, c)

\* Free blocks are joined when they touch.
Joined(free) == \A b, c \in free : b.at + b.size # c.at

FreeUnits(free) == {u \in 0 .. (HeapUnits - Header - 1) : \E b \in free : In(u, b)}

WholeHeap(h) ==
    /\ h = [free |-> h.free, used |-> h.used, xFreeBytesRemaining |-> h.xFreeBytesRemaining]
    /\ Packed(h.free \cup h.used)
    /\ h.free \cap h.used = {}
    /\ IsFiniteSet(h.used)
    /\ Joined(h.free)
    /\ \A b \in h.free \cup h.used : b.at + b.size <= HeapUnits - Header
    /\ \A u \in 0 .. (HeapUnits - Header - 1) : \E b \in h.free \cup h.used : In(u, b)
    /\ h.xFreeBytesRemaining = Cardinality(FreeUnits(h.free))

(***************************************************************************)
(* prvInsertBlockIntoFreeList                                              *)
(***************************************************************************)
Before(free, block) == {b \in free : b.at + b.size = block.at}
After(free, block) == {b \in free : b.at = block.at + block.size}

\* The block the list holds where the call joined block with its neighbours.
Merged(free, block) ==
    Block(IF Before(free, block) = {} THEN block.at
          ELSE (CHOOSE b \in Before(free, block) : TRUE).at,
          block.at - (IF Before(free, block) = {} THEN block.at
                      ELSE (CHOOSE b \in Before(free, block) : TRUE).at)
          + (IF After(free, block) = {} THEN block.size
             ELSE block.size + (CHOOSE b \in After(free, block) : TRUE).size))

LEMMA InsertJoins ==
    ASSUME NEW free, NEW block
    PROVE  prvInsertBlockIntoFreeList(free, block)
             = (free \ (Before(free, block) \cup After(free, block))) \cup {Merged(free, block)}
BY DEF prvInsertBlockIntoFreeList, Merged, Before, After

\* The joined block is made of the block and the neighbours it touches.
LEMMA MergedIs ==
    ASSUME NEW free, NEW block \in Blk, Packed(free), \A b \in free : Apart(b, block)
    PROVE  /\ Merged(free, block) \in Blk
           /\ \A u \in Nat : In(u, Merged(free, block))
                 <=> In(u, block) \/ \E b \in Before(free, block) \cup After(free, block) : In(u, b)
           /\ Merged(free, block).at = block.at
                \/ \E b \in Before(free, block) : Merged(free, block).at = b.at
           /\ Merged(free, block).at + Merged(free, block).size = block.at + block.size
                \/ \E b \in After(free, block) :
                     Merged(free, block).at + Merged(free, block).size = b.at + b.size
           /\ Merged(free, block).at <= block.at
           /\ block.at + block.size <= Merged(free, block).at + Merged(free, block).size
<1> DEFINE Bf == Before(free, block)
           Af == After(free, block)
           p == CHOOSE b \in Bf : TRUE
           n == CHOOSE b \in Af : TRUE
           m == Merged(free, block)
<1>1. /\ block.at \in Nat /\ block.size \in Nat /\ block.size > 0
      /\ \A b \in free : b \in Blk /\ b.at \in Nat /\ b.size \in Nat /\ b.size > 0
  BY DEF Blk, Packed
<1>2. ASSUME Bf # {}
      PROVE  Bf = {p} /\ p \in free /\ p.at + p.size = block.at
  <2>1. p \in Bf
    BY <1>2
  <2>2. \A b, c \in Bf : b = c
    <3>1. SUFFICES ASSUME NEW b \in Bf, NEW c \in Bf, b # c
                   PROVE  FALSE
      OBVIOUS
    <3>2. b \in free /\ c \in free /\ b.at + b.size = block.at /\ c.at + c.size = block.at
      BY DEF Before
    <3>3. Apart(b, c)
      BY <3>1, <3>2 DEF Packed
    <3> HIDE DEF Bf
    <3> QED
      BY <1>1, <3>2, <3>3 DEF Apart
  <2> HIDE DEF p
  <2> QED
    BY <2>1, <2>2 DEF Before
<1>3. ASSUME Af # {}
      PROVE  Af = {n} /\ n \in free /\ n.at = block.at + block.size
  <2>1. n \in Af
    BY <1>3
  <2>2. \A b, c \in Af : b = c
    <3>1. SUFFICES ASSUME NEW b \in Af, NEW c \in Af, b # c
                   PROVE  FALSE
      OBVIOUS
    <3>2. b \in free /\ c \in free /\ b.at = block.at + block.size /\ c.at = block.at + block.size
      BY DEF After
    <3>3. Apart(b, c)
      BY <3>1, <3>2 DEF Packed
    <3> HIDE DEF Af
    <3> QED
      BY <1>1, <3>2, <3>3 DEF Apart
  <2> HIDE DEF n
  <2> QED
    BY <2>1, <2>2 DEF After
<1>4. /\ m.at = IF Bf = {} THEN block.at ELSE p.at
      /\ m.size = block.at - (IF Bf = {} THEN block.at ELSE p.at)
                  + (IF Af = {} THEN block.size ELSE block.size + n.size)
      /\ m = [at |-> m.at, size |-> m.size]
  BY DEF Merged, Block
<1> HIDE DEF p, n, m, Bf, Af
<1>5. /\ m.at \in Nat /\ m.size \in Nat /\ m.size > 0
      /\ m.at = IF Bf = {} THEN block.at ELSE p.at
      /\ m.at + m.size = IF Af = {} THEN block.at + block.size ELSE n.at + n.size
      /\ m.at <= block.at /\ block.at + block.size <= m.at + m.size
  <2>1. CASE Bf = {} /\ Af = {}
    BY <1>1, <1>4, <2>1
  <2>2. CASE Bf # {} /\ Af = {}
    BY <1>1, <1>2, <1>4, <2>2
  <2>3. CASE Bf = {} /\ Af # {}
    BY <1>1, <1>3, <1>4, <2>3
  <2>4. CASE Bf # {} /\ Af # {}
    BY <1>1, <1>2, <1>3, <1>4, <2>4
  <2> QED
    BY <2>1, <2>2, <2>3, <2>4
<1>6. m \in Blk
  BY <1>4, <1>5 DEF Blk
<1>7. \A u \in Nat : In(u, m) <=> In(u, block) \/ \E b \in Bf \cup Af : In(u, b)
  <2> SUFFICES ASSUME NEW u \in Nat
               PROVE  In(u, m) <=> In(u, block) \/ \E b \in Bf \cup Af : In(u, b)
    OBVIOUS
  <2>1. CASE Bf = {} /\ Af = {}
    BY <1>1, <1>5, <2>1 DEF In
  <2>2. CASE Bf # {} /\ Af = {}
    <3>1. Bf \cup Af = {p}
      BY <1>2, <2>2
    <3> QED
      BY <1>1, <1>2, <1>5, <2>2, <3>1 DEF In
  <2>3. CASE Bf = {} /\ Af # {}
    <3>1. Bf \cup Af = {n}
      BY <1>3, <2>3
    <3> QED
      BY <1>1, <1>3, <1>5, <2>3, <3>1 DEF In
  <2>4. CASE Bf # {} /\ Af # {}
    <3>1. Bf \cup Af = {p, n}
      BY <1>2, <1>3, <2>4
    <3> QED
      BY <1>1, <1>2, <1>3, <1>5, <2>4, <3>1 DEF In
  <2> QED
    BY <2>1, <2>2, <2>3, <2>4
<1>8. /\ m.at = block.at \/ \E b \in Bf : m.at = b.at
      /\ m.at + m.size = block.at + block.size \/ \E b \in Af : m.at + m.size = b.at + b.size
  BY <1>2, <1>3, <1>5
<1> QED
  BY <1>5, <1>6, <1>7, <1>8 DEF m, Bf, Af

LEMMA MergedApart ==
    ASSUME NEW free, NEW block \in Blk, Packed(free), \A b \in free : Apart(b, block),
           NEW c \in Blk, Apart(c, block),
           \A b \in Before(free, block) \cup After(free, block) : Apart(b, c)
    PROVE  Apart(Merged(free, block), c)
<1> DEFINE m == Merged(free, block)
<1>1. /\ m \in Blk
      /\ m.at = block.at \/ \E b \in Before(free, block) : m.at = b.at
      /\ m.at + m.size = block.at + block.size
           \/ \E b \in After(free, block) : m.at + m.size = b.at + b.size
      /\ m.at <= block.at /\ block.at + block.size <= m.at + m.size
  BY MergedIs
<1> HIDE DEF m
<1>2. /\ \A b \in free : b.at \in Nat /\ b.size \in Nat /\ b.size > 0
      /\ m.at \in Nat /\ m.size \in Nat /\ c.at \in Nat /\ c.size \in Nat /\ c.size > 0
      /\ block.at \in Nat /\ block.size \in Nat /\ block.size > 0
  BY <1>1 DEF Blk, Packed
<1>3. CASE c.at + c.size <= block.at
  <2>1. CASE m.at = block.at
    BY <1>2, <1>3, <2>1 DEF Apart, m
  <2>2. CASE \E b \in Before(free, block) : m.at = b.at
    <3>1. PICK p \in free : p.at + p.size = block.at /\ m.at = p.at /\ Apart(p, c)
      BY <2>2 DEF Before
    <3> QED
      BY <1>2, <1>3, <3>1 DEF Apart, m
  <2> QED
    BY <1>1, <2>1, <2>2
<1>4. CASE block.at + block.size <= c.at
  <2>1. CASE m.at + m.size = block.at + block.size
    BY <1>2, <1>4, <2>1 DEF Apart, m
  <2>2. CASE \E b \in After(free, block) : m.at + m.size = b.at + b.size
    <3>1. PICK n \in free : /\ n.at = block.at + block.size /\ Apart(n, c)
                            /\ m.at + m.size = n.at + n.size
      BY <2>2 DEF After
    <3> QED
      BY <1>2, <1>4, <3>1 DEF Apart, m
  <2> QED
    BY <1>1, <2>1, <2>2
<1> QED
  BY <1>3, <1>4 DEF Apart

\* The list after the call: as many units as before and those of the block, in
\* blocks that neither overlap nor touch.
LEMMA InsertIs ==
    ASSUME NEW free, NEW block \in Blk, Packed(free), Joined(free),
           \A b \in free : Apart(b, block),
           NEW after, after = prvInsertBlockIntoFreeList(free, block)
    PROVE  /\ Packed(after) /\ Joined(after)
           /\ \A u \in Nat : (\E b \in after : In(u, b))
                                <=> In(u, block) \/ \E b \in free : In(u, b)
           /\ \A c \in Blk : Apart(c, block) /\ (\A b \in free : Apart(b, c))
                                => \A b \in after : Apart(b, c)
           /\ \A end \in Nat : /\ \A b \in free : b.at + b.size <= end
                               /\ block.at + block.size <= end
                               => \A b \in after : b.at + b.size <= end
<1> DEFINE m == Merged(free, block)
           gone == Before(free, block) \cup After(free, block)
           kept == free \ gone
<1>1. after = kept \cup {m}
  BY InsertJoins
<1>2. /\ m \in Blk
      /\ \A u \in Nat : In(u, m) <=> In(u, block) \/ \E b \in gone : In(u, b)
      /\ m.at = block.at \/ \E b \in Before(free, block) : m.at = b.at
      /\ m.at + m.size = block.at + block.size
           \/ \E b \in After(free, block) : m.at + m.size = b.at + b.size
      /\ m.at <= block.at /\ block.at + block.size <= m.at + m.size
  BY MergedIs
<1>3. gone \subseteq free /\ free \subseteq Blk
  BY DEF Before, After, Packed
<1>4. ASSUME NEW c \in Blk, Apart(c, block), \A b \in gone : Apart(b, c)
      PROVE  Apart(m, c)
  BY <1>4, MergedApart
<1>5. \A b, c : Apart(b, c) <=> Apart(c, b)
  BY DEF Apart
<1>6. ASSUME NEW f \in kept
      PROVE  Apart(m, f) /\ f.at + f.size # m.at /\ m.at + m.size # f.at
  <2>1. f \in free /\ f \in Blk /\ f \notin gone
    BY <1>3
  <2>2. \A b \in gone : Apart(b, f)
    BY <1>3, <2>1 DEF Packed
  <2>3. Apart(m, f)
    BY <1>4, <2>1, <2>2
  <2>4. f.at + f.size # m.at
    <3>1. CASE m.at = block.at
      BY <2>1, <3>1 DEF Before
    <3>2. CASE \E b \in Before(free, block) : m.at = b.at
      BY <2>1, <3>2 DEF Before, Joined
    <3> QED
      BY <1>2, <3>1, <3>2
  <2>5. m.at + m.size # f.at
    <3>1. CASE m.at + m.size = block.at + block.size
      BY <2>1, <3>1 DEF After
    <3>2. CASE \E b \in After(free, block) : m.at + m.size = b.at + b.size
      BY <2>1, <3>2 DEF After, Joined
    <3> QED
      BY <1>2, <3>1, <3>2
  <2> QED
    BY <2>3, <2>4, <2>5
<1>7. m.at \in Nat /\ m.size \in Nat /\ m.size > 0
  BY <1>2 DEF Blk
<1>8. \A u \in Nat : (\E b \in after : In(u, b)) <=> In(u, block) \/ \E b \in free : In(u, b)
  <2> HIDE DEF m
  <2> QED
    BY <1>1, <1>2, <1>3
<1>9. ASSUME NEW c \in Blk, Apart(c, block), \A b \in free : Apart(b, c)
      PROVE  \A b \in after : Apart(b, c)
  BY <1>1, <1>3, <1>4, <1>9
<1>10. ASSUME NEW end \in Nat, \A b \in free : b.at + b.size <= end, block.at + block.size <= end
       PROVE  \A b \in after : b.at + b.size <= end
  <2>1. m.at + m.size <= end
    <3> HIDE DEF m
    <3>1. CASE m.at + m.size = block.at + block.size
      BY <1>10, <3>1
    <3>2. CASE \E b \in After(free, block) : m.at + m.size = b.at + b.size
      BY <1>10, <3>2 DEF After
    <3> QED
      BY <1>2, <3>1, <3>2
  <2> QED
    BY <1>1, <1>10, <2>1
<1>11. Packed(after)
  <2>1. after \subseteq Blk
    BY <1>1, <1>2, <1>3
  <2>2. ASSUME NEW b \in after, NEW c \in after, b # c
        PROVE  Apart(b, c)
    <3> HIDE DEF m
    <3>1. CASE b = m
      BY <1>1, <1>6, <2>2, <3>1
    <3>2. CASE c = m
      BY <1>1, <1>5, <1>6, <2>2, <3>2
    <3>3. CASE b # m /\ c # m
      BY <1>1, <2>2, <3>3 DEF Packed
    <3> QED
      BY <3>1, <3>2, <3>3
  <2> QED
    BY <2>1, <2>2 DEF Packed
<1>12. Joined(after)
  <2>1. SUFFICES ASSUME NEW b \in after, NEW c \in after
                 PROVE  b.at + b.size # c.at
    BY DEF Joined
  <2> HIDE DEF m
  <2>2. CASE b = m /\ c = m
    BY <1>7, <2>2
  <2>3. CASE b = m /\ c # m
    BY <1>1, <1>6, <2>3
  <2>4. CASE b # m /\ c = m
    BY <1>1, <1>6, <2>4
  <2>5. CASE b # m /\ c # m
    BY <1>1, <2>5 DEF Joined
  <2> QED
    BY <2>2, <2>3, <2>4, <2>5
<1> QED
  BY <1>8, <1>9, <1>10, <1>11, <1>12

(***************************************************************************)
(* pvPortMalloc and vPortFree: what they do to a heap that is whole.       *)
(***************************************************************************)
LEMMA UnitsCount ==
    ASSUME NEW b \in Blk
    PROVE  /\ IsFiniteSet(Units(b)) /\ Cardinality(Units(b)) = b.size
           /\ \A u : u \in Units(b) <=> u \in Nat /\ In(u, b)
<1>1. b.at \in Nat /\ b.size \in Nat /\ b.size > 0
  BY DEF Blk
<1>2. Units(b) = b.at .. (b.at + b.size - 1)
  BY DEF Units
<1>3. b.at + b.size - 1 \in Int /\ b.at \in Int
  BY <1>1
<1> DEFINE last == b.at + b.size - 1
<1>4. /\ IsFiniteSet(b.at .. last)
      /\ Cardinality(b.at .. last) = IF b.at > last THEN 0 ELSE last - b.at + 1
  <2> HIDE DEF last
  <2>1. last \in Int
    BY <1>3 DEF last
  <2> QED
    BY <1>3, <2>1, FS_Interval
<1>5. Cardinality(Units(b)) = b.size
  <2>1. ~(b.at > last) /\ last - b.at + 1 = b.size
    BY <1>1
  <2> HIDE DEF last
  <2> QED
    BY <1>2, <1>4, <2>1 DEF last
<1>6. \A u : u \in Units(b) <=> u \in Nat /\ In(u, b)
  BY <1>1, <1>2 DEF In
<1> QED
  BY <1>2, <1>4, <1>5, <1>6

LEMMA FreeUnitsFinite ==
    ASSUME NEW free
    PROVE  IsFiniteSet(FreeUnits(free)) /\ Cardinality(FreeUnits(free)) \in Nat
<1>1. HeapUnits - Header - 1 \in Int /\ 0 \in Int
  BY HeapUnitsAssumption DEF Header
<1>2. IsFiniteSet(0 .. (HeapUnits - Header - 1))
  BY <1>1, FS_Interval
<1>3. IsFiniteSet(FreeUnits(free))
  BY <1>2, FS_Subset DEF FreeUnits
<1> QED
  BY <1>3, FS_CardinalityType

LEMMA FreeUnitsShrink ==
    ASSUME NEW free, NEW after, NEW taken \in Blk, taken.at + taken.size <= HeapUnits - Header,
           \A u \in Nat : (\E b \in after : In(u, b)) <=> (\E b \in free : In(u, b)) /\ ~In(u, taken),
           \A u \in Nat : In(u, taken) => \E b \in free : In(u, b)
    PROVE  Cardinality(FreeUnits(after)) = Cardinality(FreeUnits(free)) - taken.size
<1>1. taken.at \in Nat /\ taken.size \in Nat /\ taken.size > 0 /\ HeapUnits \in Nat /\ Header = 1
  BY HeapUnitsAssumption DEF Blk, Header
<1>2. \A u \in Nat : In(u, taken) => u \in 0 .. (HeapUnits - Header - 1)
  BY <1>1 DEF In
<1>3. FreeUnits(after) = FreeUnits(free) \ Units(taken)
  BY UnitsCount DEF FreeUnits
<1>4. FreeUnits(free) \cap Units(taken) = Units(taken)
  BY <1>2, UnitsCount DEF FreeUnits
<1>5. IsFiniteSet(FreeUnits(free))
  BY FreeUnitsFinite
<1>6. Cardinality(FreeUnits(free) \ Units(taken))
        = Cardinality(FreeUnits(free)) - Cardinality(FreeUnits(free) \cap Units(taken))
  BY <1>5, FS_Difference
<1>7. Cardinality(Units(taken)) = taken.size
  BY UnitsCount
<1> QED
  BY <1>3, <1>4, <1>6, <1>7

LEMMA FreeUnitsGrow ==
    ASSUME NEW free, NEW after, NEW block \in Blk, block.at + block.size <= HeapUnits - Header,
           \A u \in Nat : (\E b \in after : In(u, b)) <=> (\E b \in free : In(u, b)) \/ In(u, block),
           \A u \in Nat : In(u, block) => ~ \E b \in free : In(u, b)
    PROVE  Cardinality(FreeUnits(after)) = Cardinality(FreeUnits(free)) + block.size
<1>1. block.at \in Nat /\ block.size \in Nat /\ block.size > 0 /\ HeapUnits \in Nat /\ Header = 1
  BY HeapUnitsAssumption DEF Blk, Header
<1>2. \A u \in Nat : In(u, block) => u \in 0 .. (HeapUnits - Header - 1)
  BY <1>1 DEF In
<1>3. FreeUnits(after) = FreeUnits(free) \cup Units(block)
  BY <1>2, UnitsCount DEF FreeUnits
<1>4. FreeUnits(free) \cap Units(block) = {}
  BY UnitsCount DEF FreeUnits
<1>5. Cardinality(FreeUnits(free) \cap Units(block)) = 0
  BY <1>4, FS_EmptySet
<1>6. Cardinality(FreeUnits(after))
        = Cardinality(FreeUnits(free)) + Cardinality(Units(block))
            - Cardinality(FreeUnits(free) \cap Units(block))
  BY <1>3, UnitsCount, FreeUnitsFinite, FS_Union
<1>7. Cardinality(FreeUnits(free)) \in Nat /\ Cardinality(Units(block)) = block.size
  BY UnitsCount, FreeUnitsFinite
<1> QED
  BY <1>1, <1>5, <1>6, <1>7

\* Blocks that are apart share no unit.
LEMMA ApartUnits ==
    ASSUME NEW b \in Blk, NEW c \in Blk
    PROVE  /\ Apart(b, c) <=> \A u \in Nat : ~(In(u, b) /\ In(u, c))
           /\ Apart(b, c) => b.at # c.at /\ b # c
           /\ Apart(b, c) <=> Apart(c, b)
<1>1. /\ b.at \in Nat /\ b.size \in Nat /\ b.size > 0
      /\ c.at \in Nat /\ c.size \in Nat /\ c.size > 0
  BY DEF Blk
<1>2. ASSUME ~Apart(b, c)
      PROVE  \E u \in Nat : In(u, b) /\ In(u, c)
  <2>1. CASE b.at <= c.at
    BY <1>1, <1>2, <2>1 DEF Apart, In
  <2>2. CASE c.at <= b.at
    BY <1>1, <1>2, <2>2 DEF Apart, In
  <2> QED
    BY <1>1, <2>1, <2>2
<1>3. ASSUME Apart(b, c), NEW u \in Nat, In(u, b), In(u, c)
      PROVE  FALSE
  BY <1>1, <1>3 DEF Apart, In
<1> QED
  BY <1>1, <1>2, <1>3 DEF Apart

LEMMA FirstFitIs ==
    ASSUME NEW h, WholeHeap(h), NEW wanted \in Nat, \E b \in h.free : b.size >= wanted
    PROVE  FirstFit(h, wanted) \in h.free /\ FirstFit(h, wanted).size >= wanted
<1> DEFINE fits == {b \in h.free : b.size >= wanted}
<1>1. \A b \in fits : b.at \in Nat
  BY DEF WholeHeap, Packed, Blk
<1>2. {b.at : b \in fits} \in SUBSET Nat /\ {b.at : b \in fits} # {}
  BY <1>1
<1>3. PICK n \in {b.at : b \in fits} : \A k \in {b.at : b \in fits} : n <= k
  <2> HIDE DEF fits
  <2> QED
    BY <1>2, LeastNat
<1>4. \E b \in fits : \A other \in fits : b.at <= other.at
  BY <1>3
<1>5. FirstFit(h, wanted) \in fits
  <2>1. FirstFit(h, wanted) = CHOOSE b \in fits : \A other \in fits : b.at <= other.at
    BY DEF FirstFit
  <2> HIDE DEF fits
  <2> QED
    BY <1>4, <2>1
<1> QED
  BY <1>5

\* Without room the heap stays; otherwise a block leaves the free ones, and it
\* is none of those in use.
LEMMA MallocIs ==
    ASSUME NEW h, WholeHeap(h), NEW n \in Nat, NEW got, got = pvPortMalloc(h, n)
    PROVE  \/ got.heap = h /\ got.at = NULL
           \/ \E taken \in Blk : /\ got.at = taken.at + Header
                                 /\ WholeHeap(got.heap)
                                 /\ got.heap.used = h.used \cup {taken}
                                 /\ \A b \in h.used : b.at # taken.at
<1> DEFINE wanted == IF n > 0 THEN n + Header ELSE 0
           found == FirstFit(h, wanted)
           splits == found.size - wanted > heapMINIMUM_BLOCK_SIZE
           taken == IF splits THEN Block(found.at, wanted) ELSE found
           rest == Block(found.at + wanted, found.size - wanted)
           left == h.free \ {found}
           free == IF splits THEN prvInsertBlockIntoFreeList(left, rest) ELSE left
           end == HeapUnits - Header
<1>1. got = IF ~CanFit(h, wanted) THEN [heap |-> h, at |-> NULL]
            ELSE [heap |-> [free |-> free, used |-> h.used \cup {taken},
                            xFreeBytesRemaining |-> h.xFreeBytesRemaining - taken.size],
                  at |-> found.at + Header]
  BY DEF pvPortMalloc
<1>2. CASE ~CanFit(h, wanted)
  BY <1>1, <1>2
<1>3. CASE CanFit(h, wanted)
  <2>1. wanted \in Nat /\ wanted > 0 /\ \E b \in h.free : b.size >= wanted
    BY <1>3 DEF CanFit, Header
  <2> HIDE DEF wanted
  <2>2. found \in h.free /\ found.size >= wanted
    BY <2>1, FirstFitIs
  <2>3. /\ h.free \cup h.used \subseteq Blk /\ h.free \cap h.used = {}
        /\ \A b, c \in h.free \cup h.used : b # c => Apart(b, c)
        /\ \A b \in h.free \cup h.used : b.at + b.size <= end
        /\ Joined(h.free) /\ IsFiniteSet(h.used) /\ end \in Nat
        /\ h.xFreeBytesRemaining = Cardinality(FreeUnits(h.free))
    BY HeapUnitsAssumption DEF WholeHeap, Packed, Header
  <2> HIDE DEF found, end
  <2>4. found \in Blk /\ found.at \in Nat /\ found.size \in Nat /\ found.size > 0
        /\ found.at + found.size <= end
    BY <2>2, <2>3 DEF Blk
  <2>5. \A b \in left \cup h.used : b \in Blk /\ Apart(b, found)
    BY <2>2, <2>3
  <2>6. Packed(left) /\ Joined(left)
    BY <2>3 DEF Packed, Joined
  \* What the list becomes, and what the caller gets.
  <2>7. /\ taken \in Blk /\ taken.at = found.at /\ taken.at + taken.size <= end
        /\ Packed(free) /\ Joined(free)
        /\ \A u \in Nat : (\E b \in free : In(u, b))
                             <=> (\E b \in h.free : In(u, b)) /\ ~In(u, taken)
        /\ \A u \in Nat : In(u, taken) => \E b \in h.free : In(u, b)
        /\ \A b \in free : Apart(b, taken) /\ b.at + b.size <= end
        /\ \A b \in h.used : Apart(b, taken)
        /\ \A b \in free, c \in h.used : Apart(b, c)
    <3>1. \A u \in Nat : (\E b \in left : In(u, b))
                            <=> (\E b \in h.free : In(u, b)) /\ ~In(u, found)
      <4>1. \A u \in Nat : \A b \in left : ~(In(u, b) /\ In(u, found))
        BY <2>4, <2>5, ApartUnits
      <4> QED
        BY <2>2, <4>1
    <3>2. CASE ~splits
      <4>1. taken = found /\ free = left
        BY <3>2
      <4>2. \A b \in h.free : b.at + b.size <= end
        BY <2>3
      <4>3. \A b \in left, c \in h.used : Apart(b, c)
        BY <2>3
      <4> HIDE DEF taken, free
      <4> QED
        BY <2>2, <2>4, <2>5, <2>6, <3>1, <4>1, <4>2, <4>3
    <3>3. CASE splits
      <4>1. /\ taken = Block(found.at, wanted) /\ free = prvInsertBlockIntoFreeList(left, rest)
            /\ found.size > wanted + 2
        BY <2>1, <2>4, <3>3 DEF heapMINIMUM_BLOCK_SIZE, Header
      <4>2. /\ taken \in Blk /\ taken.at = found.at /\ taken.size = wanted
            /\ rest \in Blk /\ rest.at = found.at + wanted /\ rest.size = found.size - wanted
        BY <2>1, <2>4, <4>1 DEF Block, Blk
      <4> HIDE DEF taken, free, rest, splits
      <4>3. /\ taken.at + taken.size = rest.at /\ rest.at + rest.size = found.at + found.size
            /\ rest.at \in Nat /\ rest.size \in Nat /\ taken.size \in Nat
            /\ rest.size > 0 /\ taken.size > 0
        BY <2>1, <2>4, <4>1, <4>2
      <4>4. ASSUME NEW b \in left \cup h.used
            PROVE  Apart(b, rest) /\ Apart(b, taken)
        <5>1. b.at \in Nat /\ b.size \in Nat /\ b.size > 0 /\ Apart(b, found)
          BY <2>5 DEF Blk
        <5> QED
          BY <2>4, <4>2, <4>3, <5>1 DEF Apart
      <4>5. Apart(taken, rest)
        BY <4>3 DEF Apart
      <4>6. /\ Packed(free) /\ Joined(free)
            /\ \A u \in Nat : (\E b \in free : In(u, b))
                                 <=> In(u, rest) \/ \E b \in left : In(u, b)
            /\ \A c \in Blk : Apart(c, rest) /\ (\A b \in left : Apart(b, c))
                                 => \A b \in free : Apart(b, c)
            /\ \A last \in Nat : /\ \A b \in left : b.at + b.size <= last
                                 /\ rest.at + rest.size <= last
                                 => \A b \in free : b.at + b.size <= last
        <5>1. \A b \in left : Apart(b, rest)
          BY <4>4
        <5> HIDE DEF left
        <5> QED
          BY <2>6, <4>1, <4>2, <5>1, InsertIs
      <4>7. \A u \in Nat : In(u, found) <=> In(u, taken) \/ In(u, rest)
        BY <2>4, <4>2, <4>3 DEF In
      <4>8. \A u \in Nat : ~(In(u, taken) /\ In(u, rest))
        BY <2>4, <4>2, <4>3 DEF In
      <4>9. \A u \in Nat : (\E b \in free : In(u, b))
                              <=> (\E b \in h.free : In(u, b)) /\ ~In(u, taken)
        BY <2>2, <3>1, <4>6, <4>7, <4>8
      <4>10. \A b \in free : Apart(b, taken)
        BY <4>2, <4>4, <4>5, <4>6
      <4>11. \A b \in free, c \in h.used : Apart(b, c)
        <5> SUFFICES ASSUME NEW c \in h.used
                     PROVE  \A b \in free : Apart(b, c)
          OBVIOUS
        <5>1. c \in Blk /\ Apart(c, rest) /\ \A b \in left : Apart(b, c)
          BY <2>3, <4>4
        <5> QED
          BY <4>6, <5>1
      <4>12. \A b \in free : b.at + b.size <= end
        <5>1. \A b \in left : b.at + b.size <= end
          BY <2>3
        <5>2. rest.at + rest.size <= end
          BY <2>4, <4>3
        <5> QED
          BY <2>3, <4>6, <5>1, <5>2
      <4>13. taken.at + taken.size <= end
        <5>1. taken.at + taken.size = found.at + wanted /\ end \in Nat
          BY <2>3, <4>2
        <5> HIDE DEF end
        <5> QED
          BY <2>1, <2>4, <4>1, <5>1
      <4>14. \A u \in Nat : In(u, taken) => \E b \in h.free : In(u, b)
        BY <2>2, <4>7
      <4> QED
        BY <4>2, <4>4, <4>6, <4>9, <4>10, <4>11, <4>12, <4>13, <4>14
    <3> QED
      BY <3>2, <3>3
  <2> HIDE DEF taken, free, left, rest, splits
  <2>8. /\ got.heap = [free |-> free, used |-> h.used \cup {taken},
                       xFreeBytesRemaining |-> h.xFreeBytesRemaining - taken.size]
        /\ got.at = taken.at + Header
    BY <1>1, <1>3, <2>7
  <2>9. \A b \in h.used : b.at # taken.at /\ b # taken
    BY <2>3, <2>7, ApartUnits
  <2>10. WholeHeap(got.heap)
    <3>1. got.heap.free = free /\ got.heap.used = h.used \cup {taken}
          /\ got.heap.xFreeBytesRemaining = h.xFreeBytesRemaining - taken.size
      BY <2>8
    <3>2. free \subseteq Blk /\ \A b \in free : b # taken /\ b \notin h.used
      <4>1. free \subseteq Blk
        BY <2>7 DEF Packed
      <4> QED
        BY <2>3, <2>7, <4>1, ApartUnits
    <3>3. Packed(free \cup (h.used \cup {taken}))
      <4>1. free \cup (h.used \cup {taken}) \subseteq Blk
        BY <2>3, <2>7, <3>2
      <4>2. ASSUME NEW b \in free \cup (h.used \cup {taken}), NEW c \in free \cup (h.used \cup {taken}),
                   b # c
            PROVE  Apart(b, c)
        <5>1. CASE b \in free /\ c \in free
          BY <2>7, <4>2, <5>1 DEF Packed
        <5>2. CASE b \in h.used /\ c \in h.used
          BY <2>3, <4>2, <5>2
        <5>3. CASE b = taken
          BY <2>7, <4>1, <4>2, <5>3, ApartUnits
        <5>4. CASE c = taken
          BY <2>7, <4>2, <5>4
        <5>5. CASE b \in free /\ c \in h.used
          BY <2>7, <5>5
        <5>6. CASE b \in h.used /\ c \in free
          BY <2>7, <4>1, <5>6, ApartUnits
        <5> QED
          BY <5>1, <5>2, <5>3, <5>4, <5>5, <5>6
      <4> QED
        BY <4>1, <4>2 DEF Packed
    <3>4. IsFiniteSet(h.used \cup {taken})
      BY <2>3, FS_AddElement
    <3>5. \A b \in free \cup (h.used \cup {taken}) : b.at + b.size <= HeapUnits - Header
      BY <2>3, <2>7 DEF end
    <3>6. \A u \in 0 .. (HeapUnits - Header - 1) : \E b \in free \cup (h.used \cup {taken}) : In(u, b)
      <4> SUFFICES ASSUME NEW u \in 0 .. (HeapUnits - Header - 1)
                   PROVE  \E b \in free \cup (h.used \cup {taken}) : In(u, b)
        OBVIOUS
      <4>1. u \in Nat /\ \E b \in h.free \cup h.used : In(u, b)
        BY HeapUnitsAssumption DEF WholeHeap, Header
      <4> QED
        BY <2>7, <4>1
    <3>7. Cardinality(FreeUnits(free)) = Cardinality(FreeUnits(h.free)) - taken.size
      BY <2>7, FreeUnitsShrink DEF end
    <3> QED
      BY <2>3, <2>7, <2>8, <3>1, <3>2, <3>3, <3>4, <3>5, <3>6, <3>7 DEF WholeHeap
  <2> QED
    BY <2>7, <2>8, <2>9, <2>10
<1> QED
  BY <1>2, <1>3

\* What is in use goes back to the free blocks.
LEMMA FreeIs ==
    ASSUME NEW h, WholeHeap(h), NEW block \in h.used, NEW at, at = block.at + Header
    PROVE  WholeHeap(vPortFree(h, at)) /\ vPortFree(h, at).used = h.used \ {block}
<1> DEFINE free == prvInsertBlockIntoFreeList(h.free, block)
           end == HeapUnits - Header
<1>1. /\ h.free \cup h.used \subseteq Blk /\ h.free \cap h.used = {}
      /\ \A b, c \in h.free \cup h.used : b # c => Apart(b, c)
      /\ \A b \in h.free \cup h.used : b.at + b.size <= end
      /\ Joined(h.free) /\ IsFiniteSet(h.used) /\ end \in Nat
      /\ h.xFreeBytesRemaining = Cardinality(FreeUnits(h.free))
  BY HeapUnitsAssumption DEF WholeHeap, Packed, Header
<1>2. \A b \in h.used : b.at \in Nat
  BY <1>1 DEF Blk
<1>3. \A b \in h.used : b.at + Header = at => b = block
  <2> SUFFICES ASSUME NEW b \in h.used, b.at + Header = at, b # block
               PROVE  FALSE
    OBVIOUS
  <2>1. Apart(b, block) /\ b \in Blk /\ block \in Blk
    BY <1>1
  <2>2. b.at # block.at
    BY <2>1, ApartUnits
  <2> QED
    BY <1>2, <2>2 DEF Header
<1>4. vPortFree(h, at) = [free |-> free, used |-> h.used \ {block},
                          xFreeBytesRemaining |-> h.xFreeBytesRemaining + block.size]
  <2>1. (CHOOSE b \in h.used : b.at + Header = at) = block
    BY <1>3
  <2> QED
    BY <2>1 DEF vPortFree
<1>5. /\ block \in Blk /\ Packed(h.free) /\ Joined(h.free)
      /\ \A b \in h.free : Apart(b, block)
  BY <1>1 DEF Packed
<1>6. /\ Packed(free) /\ Joined(free)
      /\ \A u \in Nat : (\E b \in free : In(u, b)) <=> In(u, block) \/ \E b \in h.free : In(u, b)
      /\ \A c \in Blk : Apart(c, block) /\ (\A b \in h.free : Apart(b, c))
                           => \A b \in free : Apart(b, c)
      /\ \A last \in Nat : /\ \A b \in h.free : b.at + b.size <= last
                           /\ block.at + block.size <= last
                           => \A b \in free : b.at + b.size <= last
  BY <1>5, InsertIs
<1> HIDE DEF free, end
<1>7. \A b \in free, c \in h.used \ {block} : Apart(b, c)
  <2> SUFFICES ASSUME NEW c \in h.used \ {block}
               PROVE  \A b \in free : Apart(b, c)
    OBVIOUS
  <2>1. c \in Blk /\ Apart(c, block) /\ \A b \in h.free : Apart(b, c)
    BY <1>1
  <2> QED
    BY <1>6, <2>1
<1>8. \A b \in free : b.at + b.size <= end
  BY <1>1, <1>6
<1>9. free \subseteq Blk
  BY <1>6 DEF Packed
<1>10. free \cap (h.used \ {block}) = {}
  BY <1>1, <1>7, <1>9, ApartUnits
<1>11. Packed(free \cup (h.used \ {block}))
  <2>1. free \cup (h.used \ {block}) \subseteq Blk
    BY <1>1, <1>9
  <2>2. ASSUME NEW b \in free \cup (h.used \ {block}), NEW c \in free \cup (h.used \ {block}), b # c
        PROVE  Apart(b, c)
    <3>1. CASE b \in free /\ c \in free
      BY <1>6, <2>2, <3>1 DEF Packed
    <3>2. CASE b \in h.used /\ c \in h.used
      BY <1>1, <2>2, <3>2
    <3>3. CASE b \in free /\ c \in h.used \ {block}
      BY <1>7, <3>3
    <3>4. CASE b \in h.used \ {block} /\ c \in free
      BY <1>7, <2>1, <3>4, ApartUnits
    <3> QED
      BY <3>1, <3>2, <3>3, <3>4
  <2> QED
    BY <2>1, <2>2 DEF Packed
<1>12. \A u \in 0 .. (HeapUnits - Header - 1) : \E b \in free \cup (h.used \ {block}) : In(u, b)
  <2> SUFFICES ASSUME NEW u \in 0 .. (HeapUnits - Header - 1)
               PROVE  \E b \in free \cup (h.used \ {block}) : In(u, b)
    OBVIOUS
  <2>1. u \in Nat /\ \E b \in h.free \cup h.used : In(u, b)
    BY HeapUnitsAssumption DEF WholeHeap, Header
  <2> QED
    BY <1>6, <2>1
<1>13. Cardinality(FreeUnits(free)) = Cardinality(FreeUnits(h.free)) + block.size
  <2>1. \A u \in Nat : In(u, block) => ~ \E b \in h.free : In(u, b)
    BY <1>1, <1>5, ApartUnits
  <2>2. block.at + block.size <= HeapUnits - Header
    BY <1>1 DEF end
  <2> QED
    BY <1>5, <1>6, <2>1, <2>2, FreeUnitsGrow
<1>14. IsFiniteSet(h.used \ {block})
  BY <1>1, FS_RemoveElement
<1> DEFINE g == vPortFree(h, at)
<1>15. /\ g.free = free /\ g.used = h.used \ {block}
       /\ g.xFreeBytesRemaining = h.xFreeBytesRemaining + block.size
       /\ g = [free |-> g.free, used |-> g.used, xFreeBytesRemaining |-> g.xFreeBytesRemaining]
  BY <1>4
<1> HIDE DEF g
<1>16. \A b \in free \cup (h.used \ {block}) : b.at + b.size <= HeapUnits - Header
  BY <1>1, <1>8 DEF end
<1>17. WholeHeap(g)
  BY <1>1, <1>6, <1>10, <1>11, <1>12, <1>13, <1>14, <1>15, <1>16 DEF WholeHeap
<1> QED
  BY <1>15, <1>17 DEF g

\* An address that is in use by nobody, NULL among them, is left alone.
LEMMA FreeNothing ==
    ASSUME NEW h, NEW at, ~ \E b \in h.used : b.at + Header = at
    PROVE  vPortFree(h, at) = h
BY DEF vPortFree

LEMMA InitHeap == WholeHeap(prvHeapInit) /\ prvHeapInit.used = {}
<1> DEFINE b == Block(0, HeapUnits - Header)
           n == HeapUnits - Header
<1>1. /\ prvHeapInit.free = {b} /\ prvHeapInit.used = {} /\ prvHeapInit.xFreeBytesRemaining = n
      /\ prvHeapInit = [free |-> {b}, used |-> {}, xFreeBytesRemaining |-> n]
  BY DEF prvHeapInit
<1>2. n \in Nat /\ n > 0 /\ b \in Blk /\ b.at = 0 /\ b.size = n
  BY HeapUnitsAssumption DEF Header, Block, Blk
<1> HIDE DEF b
<1>3. FreeUnits({b}) = 0 .. (n - 1)
  BY <1>2 DEF FreeUnits, In
<1>4. Cardinality(0 .. (n - 1)) = n
  <2>1. 0 \in Int /\ n - 1 \in Int
    BY <1>2
  <2>2. Cardinality(0 .. (n - 1)) = IF 0 > n - 1 THEN 0 ELSE (n - 1) - 0 + 1
    <3> DEFINE last == n - 1
    <3> HIDE DEF last
    <3>1. Cardinality(0 .. last) = IF 0 > last THEN 0 ELSE last - 0 + 1
      BY <2>1, FS_Interval DEF last
    <3> QED
      BY <3>1 DEF last
  <2> HIDE DEF n
  <2> QED
    BY <1>2, <2>2
<1>5. Packed({b})
  BY <1>2 DEF Packed
<1>6. Joined({b})
  BY <1>2 DEF Joined
<1>7. \A u \in 0 .. (n - 1) : In(u, b)
  BY <1>2 DEF In
<1>8. b.at + b.size <= n
  BY <1>2
<1>9. IsFiniteSet({})
  BY FS_EmptySet
<1> QED
  BY <1>1, <1>3, <1>4, <1>5, <1>6, <1>7, <1>8, <1>9 DEF WholeHeap

LEMMA WholeIsWhole ==
    ASSUME NEW h, WholeHeap(h)
    PROVE  HeapIsWhole(h)
<1> DEFINE blocks == h.free \cup h.used
           end == HeapUnits - Header
<1>1. /\ blocks \subseteq Blk /\ \A b, c \in blocks : b # c => Apart(b, c)
      /\ \A b \in blocks : b.at + b.size <= end
      /\ \A u \in 0 .. (end - 1) : \E b \in blocks : In(u, b)
      /\ Joined(h.free) /\ h.xFreeBytesRemaining = Cardinality(FreeUnits(h.free))
      /\ end \in Nat
  BY HeapUnitsAssumption DEF WholeHeap, Packed, Header
<1> HIDE DEF end
<1>2. \A b \in blocks : \A u : u \in Units(b) <=> u \in Nat /\ In(u, b)
  BY <1>1, UnitsCount
<1>3. ASSUME NEW b \in blocks, NEW c \in blocks, b # c
      PROVE  Units(b) \cap Units(c) = {}
  BY <1>1, <1>2, <1>3, ApartUnits
<1>4. \A b \in blocks : \A u \in Nat : In(u, b) => u \in 0 .. (end - 1)
  <2> SUFFICES ASSUME NEW b \in blocks, NEW u \in Nat, In(u, b)
               PROVE  u \in 0 .. (end - 1)
    OBVIOUS
  <2>1. b.at \in Nat /\ b.size \in Nat /\ b.at + b.size <= end
    BY <1>1 DEF Blk
  <2> QED
    BY <1>1, <2>1 DEF In
<1>5. \A u \in 0 .. (end - 1) : u \in Nat
  BY <1>1
<1>6. UNION {Units(b) : b \in blocks} = 0 .. (end - 1)
  <2> HIDE DEF blocks
  <2>1. \A u : u \in UNION {Units(b) : b \in blocks} <=> \E b \in blocks : u \in Units(b)
    OBVIOUS
  <2> QED
    BY <1>1, <1>2, <1>4, <1>5, <2>1
<1>7. UNION {Units(b) : b \in h.free} = FreeUnits(h.free)
  <2>1. \A u : u \in UNION {Units(b) : b \in h.free} <=> \E b \in h.free : u \in Units(b)
    OBVIOUS
  <2>2. FreeUnits(h.free) = {u \in 0 .. (end - 1) : \E b \in h.free : In(u, b)}
    BY DEF FreeUnits, end
  <2> QED
    BY <1>2, <1>4, <1>5, <2>1, <2>2
<1> QED
  BY <1>1, <1>3, <1>6, <1>7 DEF HeapIsWhole, Joined, end

(***************************************************************************)
(* Where a buffer is: in the list, in a task's hands, in an event or with  *)
(* a socket.                                                               *)
(***************************************************************************)
Labels == {"idle", "get", "remove", "malloc", "insert", "give", "free", "copy", "send", "output",
           "post"}

\* Where a task has a buffer, and where that buffer has memory.
Holding == {"malloc", "insert", "free", "copy", "send", "output", "post"}
Loaded == {"free", "copy", "send", "output", "post"}

Event == [type : {"eNetworkRxEvent", "eStackTxEvent"}, buffer : Buffers]

DriverTypes ==
    /\ freeList \in Seq(Buffers)
    /\ semaphore \in Nat
    /\ memory \in [Buffers -> Nat \cup {NULL}]
    /\ \A i \in 0 .. RxRing - 1 : rx[i] # Owned => rx[i].size \in Nat
    /\ rx = [i \in 0 .. RxRing - 1 |-> rx[i]]
    /\ rxHw \in 0 .. RxRing - 1 /\ rxIndex \in 0 .. RxRing - 1
    /\ events \in Seq(Event)
    /\ pc \in [Procs -> Labels]
    /\ holds \in [Procs -> Buffers \cup {NULL}]
    /\ size \in [Procs -> Nat]
    /\ sockets \subseteq Buffers
    /\ others \subseteq Nat /\ IsFiniteSet(others)

\* A task has a buffer where its code says so; a buffer has memory from the
\* allocation to the release.
Hands ==
    /\ \A t \in Procs : holds[t] # NULL <=> pc[t] \in Holding
    /\ \A t, u \in Procs : holds[t] = holds[u] /\ holds[t] # NULL => t = u
    /\ \A t \in Procs : holds[t] # NULL => (memory[holds[t]] # NULL <=> pc[t] \in Loaded)
    /\ \A b \in Elems(freeList) : memory[b] = NULL
    /\ \A b \in Posted \cup sockets : memory[b] # NULL

\* Each buffer is in one place, once.
OnePlace ==
    /\ IsInjective(freeList)
    /\ \A i, j \in DOMAIN events : events[i].buffer = events[j].buffer => i = j
    /\ Elems(freeList) \cap HeldBuffers = {} /\ HeldBuffers \cap Posted = {} /\ HeldBuffers \cap sockets = {}
    /\ Posted \cap sockets = {}
    /\ Elems(freeList) \cup HeldBuffers \cup Posted \cup sockets = Buffers

\* The semaphore counts what is in the list, but for the tasks between the two.
Between == {t \in Procs : pc[t] \in {"remove", "give"}}
Counted == Len(freeList) = semaphore + Cardinality(Between)

\* The blocks in use are those of the buffers and of the application.
Owners == {b \in Buffers : memory[b] # NULL}
Blocks ==
    /\ WholeHeap(heap)
    /\ \A b, c \in Owners : memory[b] = memory[c] => b = c
    /\ \A b \in Owners : memory[b] \notin others
    /\ {b.at + Header : b \in heap.used} = {memory[b] : b \in Owners} \cup others
    /\ Cardinality(heap.used) = Cardinality(Owners) + Cardinality(others)

InHand == DriverTypes /\ Hands /\ OnePlace /\ Counted /\ Blocks

(***************************************************************************)
(* Queues of buffers that are each in it once.                             *)
(***************************************************************************)
LEMMA OnceAppend ==
    ASSUME NEW T, NEW q \in Seq(T), NEW m \in T, IsInjective(q), m \notin Elems(q)
    PROVE  /\ Append(q, m) \in Seq(T) /\ Len(Append(q, m)) = Len(q) + 1
           /\ IsInjective(Append(q, m)) /\ Elems(Append(q, m)) = Elems(q) \cup {m}
<1>1. Len(Append(q, m)) = Len(q) + 1 /\ DOMAIN q = 1..Len(q) /\ Append(q, m) \in Seq(T)
      /\ DOMAIN Append(q, m) = 1..(Len(q) + 1) /\ Len(q) \in Nat
  OBVIOUS
<1>2. \A i \in 1..Len(q) : Append(q, m)[i] = q[i] /\ q[i] # m
  BY <1>1 DEF Elems
<1>3. Append(q, m)[Len(q) + 1] = m
  OBVIOUS
<1>4. \A i, j \in 1..Len(q) : q[i] = q[j] => i = j
  BY <1>1 DEF IsInjective
<1>5. \A i \in 1..(Len(q) + 1) : i \in 1..Len(q) \/ i = Len(q) + 1
  BY <1>1
<1>6. IsInjective(Append(q, m))
  BY <1>1, <1>2, <1>3, <1>4, <1>5 DEF IsInjective
<1> QED
  BY <1>1, <1>6, ElemsAppend

LEMMA OnceTail ==
    ASSUME NEW T, NEW q \in Seq(T), IsInjective(q), q # <<>>
    PROVE  /\ Head(q) \in T /\ Head(q) \in Elems(q)
           /\ Tail(q) \in Seq(T) /\ Len(Tail(q)) = Len(q) - 1
           /\ IsInjective(Tail(q)) /\ Elems(Tail(q)) = Elems(q) \ {Head(q)}
<1>1. /\ Head(q) = q[1] /\ Tail(q) \in Seq(T) /\ Len(Tail(q)) = Len(q) - 1 /\ Len(q) \in Nat
      /\ DOMAIN q = 1..Len(q) /\ Len(q) >= 1 /\ DOMAIN Tail(q) = 1..(Len(q) - 1)
  OBVIOUS
<1>2. \A i \in 1..(Len(q) - 1) : Tail(q)[i] = q[i + 1]
  OBVIOUS
<1>3. \A i \in 1..(Len(q) - 1) : i + 1 \in 1..Len(q) /\ i + 1 # 1
  BY <1>1
<1>4. \A i, j \in 1..Len(q) : q[i] = q[j] => i = j
  BY <1>1 DEF IsInjective
<1>5. \A i, j \in 1..(Len(q) - 1) : Tail(q)[i] = Tail(q)[j] => i = j
  <2> SUFFICES ASSUME NEW i \in 1..(Len(q) - 1), NEW j \in 1..(Len(q) - 1), Tail(q)[i] = Tail(q)[j]
               PROVE  i = j
    OBVIOUS
  <2>1. i + 1 = j + 1
    BY <1>2, <1>3, <1>4
  <2> QED
    BY <1>1, <2>1
<1>6. Head(q) \notin Elems(Tail(q))
  <2> SUFFICES ASSUME NEW i \in 1..(Len(q) - 1), Tail(q)[i] = Head(q)
               PROVE  FALSE
    BY <1>1 DEF Elems
  <2>1. q[i + 1] = q[1] /\ 1 \in 1..Len(q)
    BY <1>1, <1>2
  <2> QED
    BY <1>3, <1>4, <2>1
<1>7. Elems(q) = Elems(Tail(q)) \cup {Head(q)}
  BY ElemsHead
<1>8. IsInjective(Tail(q))
  BY <1>1, <1>5 DEF IsInjective
<1>9. Head(q) \in T
  BY <1>1
<1> QED
  BY <1>1, <1>6, <1>7, <1>8, <1>9

LEMMA OnceCount ==
    ASSUME NEW T, NEW q \in Seq(T), IsInjective(q)
    PROVE  IsFiniteSet(Elems(q)) /\ Cardinality(Elems(q)) = Len(q)
<1>1. DOMAIN q = 1..Len(q) /\ Len(q) \in Nat /\ q \in [1..Len(q) -> T]
  OBVIOUS
<1>2. q \in Bijection(1..Len(q), Elems(q))
  <2>1. q \in [1..Len(q) -> Elems(q)]
    BY <1>1 DEF Elems
  <2>2. \A i, j \in 1..Len(q) : q[i] = q[j] => i = j
    BY <1>1 DEF IsInjective
  <2> QED
    BY <1>1, <2>1, <2>2 DEF Bijection, Injection, Surjection, Elems
<1>3. 1 \in Int /\ Len(q) \in Int
  BY <1>1
<1>4. IsFiniteSet(1..Len(q)) /\ Cardinality(1..Len(q)) = Len(q)
  <2>1. IsFiniteSet(1..Len(q))
        /\ Cardinality(1..Len(q)) = IF 1 > Len(q) THEN 0 ELSE Len(q) - 1 + 1
    BY <1>3, FS_Interval
  <2> QED
    BY <1>1, <2>1
<1>5. ExistsBijection(1..Len(q), Elems(q))
  BY <1>2 DEF ExistsBijection
<1> QED
  BY <1>4, <1>5, FS_Bijection

\* The buffers of a queue of events.
Carried(q) == [i \in DOMAIN q |-> q[i].buffer]

LEMMA CarriedIs ==
    ASSUME NEW q \in Seq(Event)
    PROVE  /\ Carried(q) \in Seq(Buffers) /\ Len(Carried(q)) = Len(q)
           /\ \A e \in Event : Carried(Append(q, e)) = Append(Carried(q), e.buffer)
           /\ q # <<>> => /\ Carried(q) # <<>>
                          /\ Carried(Tail(q)) = Tail(Carried(q))
                          /\ Head(q).buffer = Head(Carried(q))
                          /\ Head(q) \in Event
<1>1. DOMAIN q = 1..Len(q) /\ Len(q) \in Nat /\ \A i \in 1..Len(q) : q[i] \in Event
  OBVIOUS
<1>2. Carried(q) \in [1..Len(q) -> Buffers]
  BY <1>1 DEF Carried, Event
<1>3. Carried(q) \in Seq(Buffers) /\ Len(Carried(q)) = Len(q)
  BY <1>1, <1>2, FunctionIsSeq
<1>4. ASSUME NEW e \in Event
      PROVE  Carried(Append(q, e)) = Append(Carried(q), e.buffer)
  <2>1. DOMAIN Append(q, e) = 1..(Len(q) + 1)
    OBVIOUS
  <2>2. \A i \in 1..(Len(q) + 1) : Append(q, e)[i] = IF i <= Len(q) THEN q[i] ELSE e
    BY <1>1
  <2> DEFINE f == Carried(Append(q, e))
  <2>3. /\ DOMAIN f = 1..(Len(Carried(q)) + 1) /\ f = [i \in DOMAIN f |-> f[i]]
        /\ f[Len(Carried(q)) + 1] = e.buffer
        /\ \A i \in 1..Len(Carried(q)) : f[i] = Carried(q)[i]
    BY <1>1, <1>3, <2>1, <2>2 DEF Carried
  <2>4. e.buffer \in Buffers
    BY DEF Event
  <2> HIDE DEF f
  <2> QED
    BY <1>3, <2>3, <2>4, AppendIs DEF f
<1>5. ASSUME q # <<>>
      PROVE  /\ Carried(q) # <<>>
             /\ Carried(Tail(q)) = Tail(Carried(q))
             /\ Head(q).buffer = Head(Carried(q))
             /\ Head(q) \in Event
  <2>1. Len(q) > 0 /\ Len(Carried(q)) > 0
    BY <1>1, <1>3, <1>5
  <2>2. Carried(q) # <<>>
    BY <2>1
  <2>3. Head(q) = q[1] /\ Head(Carried(q)) = Carried(q)[1] /\ 1 \in 1..Len(q)
    BY <1>1, <2>1
  <2>4. /\ DOMAIN Tail(q) = 1..(Len(q) - 1)
        /\ \A i \in 1..(Len(q) - 1) : Tail(q)[i] = q[i + 1] /\ i + 1 \in 1..Len(q)
    BY <1>1, <1>5
  <2>5. /\ Tail(Carried(q)) \in Seq(Buffers)
        /\ DOMAIN Tail(Carried(q)) = 1..(Len(q) - 1)
        /\ \A i \in 1..(Len(q) - 1) : Tail(Carried(q))[i] = Carried(q)[i + 1]
    BY <1>3, <2>1, <2>2
  <2>6. Tail(Carried(q)) = [i \in 1..(Len(q) - 1) |-> Tail(Carried(q))[i]]
    <3> DEFINE g == Tail(Carried(q))
    <3>1. g \in Seq(Buffers) /\ DOMAIN g = 1..(Len(q) - 1)
      BY <2>5
    <3> HIDE DEF g
    <3>2. g = [i \in DOMAIN g |-> g[i]]
      BY <3>1
    <3> QED
      BY <3>1, <3>2 DEF g
  <2>7. Carried(Tail(q)) = [i \in 1..(Len(q) - 1) |-> q[i + 1].buffer]
    BY <2>4 DEF Carried
  <2>8. \A i \in 1..(Len(q) - 1) : Tail(Carried(q))[i] = q[i + 1].buffer
    BY <1>1, <2>4, <2>5 DEF Carried
  <2> QED
    BY <1>1, <2>2, <2>3, <2>6, <2>7, <2>8 DEF Carried
<1> QED
  BY <1>3, <1>4, <1>5

(***************************************************************************)
(* Steps that take a buffer, and steps that give one away.                 *)
(***************************************************************************)
HeldBy(f) == {f[t] : t \in Procs} \ {NULL}

LEMMA TakesBuffer ==
    ASSUME NEW f \in [Procs -> Buffers \cup {NULL}], NEW t \in Procs, NEW b \in Buffers, f[t] = NULL
    PROVE  HeldBy([f EXCEPT ![t] = b]) = HeldBy(f) \cup {b}
<1>1. b # NULL
  BY DriverAssumption
<1> QED
  BY <1>1 DEF HeldBy

LEMMA GivesBuffer ==
    ASSUME NEW f \in [Procs -> Buffers \cup {NULL}], NEW t \in Procs, f[t] # NULL,
           \A u, v \in Procs : f[u] = f[v] /\ f[u] # NULL => u = v
    PROVE  HeldBy([f EXCEPT ![t] = NULL]) = HeldBy(f) \ {f[t]}
BY DEF HeldBy

LEMMA TasksFinite == IsFiniteSet(Procs)
<1>1. IsFiniteSet({"emac"})
  BY FS_Singleton
<1>2. IsFiniteSet({"emac"} \cup {"ip"})
  BY <1>1, FS_AddElement
<1>3. IsFiniteSet(({"emac"} \cup {"ip"}) \cup {"app"})
  BY <1>2, FS_AddElement
<1>4. Procs = ({"emac"} \cup {"ip"}) \cup {"app"}
  BY DEF Procs
<1> QED
  BY <1>3, <1>4

\* A task that is about to take the head of the list finds one.
LEMMA ListNotEmpty ==
    ASSUME InHand, NEW t \in Procs, pc[t] = "remove"
    PROVE  freeList # <<>>
<1>1. t \in Between
  BY DEF Between
<1>2. IsFiniteSet(Between)
  <2> QED
    BY TasksFinite, FS_Subset DEF Between
<1>3. Cardinality(Between) \in Nat /\ Cardinality(Between) # 0
  BY <1>1, <1>2, FS_CardinalityType, FS_EmptySet
<1>4. Len(freeList) = semaphore + Cardinality(Between) /\ semaphore \in Nat
  BY DEF InHand, Counted, DriverTypes
<1>5. Len(freeList) # 0
  BY <1>3, <1>4
<1> QED
  BY <1>5

\* The allocation of the buffer a task holds, and its release.
LEMMA AllocatesFor ==
    ASSUME InHand, NEW t \in Procs, Allocate(t)
    PROVE  \/ /\ heap' = heap /\ memory' = memory /\ pc' = [pc EXCEPT ![t] = "insert"]
              /\ holds[t] \in Buffers /\ memory[holds[t]] = NULL
           \/ /\ holds[t] \in Buffers /\ memory[holds[t]] = NULL
              /\ pc' = [pc EXCEPT ![t] = GetReturns(t)]
              /\ \E taken \in Blk : /\ memory' = [memory EXCEPT ![holds[t]] = taken.at + Header]
                                    /\ WholeHeap(heap')
                                    /\ heap'.used = heap.used \cup {taken}
                                    /\ \A b \in heap.used : b.at # taken.at
<1> DEFINE got == pvPortMalloc(heap, size[t])
<1>1. /\ pc[t] = "malloc" /\ heap' = got.heap
      /\ memory' = [memory EXCEPT ![holds[t]] = got.at]
      /\ pc' = [pc EXCEPT ![t] = IF got.at = NULL THEN "insert" ELSE GetReturns(t)]
  BY DEF Allocate, MovesTo
<1>2. holds[t] \in Buffers /\ memory[holds[t]] = NULL /\ memory \in [Buffers -> Nat \cup {NULL}]
  <2>1. holds[t] # NULL /\ holds[t] \in Buffers
    BY <1>1 DEF InHand, Hands, Holding, DriverTypes
  <2> QED
    BY <1>1, <2>1 DEF InHand, Hands, Loaded, DriverTypes
<1>3. WholeHeap(heap) /\ size[t] \in Nat
  BY DEF InHand, Blocks, DriverTypes
<1> HIDE DEF got
<1>4. \/ got.heap = heap /\ got.at = NULL
      \/ \E taken \in Blk : /\ got.at = taken.at + Header
                            /\ WholeHeap(got.heap)
                            /\ got.heap.used = heap.used \cup {taken}
                            /\ \A b \in heap.used : b.at # taken.at
  BY <1>3, MallocIs DEF got
<1>5. CASE got.heap = heap /\ got.at = NULL
  BY <1>1, <1>2, <1>5
<1>6. CASE \E taken \in Blk : /\ got.at = taken.at + Header
                              /\ WholeHeap(got.heap)
                              /\ got.heap.used = heap.used \cup {taken}
                              /\ \A b \in heap.used : b.at # taken.at
  <2>1. got.at # NULL
    <3>1. \A taken \in Blk : taken.at + Header \in Nat
      BY DEF Blk, Header
    <3> QED
      BY <1>6, <3>1, NULLAssumption
  <2> QED
    BY <1>1, <1>2, <1>6, <2>1
<1> QED
  BY <1>4, <1>5, <1>6

LEMMA FreesOf ==
    ASSUME InHand, NEW t \in Procs, FreeMemory(t)
    PROVE  /\ holds[t] \in Buffers /\ memory[holds[t]] # NULL
           /\ memory' = [memory EXCEPT ![holds[t]] = NULL]
           /\ \E block \in heap.used : /\ memory[holds[t]] = block.at + Header
                                       /\ WholeHeap(heap')
                                       /\ heap'.used = heap.used \ {block}
<1>1. /\ pc[t] = "free" /\ heap' = vPortFree(heap, memory[holds[t]])
      /\ memory' = [memory EXCEPT ![holds[t]] = NULL]
  BY DEF FreeMemory
<1>2. holds[t] \in Buffers /\ memory[holds[t]] # NULL
  <2>1. holds[t] # NULL /\ holds[t] \in Buffers
    BY <1>1 DEF InHand, Hands, Holding, DriverTypes
  <2> QED
    BY <1>1, <2>1 DEF InHand, Hands, Loaded
<1>3. memory[holds[t]] \in {b.at + Header : b \in heap.used}
  BY <1>2 DEF InHand, Blocks, Owners
<1>4. PICK block \in heap.used : memory[holds[t]] = block.at + Header
  BY <1>3
<1>5. WholeHeap(heap)
  BY DEF InHand, Blocks
<1>6. /\ WholeHeap(vPortFree(heap, memory[holds[t]]))
      /\ vPortFree(heap, memory[holds[t]]).used = heap.used \ {block}
  BY <1>4, <1>5, FreeIs
<1> QED
  BY <1>1, <1>2, <1>4, <1>6

(***************************************************************************)
(* The types.                                                              *)
(***************************************************************************)
LEMMA AllocatorTypes ==
    ASSUME InHand, NEW t \in Procs, Allocator(t)
    PROVE  DriverTypes'
<1>1. DriverTypes
  BY DEF InHand
<1>2. /\ rx' = rx /\ rxHw' = rxHw /\ rxIndex' = rxIndex /\ events' = events
      /\ sockets' = sockets /\ others' = others
  BY DEF Allocator, emacVars
<1>3. /\ \A l \in Labels : [pc EXCEPT ![t] = l] \in [Procs -> Labels]
      /\ \A b \in Buffers \cup {NULL} : [holds EXCEPT ![t] = b] \in [Procs -> Buffers \cup {NULL}]
      /\ [size EXCEPT ![t] = 0] \in [Procs -> Nat]
  BY <1>1 DEF DriverTypes
<1>4. {"idle", "get", "remove", "malloc", "insert", "give"} \subseteq Labels
      /\ GetReturns(t) \in Labels
  BY DEF Labels, GetReturns, Procs
<1>5. SUFFICES /\ freeList' \in Seq(Buffers) /\ semaphore' \in Nat
               /\ memory' \in [Buffers -> Nat \cup {NULL}]
               /\ pc' \in [Procs -> Labels] /\ holds' \in [Procs -> Buffers \cup {NULL}]
               /\ size' \in [Procs -> Nat]
  BY <1>1, <1>2 DEF DriverTypes
<1>6. CASE TakeSemaphore(t)
  <2>1. semaphore - 1 \in Nat
    BY <1>1, <1>6 DEF TakeSemaphore, DriverTypes
  <2> QED
    BY <1>1, <1>3, <1>4, <1>6, <2>1 DEF TakeSemaphore, MovesTo, DriverTypes
<1>7. CASE GetGivesUp(t)
  BY <1>1, <1>3, <1>4, <1>7 DEF GetGivesUp, MovesTo, allocVars, DriverTypes
<1>8. CASE RemoveHead(t)
  <2>1. freeList # <<>>
    BY <1>8, ListNotEmpty DEF RemoveHead
  <2>2. Head(freeList) \in Buffers /\ Tail(freeList) \in Seq(Buffers)
    BY <1>1, <2>1 DEF DriverTypes
  <2> QED
    BY <1>1, <1>3, <1>4, <1>8, <2>2 DEF RemoveHead, MovesTo, DriverTypes
<1>9. CASE Allocate(t)
  <2>1. /\ memory' = memory \/ \E a \in Nat : memory' = [memory EXCEPT ![holds[t]] = a]
        /\ pc' = [pc EXCEPT ![t] = "insert"] \/ pc' = [pc EXCEPT ![t] = GetReturns(t)]
    <3>1. \A taken \in Blk : taken.at + Header \in Nat
      BY DEF Blk, Header
    <3> QED
      BY <1>9, <3>1, AllocatesFor
  <2>2. memory' \in [Buffers -> Nat \cup {NULL}]
    BY <1>1, <2>1 DEF DriverTypes
  <2>3. size' = [size EXCEPT ![t] = 0] /\ UNCHANGED <<freeList, semaphore, holds>>
    BY <1>9 DEF Allocate
  <2> QED
    BY <1>1, <1>3, <1>4, <2>1, <2>2, <2>3 DEF DriverTypes
<1>10. CASE FreeMemory(t)
  <2>1. memory' \in [Buffers -> Nat \cup {NULL}]
    BY <1>1, <1>10, FreesOf DEF DriverTypes
  <2> QED
    BY <1>1, <1>3, <1>4, <1>10, <2>1 DEF FreeMemory, MovesTo, DriverTypes
<1>11. CASE ReleaseInserts(t)
  <2>1. holds[t] \in Buffers
    BY <1>1, <1>11 DEF ReleaseInserts, InHand, Hands, Holding, DriverTypes
  <2>2. Append(freeList, holds[t]) \in Seq(Buffers)
    BY <1>1, <2>1 DEF DriverTypes
  <2> QED
    BY <1>1, <1>3, <1>4, <1>11, <2>2 DEF ReleaseInserts, MovesTo, DriverTypes
<1>12. CASE ReleaseGives(t)
  <2>1. semaphore + 1 \in Nat
    BY <1>1 DEF DriverTypes
  <2> QED
    BY <1>1, <1>3, <1>4, <1>12, <2>1 DEF ReleaseGives, MovesTo, DriverTypes
<1> QED
  BY <1>6, <1>7, <1>8, <1>9, <1>10, <1>11, <1>12 DEF Allocator

LEMMA TypesStep ==
    ASSUME InHand, [DriverNext]_driverVars
    PROVE  DriverTypes'
<1>1. DriverTypes
  BY DEF InHand
<1>2. \A t \in Procs : holds[t] = NULL \/ holds[t] \in Buffers
  BY <1>1 DEF DriverTypes
<1>3. /\ \A t \in Procs, l \in Labels : [pc EXCEPT ![t] = l] \in [Procs -> Labels]
      /\ \A t \in Procs, b \in Buffers \cup {NULL} :
            [holds EXCEPT ![t] = b] \in [Procs -> Buffers \cup {NULL}]
      /\ \A t \in Procs, n \in Nat : [size EXCEPT ![t] = n] \in [Procs -> Nat]
  BY <1>1 DEF DriverTypes
<1>4. {"idle", "get", "free", "send", "output"} \subseteq Labels /\ {"emac", "ip", "app"} = Procs
  BY DEF Labels, Procs
<1>5. RxRing \in Nat /\ RxRing > 0 /\ Sizes \subseteq Nat
  BY DriverAssumption
<1>6. events # <<>> => Head(events).buffer \in Buffers /\ Tail(events) \in Seq(Event)
  <2> SUFFICES ASSUME events # <<>>
               PROVE  Head(events).buffer \in Buffers /\ Tail(events) \in Seq(Event)
    OBVIOUS
  <2>1. events \in Seq(Event)
    BY <1>1 DEF DriverTypes
  <2>2. Head(events) \in Event /\ Tail(events) \in Seq(Event)
    BY <2>1
  <2> QED
    BY <2>2 DEF Event
<1> USE DEF taskVars, txVars, emacVars, allocVars
<1>7. CASE \E t \in Procs : Allocator(t)
  BY <1>7, AllocatorTypes
<1>8. CASE \E f \in Frames : Arrive(f)
  <2>1. PICK f \in Frames : Arrive(f)
    BY <1>8
  <2>2. f.size \in Nat
    BY DriverAssumption
  <2>3. /\ rxHw' \in 0 .. RxRing - 1
        /\ rx' = [rx EXCEPT ![rxHw] = [seq |-> arrived + 1, size |-> f.size, keep |-> f.keep]]
    <3>1. (rxHw + 1) % RxRing \in 0 .. RxRing - 1
      BY <1>1, <1>5 DEF DriverTypes
    <3> QED
      BY <2>1, <3>1 DEF Arrive
  <2>4. /\ \A i \in 0 .. RxRing - 1 : rx'[i] # Owned => rx'[i].size \in Nat
        /\ rx' = [i \in 0 .. RxRing - 1 |-> rx'[i]]
    BY <1>1, <2>2, <2>3 DEF DriverTypes
  <2> QED
    BY <1>1, <2>1, <2>3, <2>4 DEF Arrive, DriverTypes
<1>9. CASE EthernetIntHandler
  BY <1>1, <1>9 DEF EthernetIntHandler, DriverTypes
<1>10. CASE DmaSends
  BY <1>1, <1>10 DEF DmaSends, DriverTypes
<1>11. CASE EmacWakes
  <2>1. rx[rxIndex] # Owned => rx[rxIndex].size \in Nat
    BY <1>1 DEF DriverTypes
  <2>2. pc' \in [Procs -> Labels] /\ size' \in [Procs -> Nat]
    <3>1. CASE rx[rxIndex] = Owned
      BY <1>1, <1>11, <3>1 DEF EmacWakes, DriverTypes
    <3>2. CASE rx[rxIndex] # Owned
      <4>1. /\ pc' = [pc EXCEPT !["emac"] = "get"]
            /\ size' = [size EXCEPT !["emac"] = rx[rxIndex].size]
        BY <1>11, <3>2 DEF EmacWakes, MovesTo
      <4> QED
        BY <1>3, <1>4, <2>1, <3>2, <4>1
    <3> QED
      BY <3>1, <3>2
  <2>3. UNCHANGED <<freeList, semaphore, memory, rx, rxHw, rxIndex, events, holds, sockets, others>>
    BY <1>11 DEF EmacWakes
  <2> QED
    BY <1>1, <2>2, <2>3 DEF DriverTypes
<1>12. CASE EmacCopies
  <2>1. rxIndex' \in 0 .. RxRing - 1 /\ rx' = [rx EXCEPT ![rxIndex] = Owned]
    <3>1. (rxIndex + 1) % RxRing \in 0 .. RxRing - 1
      BY <1>1, <1>5 DEF DriverTypes
    <3> QED
      BY <1>12, <3>1 DEF EmacCopies
  <2>2. /\ \A i \in 0 .. RxRing - 1 : rx'[i] # Owned => rx'[i].size \in Nat
        /\ rx' = [i \in 0 .. RxRing - 1 |-> rx'[i]]
    BY <1>1, <2>1 DEF DriverTypes
  <2>3. pc' \in [Procs -> Labels]
    BY <1>3, <1>4, <1>12 DEF EmacCopies, MovesTo
  <2> QED
    BY <1>1, <1>12, <2>1, <2>2, <2>3 DEF EmacCopies, DriverTypes
<1>13. CASE EmacPosts
  <2>1. holds["emac"] \in Buffers
    BY <1>2, <1>4, <1>13 DEF EmacPosts, InHand, Hands, Holding
  <2>2. Append(events, [type |-> "eNetworkRxEvent", buffer |-> holds["emac"]]) \in Seq(Event)
    BY <1>1, <2>1 DEF DriverTypes, Event
  <2>3. events' \in Seq(Event) /\ holds' \in [Procs -> Buffers \cup {NULL}] /\ pc' \in [Procs -> Labels]
    <3>1. CASE Len(events) < EventLength
      <4>1. /\ events' = Append(events, [type |-> "eNetworkRxEvent", buffer |-> holds["emac"]])
            /\ holds' = [holds EXCEPT !["emac"] = NULL]
            /\ pc' = [pc EXCEPT !["emac"] = "idle"]
        BY <1>13, <3>1 DEF EmacPosts, MovesTo
      <4> QED
        BY <1>3, <1>4, <2>2, <4>1
    <3>2. CASE ~(Len(events) < EventLength)
      <4>1. events' = events /\ holds' = holds /\ pc' = [pc EXCEPT !["emac"] = "free"]
        BY <1>13, <3>2 DEF EmacPosts, MovesTo
      <4> QED
        BY <1>1, <1>3, <1>4, <4>1 DEF DriverTypes
    <3> QED
      BY <3>1, <3>2
  <2> QED
    BY <1>1, <1>13, <2>3 DEF EmacPosts, DriverTypes
<1>14. CASE IpReceives
  <2>1. /\ events' \in Seq(Event) /\ holds' \in [Procs -> Buffers \cup {NULL}]
        /\ pc' \in [Procs -> Labels] /\ sockets' \subseteq Buffers
    <3> DEFINE b == Head(events).buffer
    <3>1. /\ events # <<>> /\ events' = Tail(events)
          /\ \/ /\ holds' = [holds EXCEPT !["ip"] = b] /\ sockets' = sockets
                /\ pc' = [pc EXCEPT !["ip"] = "free"] \/ pc' = [pc EXCEPT !["ip"] = "output"]
             \/ sockets' = sockets \cup {b} /\ pc' = pc /\ holds' = holds
      BY <1>14 DEF IpReceives, MovesTo
    <3>2. b \in Buffers /\ events' \in Seq(Event)
      BY <1>6, <3>1
    <3> HIDE DEF b
    <3>3. "ip" \in Procs /\ "free" \in Labels /\ "output" \in Labels /\ b \in Buffers \cup {NULL}
      BY <1>4, <3>2
    <3>4. /\ [holds EXCEPT !["ip"] = b] \in [Procs -> Buffers \cup {NULL}]
          /\ [pc EXCEPT !["ip"] = "free"] \in [Procs -> Labels]
          /\ [pc EXCEPT !["ip"] = "output"] \in [Procs -> Labels]
      BY <1>3, <3>3
    <3>5. holds \in [Procs -> Buffers \cup {NULL}] /\ pc \in [Procs -> Labels] /\ sockets \subseteq Buffers
      BY <1>1 DEF DriverTypes
    <3> QED
      BY <3>1, <3>2, <3>4, <3>5
  <2> QED
    BY <1>1, <1>14, <2>1 DEF IpReceives, DriverTypes
<1>15. CASE IpSends
  BY <1>1, <1>3, <1>4, <1>6, <1>15 DEF IpSends, MovesTo, DriverTypes
<1>16. CASE xNetworkInterfaceOutput
  BY <1>1, <1>3, <1>4, <1>16 DEF xNetworkInterfaceOutput, MovesTo, DriverTypes
<1>17. CASE \E n \in Sizes : IpAsks(n) \/ AppAsks(n)
  <2>1. PICK n \in Sizes : IpAsks(n) \/ AppAsks(n)
    BY <1>17
  <2>2. \E t \in Procs : pc' = [pc EXCEPT ![t] = "get"] /\ size' = [size EXCEPT ![t] = n]
    BY <1>4, <2>1 DEF IpAsks, AppAsks, MovesTo
  <2>3. n \in Nat
    BY <1>5
  <2>4. pc' \in [Procs -> Labels] /\ size' \in [Procs -> Nat]
    BY <1>3, <1>4, <2>2, <2>3
  <2>5. UNCHANGED <<freeList, semaphore, memory, rx, rxHw, rxIndex, events, holds, sockets, others>>
    BY <2>1 DEF IpAsks, AppAsks
  <2> QED
    BY <1>1, <2>4, <2>5 DEF DriverTypes
<1>18. CASE \E n \in Sizes : AppAllocates(n)
  <2>1. PICK n \in Sizes : AppAllocates(n)
    BY <1>18
  <2> DEFINE got == pvPortMalloc(heap, n)
  <2>2. got.at # NULL /\ others' = others \cup {got.at}
    BY <2>1 DEF AppAllocates
  <2>3. got.at \in Nat
    <3>1. WholeHeap(heap) /\ n \in Nat
      BY <1>5 DEF InHand, Blocks
    <3>2. \A taken \in Blk : taken.at + Header \in Nat
      BY DEF Blk, Header
    <3> HIDE DEF got
    <3> QED
      BY <2>2, <3>1, <3>2, MallocIs DEF got
  <2> HIDE DEF got
  <2>4. others' \subseteq Nat /\ IsFiniteSet(others')
    BY <1>1, <2>2, <2>3, FS_AddElement DEF DriverTypes
  <2> QED
    BY <1>1, <2>1, <2>4 DEF AppAllocates, DriverTypes
<1>19. CASE AppPosts
  <2>1. holds["app"] \in Buffers
    BY <1>2, <1>4, <1>19 DEF AppPosts, InHand, Hands, Holding
  <2>2. Append(events, [type |-> "eStackTxEvent", buffer |-> holds["app"]]) \in Seq(Event)
    BY <1>1, <2>1 DEF DriverTypes, Event
  <2>3. events' \in Seq(Event) /\ holds' \in [Procs -> Buffers \cup {NULL}] /\ pc' \in [Procs -> Labels]
    <3>1. CASE Len(events) < EventLength
      <4>1. /\ events' = Append(events, [type |-> "eStackTxEvent", buffer |-> holds["app"]])
            /\ holds' = [holds EXCEPT !["app"] = NULL]
            /\ pc' = [pc EXCEPT !["app"] = "idle"]
        BY <1>19, <3>1 DEF AppPosts, MovesTo
      <4> QED
        BY <1>3, <1>4, <2>2, <4>1
    <3>2. CASE ~(Len(events) < EventLength)
      <4>1. events' = events /\ holds' = holds /\ pc' = [pc EXCEPT !["app"] = "free"]
        BY <1>19, <3>2 DEF AppPosts, MovesTo
      <4> QED
        BY <1>1, <1>3, <1>4, <4>1 DEF DriverTypes
    <3> QED
      BY <3>1, <3>2
  <2> QED
    BY <1>1, <1>19, <2>3 DEF AppPosts, DriverTypes
<1>20. CASE AppReads
  <2>1. /\ holds' \in [Procs -> Buffers \cup {NULL}] /\ pc' \in [Procs -> Labels]
        /\ sockets' \subseteq Buffers
    BY <1>1, <1>3, <1>4, <1>20 DEF AppReads, MovesTo, DriverTypes
  <2> QED
    BY <1>1, <1>20, <2>1 DEF AppReads, DriverTypes
<1>21. CASE AppFrees
  <2>1. others' \subseteq Nat /\ IsFiniteSet(others')
    BY <1>1, <1>21, FS_RemoveElement DEF AppFrees, DriverTypes
  <2> QED
    BY <1>1, <1>21, <2>1 DEF AppFrees, DriverTypes
<1>22. CASE UNCHANGED driverVars
  BY <1>1, <1>22 DEF driverVars, DriverTypes
<1> QED
  BY <1>7, <1>8, <1>9, <1>10, <1>11, <1>12, <1>13, <1>14, <1>15, <1>16, <1>17, <1>18, <1>19,
     <1>20, <1>21, <1>22 DEF DriverNext

(***************************************************************************)
(* What a step does with the buffers: it moves one, gives it memory, takes *)
(* its memory, or leaves them all.                                         *)
(***************************************************************************)
Stays == /\ UNCHANGED <<freeList, events, holds, sockets, memory>>
         /\ \/ pc' = pc
            \/ \E t \in Procs, l \in Labels : /\ pc' = [pc EXCEPT ![t] = l]
                                              /\ l \in Holding <=> pc[t] \in Holding
                                              /\ l \in Loaded <=> pc[t] \in Loaded

Loads == \E t \in Procs, l \in Loaded, a \in Nat :
            /\ UNCHANGED <<freeList, events, holds, sockets>>
            /\ pc[t] = "malloc" /\ pc' = [pc EXCEPT ![t] = l]
            /\ memory' = [memory EXCEPT ![holds[t]] = a]

Unloads == \E t \in Procs :
            /\ UNCHANGED <<freeList, events, holds, sockets>>
            /\ pc[t] = "free" /\ pc' = [pc EXCEPT ![t] = "insert"]
            /\ memory' = [memory EXCEPT ![holds[t]] = NULL]

LeavesList == \E t \in Procs :
            /\ UNCHANGED <<events, sockets, memory>>
            /\ freeList # <<>> /\ freeList' = Tail(freeList)
            /\ pc[t] = "remove" /\ pc' = [pc EXCEPT ![t] = "malloc"]
            /\ holds' = [holds EXCEPT ![t] = Head(freeList)]

EntersList == \E t \in Procs :
            /\ UNCHANGED <<events, sockets, memory>>
            /\ pc[t] = "insert" /\ pc' = [pc EXCEPT ![t] = "give"]
            /\ holds' = [holds EXCEPT ![t] = NULL]
            /\ freeList' = Append(freeList, holds[t])

EntersQueue == \E t \in Procs, e \in Event :
            /\ UNCHANGED <<freeList, sockets, memory>>
            /\ pc[t] \in {"send", "post"} /\ pc' = [pc EXCEPT ![t] = "idle"]
            /\ e.buffer = holds[t] /\ events' = Append(events, e)
            /\ holds' = [holds EXCEPT ![t] = NULL]

LeavesQueue == \E t \in Procs, l \in Loaded :
            /\ UNCHANGED <<freeList, sockets, memory>>
            /\ pc[t] = "idle" /\ pc' = [pc EXCEPT ![t] = l]
            /\ events # <<>> /\ events' = Tail(events)
            /\ holds' = [holds EXCEPT ![t] = Head(events).buffer]

EntersSocket == /\ UNCHANGED <<freeList, holds, memory, pc>>
                /\ events # <<>> /\ events' = Tail(events)
                /\ sockets' = sockets \cup {Head(events).buffer}

LeavesSocket == \E t \in Procs, b \in sockets :
            /\ UNCHANGED <<freeList, events, memory>>
            /\ pc[t] = "idle" /\ pc' = [pc EXCEPT ![t] = "free"]
            /\ holds' = [holds EXCEPT ![t] = b] /\ sockets' = sockets \ {b}

Moves == \/ Stays \/ Loads \/ Unloads
         \/ LeavesList \/ EntersList \/ EntersQueue \/ LeavesQueue \/ EntersSocket \/ LeavesSocket

LEMMA AllocatorMoves ==
    ASSUME InHand, NEW t \in Procs, Allocator(t)
    PROVE  Moves
<1>1. events' = events /\ sockets' = sockets
  BY DEF Allocator
<1>2. DriverTypes
  BY DEF InHand
<1>3. CASE TakeSemaphore(t)
  <2>1. Stays
    BY <1>1, <1>3 DEF TakeSemaphore, MovesTo, Stays, Labels, Holding, Loaded
  <2> QED
    BY <2>1 DEF Moves
<1>4. CASE GetGivesUp(t)
  <2>1. Stays
    BY <1>1, <1>4 DEF GetGivesUp, MovesTo, allocVars, Stays, Labels, Holding, Loaded
  <2> QED
    BY <2>1 DEF Moves
<1>5. CASE RemoveHead(t)
  <2>1. LeavesList
    BY <1>1, <1>5, ListNotEmpty DEF RemoveHead, MovesTo, LeavesList
  <2> QED
    BY <2>1 DEF Moves
<1>6. CASE Allocate(t)
  <2>1. UNCHANGED <<freeList, holds>> /\ pc[t] = "malloc"
    BY <1>6 DEF Allocate
  <2>2. CASE memory' = memory /\ pc' = [pc EXCEPT ![t] = "insert"]
    <3>1. Stays
      BY <1>1, <2>1, <2>2 DEF Stays, Labels, Holding, Loaded
    <3> QED
      BY <3>1 DEF Moves
  <2>3. CASE /\ pc' = [pc EXCEPT ![t] = GetReturns(t)]
             /\ \E taken \in Blk : memory' = [memory EXCEPT ![holds[t]] = taken.at + Header]
    <3>1. GetReturns(t) \in Loaded
      BY DEF GetReturns, Loaded
    <3>2. \A taken \in Blk : taken.at + Header \in Nat
      BY DEF Blk, Header
    <3>3. Loads
      BY <1>1, <2>1, <2>3, <3>1, <3>2 DEF Loads
    <3> QED
      BY <3>3 DEF Moves
  <2> QED
    BY <1>6, <2>2, <2>3, AllocatesFor
<1>7. CASE FreeMemory(t)
  <2>1. Unloads
    BY <1>1, <1>7 DEF FreeMemory, MovesTo, Unloads
  <2> QED
    BY <2>1 DEF Moves
<1>8. CASE ReleaseInserts(t)
  <2>1. holds[t] # NULL
    BY <1>8 DEF ReleaseInserts, InHand, Hands, Holding
  <2>2. holds[t] \in HeldBuffers
    BY <2>1 DEF HeldBuffers
  <2>3. holds[t] \notin ToSet(freeList)
    BY <2>2 DEF InHand, OnePlace, Elems, ToSet
  <2>4. EntersList
    BY <1>1, <1>8, <2>3 DEF ReleaseInserts, MovesTo, EntersList
  <2> QED
    BY <2>4 DEF Moves
<1>9. CASE ReleaseGives(t)
  <2>1. Stays
    BY <1>1, <1>9 DEF ReleaseGives, MovesTo, Stays, Labels, Holding, Loaded
  <2> QED
    BY <2>1 DEF Moves
<1> QED
  BY <1>3, <1>4, <1>5, <1>6, <1>7, <1>8, <1>9 DEF Allocator

LEMMA StepMoves ==
    ASSUME InHand, [DriverNext]_driverVars
    PROVE  Moves
<1>1. DriverTypes
  BY DEF InHand
<1>2. "emac" \in Procs /\ "ip" \in Procs /\ "app" \in Procs
  BY DEF Procs
<1> USE DEF taskVars, txVars, emacVars, allocVars
<1>3. CASE \E t \in Procs : Allocator(t)
  BY <1>3, AllocatorMoves
<1>4. CASE \/ \E f \in Frames : Arrive(f)
           \/ EthernetIntHandler \/ DmaSends \/ AppFrees
           \/ \E n \in Sizes : AppAllocates(n)
           \/ UNCHANGED driverVars
  <2>1. Stays
    BY <1>4 DEF Arrive, EthernetIntHandler, DmaSends, AppFrees, AppAllocates, driverVars, Stays
  <2> QED
    BY <2>1 DEF Moves
<1>5. CASE EmacWakes
  <2>1. /\ UNCHANGED <<freeList, events, holds, sockets, memory>> /\ pc["emac"] = "idle"
        /\ pc' = pc \/ pc' = [pc EXCEPT !["emac"] = "get"]
    BY <1>5 DEF EmacWakes, MovesTo
  <2>2. Stays
    BY <1>2, <2>1 DEF Stays, Labels, Holding, Loaded
  <2> QED
    BY <2>2 DEF Moves
<1>6. CASE EmacCopies
  <2>1. /\ UNCHANGED <<freeList, events, holds, sockets, memory>> /\ pc["emac"] = "copy"
        /\ \E l \in {"send", "free"} : pc' = [pc EXCEPT !["emac"] = l]
    BY <1>6 DEF EmacCopies, MovesTo
  <2>2. Stays
    BY <1>2, <2>1 DEF Stays, Labels, Holding, Loaded
  <2> QED
    BY <2>2 DEF Moves
<1>7. CASE EmacPosts
  <2>1. pc["emac"] = "send" /\ UNCHANGED <<freeList, sockets, memory>>
    BY <1>7 DEF EmacPosts
  <2>2. holds["emac"] \in Buffers
    BY <1>1, <1>2, <2>1 DEF DriverTypes, InHand, Hands, Holding
  <2>3. CASE Len(events) < EventLength
    <3> DEFINE e == [type |-> "eNetworkRxEvent", buffer |-> holds["emac"]]
    <3>1. e \in Event /\ e.buffer = holds["emac"]
      BY <2>2 DEF Event
    <3>2. /\ events' = Append(events, e) /\ holds' = [holds EXCEPT !["emac"] = NULL]
          /\ pc' = [pc EXCEPT !["emac"] = "idle"]
      BY <1>7, <2>3 DEF EmacPosts, MovesTo
    <3> HIDE DEF e
    <3>3. EntersQueue
      BY <1>2, <2>1, <3>1, <3>2 DEF EntersQueue
    <3> QED
      BY <3>3 DEF Moves
  <2>4. CASE ~(Len(events) < EventLength)
    <3>1. UNCHANGED <<events, holds>> /\ pc' = [pc EXCEPT !["emac"] = "free"]
      BY <1>7, <2>4 DEF EmacPosts, MovesTo
    <3>2. Stays
      BY <1>2, <2>1, <3>1 DEF Stays, Labels, Holding, Loaded
    <3> QED
      BY <3>2 DEF Moves
  <2> QED
    BY <2>3, <2>4
<1>8. CASE IpReceives
  <2> DEFINE b == Head(events).buffer
  <2>1. /\ pc["ip"] = "idle" /\ UNCHANGED <<freeList, memory>>
        /\ events # <<>> /\ events' = Tail(events)
        /\ \/ /\ holds' = [holds EXCEPT !["ip"] = b] /\ sockets' = sockets
              /\ pc' = [pc EXCEPT !["ip"] = "free"] \/ pc' = [pc EXCEPT !["ip"] = "output"]
           \/ sockets' = sockets \cup {b} /\ pc' = pc /\ holds' = holds
    BY <1>8 DEF IpReceives, MovesTo
  <2>2. CASE /\ holds' = [holds EXCEPT !["ip"] = b] /\ sockets' = sockets
             /\ pc' = [pc EXCEPT !["ip"] = "free"] \/ pc' = [pc EXCEPT !["ip"] = "output"]
    <3>1. "free" \in Loaded /\ "output" \in Loaded
      BY DEF Loaded
    <3>2. LeavesQueue
      BY <1>2, <2>1, <2>2, <3>1 DEF LeavesQueue
    <3> QED
      BY <3>2 DEF Moves
  <2>3. CASE sockets' = sockets \cup {b} /\ pc' = pc /\ holds' = holds
    <3>1. EntersSocket
      BY <2>1, <2>3 DEF EntersSocket
    <3> QED
      BY <3>1 DEF Moves
  <2> QED
    BY <2>1, <2>2, <2>3
<1>9. CASE IpSends
  <2>1. "output" \in Loaded
    BY DEF Loaded
  <2>2. LeavesQueue
    BY <1>2, <1>9, <2>1 DEF IpSends, MovesTo, LeavesQueue
  <2> QED
    BY <2>2 DEF Moves
<1>10. CASE xNetworkInterfaceOutput
  <2>1. Stays
    BY <1>2, <1>10 DEF xNetworkInterfaceOutput, MovesTo, Stays, Labels, Holding, Loaded
  <2> QED
    BY <2>1 DEF Moves
<1>11. CASE \E n \in Sizes : IpAsks(n) \/ AppAsks(n)
  <2>1. Stays
    BY <1>2, <1>11 DEF IpAsks, AppAsks, MovesTo, Stays, Labels, Holding, Loaded
  <2> QED
    BY <2>1 DEF Moves
<1>12. CASE AppPosts
  <2>1. pc["app"] = "post" /\ UNCHANGED <<freeList, sockets, memory>>
    BY <1>12 DEF AppPosts
  <2>2. holds["app"] \in Buffers
    BY <1>1, <1>2, <2>1 DEF DriverTypes, InHand, Hands, Holding
  <2>3. CASE Len(events) < EventLength
    <3> DEFINE e == [type |-> "eStackTxEvent", buffer |-> holds["app"]]
    <3>1. e \in Event /\ e.buffer = holds["app"]
      BY <2>2 DEF Event
    <3>2. /\ events' = Append(events, e) /\ holds' = [holds EXCEPT !["app"] = NULL]
          /\ pc' = [pc EXCEPT !["app"] = "idle"]
      BY <1>12, <2>3 DEF AppPosts, MovesTo
    <3> HIDE DEF e
    <3>3. EntersQueue
      BY <1>2, <2>1, <3>1, <3>2 DEF EntersQueue
    <3> QED
      BY <3>3 DEF Moves
  <2>4. CASE ~(Len(events) < EventLength)
    <3>1. UNCHANGED <<events, holds>> /\ pc' = [pc EXCEPT !["app"] = "free"]
      BY <1>12, <2>4 DEF AppPosts, MovesTo
    <3>2. Stays
      BY <1>2, <2>1, <3>1 DEF Stays, Labels, Holding, Loaded
    <3> QED
      BY <3>2 DEF Moves
  <2> QED
    BY <2>3, <2>4
<1>13. CASE AppReads
  <2>1. LeavesSocket
    BY <1>2, <1>13 DEF AppReads, MovesTo, LeavesSocket
  <2> QED
    BY <2>1 DEF Moves
<1> QED
  BY <1>3, <1>4, <1>5, <1>6, <1>7, <1>8, <1>9, <1>10, <1>11, <1>12, <1>13 DEF DriverNext

LEMMA PostedIs ==
    ASSUME NEW q, NEW set, set = {q[i].buffer : i \in DOMAIN q}
    PROVE  set = Elems(Carried(q))
BY DEF Carried, Elems

LEMMA PlacesStep ==
    ASSUME InHand, Moves, DriverTypes'
    PROVE  OnePlace'
<1>1. DriverTypes /\ Hands /\ OnePlace
  BY DEF InHand
<1>2. /\ holds \in [Procs -> Buffers \cup {NULL}] /\ events \in Seq(Event)
      /\ freeList \in Seq(Buffers) /\ sockets \subseteq Buffers
  BY <1>1 DEF DriverTypes
<1>3. /\ HeldBuffers = HeldBy(holds) /\ HeldBuffers' = HeldBy(holds')
      /\ Posted = Elems(Carried(events)) /\ Posted' = Elems(Carried(events'))
  BY PostedIs DEF HeldBuffers, HeldBy, Posted
<1>4. \A q : IsInjective(Carried(q))
               <=> \A i, j \in DOMAIN q : q[i].buffer = q[j].buffer => i = j
  BY DEF IsInjective, Carried
<1>5. /\ IsInjective(freeList) /\ IsInjective(Carried(events))
      /\ Elems(freeList) \cap HeldBuffers = {} /\ HeldBuffers \cap Posted = {} /\ HeldBuffers \cap sockets = {}
      /\ Posted \cap sockets = {}
      /\ Elems(freeList) \cup HeldBuffers \cup Posted \cup sockets = Buffers
      /\ Elems(freeList) \cap (Posted \cup sockets) = {}
  BY <1>1, <1>4 DEF OnePlace, Hands
<1>6. SUFFICES /\ IsInjective(freeList') /\ IsInjective(Carried(events'))
               /\ Elems(freeList') \cap HeldBuffers' = {} /\ HeldBuffers' \cap Posted' = {}
               /\ HeldBuffers' \cap sockets' = {} /\ Posted' \cap sockets' = {}
               /\ Elems(freeList') \cup HeldBuffers' \cup Posted' \cup sockets' = Buffers
  BY <1>4 DEF OnePlace
<1>7. \A t \in Procs : holds[t] # NULL => holds[t] \in HeldBuffers /\ holds[t] \in Buffers
  BY <1>2 DEF HeldBuffers
<1>8. \A b \in Posted : b \in Buffers
  BY <1>5
<1>9. Carried(events) \in Seq(Buffers)
  BY <1>2, CarriedIs
<1>10. ASSUME events # <<>>
       PROVE  /\ Head(events).buffer \in Posted
              /\ IsInjective(Carried(Tail(events)))
              /\ Elems(Carried(Tail(events))) = Posted \ {Head(events).buffer}
  <2>1. /\ Carried(events) # <<>> /\ Carried(Tail(events)) = Tail(Carried(events))
        /\ Head(events).buffer = Head(Carried(events))
    BY <1>2, <1>10, CarriedIs
  <2>2. /\ Head(Carried(events)) \in Elems(Carried(events))
        /\ IsInjective(Tail(Carried(events)))
        /\ Elems(Tail(Carried(events))) = Elems(Carried(events)) \ {Head(Carried(events))}
    BY <1>5, <1>9, <2>1, OnceTail
  <2> QED
    BY <1>3, <2>1, <2>2
<1>11. CASE Stays \/ Loads \/ Unloads
  <2>1. freeList' = freeList /\ events' = events /\ holds' = holds /\ sockets' = sockets
    BY <1>11 DEF Stays, Loads, Unloads
  <2> QED
    BY <1>3, <1>5, <2>1
<1>12. CASE LeavesList
  <2>1. PICK t \in Procs : /\ UNCHANGED <<events, sockets>> /\ pc[t] = "remove"
                           /\ freeList # <<>> /\ freeList' = Tail(freeList)
                           /\ holds' = [holds EXCEPT ![t] = Head(freeList)]
    BY <1>12 DEF LeavesList
  <2>2. holds[t] = NULL
    BY <1>1, <2>1 DEF Hands, Holding
  <2>3. /\ Head(freeList) \in Buffers /\ Head(freeList) \in Elems(freeList)
        /\ IsInjective(Tail(freeList)) /\ Elems(Tail(freeList)) = Elems(freeList) \ {Head(freeList)}
    BY <1>2, <1>5, <2>1, OnceTail
  <2>4. HeldBuffers' = HeldBuffers \cup {Head(freeList)}
    BY <1>2, <1>3, <2>1, <2>2, <2>3, TakesBuffer
  <2>5. Posted' = Posted
    BY <1>3, <2>1
  <2> QED
    BY <1>5, <2>1, <2>3, <2>4, <2>5
<1>13. CASE EntersList
  <2>1. PICK t \in Procs : /\ UNCHANGED <<events, sockets>> /\ pc[t] = "insert"
                           /\ freeList' = Append(freeList, holds[t])
                           /\ holds' = [holds EXCEPT ![t] = NULL]
    BY <1>13 DEF EntersList
  <2>2. holds[t] # NULL /\ holds[t] \in HeldBuffers /\ holds[t] \in Buffers
    BY <1>1, <1>7, <2>1 DEF Hands, Holding
  <2>3. holds[t] \notin Elems(freeList)
    BY <1>5, <2>2
  <2>4. IsInjective(freeList') /\ Elems(freeList') = Elems(freeList) \cup {holds[t]}
    BY <1>2, <1>5, <2>1, <2>2, <2>3, OnceAppend
  <2>5. HeldBuffers' = HeldBuffers \ {holds[t]}
    BY <1>1, <1>2, <1>3, <2>1, <2>2, GivesBuffer DEF Hands
  <2>6. Posted' = Posted
    BY <1>3, <2>1
  <2> QED
    BY <1>5, <2>1, <2>2, <2>4, <2>5, <2>6
<1>14. CASE EntersQueue
  <2>1. PICK t \in Procs, e \in Event :
             /\ UNCHANGED <<freeList, sockets>> /\ pc[t] \in {"send", "post"}
             /\ e.buffer = holds[t] /\ events' = Append(events, e)
             /\ holds' = [holds EXCEPT ![t] = NULL]
    BY <1>14 DEF EntersQueue
  <2>2. holds[t] # NULL /\ holds[t] \in HeldBuffers /\ holds[t] \in Buffers
    BY <1>1, <1>7, <2>1 DEF Hands, Holding
  <2>3. holds[t] \notin Posted
    BY <1>5, <2>2
  <2>4. Carried(events') = Append(Carried(events), holds[t])
    BY <1>2, <2>1, CarriedIs
  <2>5. IsInjective(Carried(events')) /\ Posted' = Posted \cup {holds[t]}
    BY <1>3, <1>5, <1>9, <2>2, <2>3, <2>4, OnceAppend
  <2>6. HeldBuffers' = HeldBuffers \ {holds[t]}
    BY <1>1, <1>2, <1>3, <2>1, <2>2, GivesBuffer DEF Hands
  <2> QED
    BY <1>5, <2>1, <2>2, <2>5, <2>6
<1>15. CASE LeavesQueue
  <2>1. PICK t \in Procs : /\ UNCHANGED <<freeList, sockets>> /\ pc[t] = "idle"
                           /\ events # <<>> /\ events' = Tail(events)
                           /\ holds' = [holds EXCEPT ![t] = Head(events).buffer]
    BY <1>15 DEF LeavesQueue
  <2> DEFINE b == Head(events).buffer
  <2>2. /\ b \in Posted /\ b \in Buffers
        /\ IsInjective(Carried(events')) /\ Posted' = Posted \ {b}
    BY <1>3, <1>8, <1>10, <2>1
  <2>3. holds[t] = NULL
    BY <1>1, <2>1 DEF Hands, Holding
  <2>4. HeldBuffers' = HeldBuffers \cup {b}
    <3> HIDE DEF b
    <3>1. holds' = [holds EXCEPT ![t] = b]
      BY <2>1 DEF b
    <3> QED
      BY <1>2, <1>3, <2>2, <2>3, <3>1, TakesBuffer
  <2> HIDE DEF b
  <2> QED
    BY <1>5, <2>1, <2>2, <2>4
<1>16. CASE EntersSocket
  <2> DEFINE b == Head(events).buffer
  <2>1. /\ UNCHANGED <<freeList, holds>> /\ events # <<>> /\ events' = Tail(events)
        /\ sockets' = sockets \cup {b}
    BY <1>16 DEF EntersSocket
  <2>2. /\ b \in Posted /\ IsInjective(Carried(events')) /\ Posted' = Posted \ {b}
    BY <1>3, <1>10, <2>1
  <2>3. HeldBuffers' = HeldBuffers
    BY <1>3, <2>1
  <2> HIDE DEF b
  <2> QED
    BY <1>5, <2>1, <2>2, <2>3
<1>17. CASE LeavesSocket
  <2>1. PICK t \in Procs, b \in sockets :
             /\ UNCHANGED <<freeList, events>> /\ pc[t] = "idle"
             /\ holds' = [holds EXCEPT ![t] = b] /\ sockets' = sockets \ {b}
    BY <1>17 DEF LeavesSocket
  <2>2. holds[t] = NULL /\ b \in Buffers
    BY <1>1, <1>2, <2>1 DEF Hands, Holding
  <2>3. HeldBuffers' = HeldBuffers \cup {b} /\ Posted' = Posted
    BY <1>2, <1>3, <2>1, <2>2, TakesBuffer
  <2> QED
    BY <1>5, <2>1, <2>3
<1> QED
  BY <1>11, <1>12, <1>13, <1>14, <1>15, <1>16, <1>17 DEF Moves

LEMMA HandsStep ==
    ASSUME InHand, Moves, DriverTypes'
    PROVE  Hands'
<1>1. DriverTypes /\ Hands /\ OnePlace
  BY DEF InHand
<1>2. /\ holds \in [Procs -> Buffers \cup {NULL}] /\ pc \in [Procs -> Labels]
      /\ memory \in [Buffers -> Nat \cup {NULL}] /\ NULL \notin Buffers /\ NULL \notin Nat
      /\ events \in Seq(Event) /\ freeList \in Seq(Buffers) /\ sockets \subseteq Buffers
  BY <1>1, DriverAssumption, NULLAssumption DEF DriverTypes
<1>3. /\ \A t \in Procs : holds[t] # NULL <=> pc[t] \in Holding
      /\ \A t, u \in Procs : holds[t] = holds[u] /\ holds[t] # NULL => t = u
      /\ \A t \in Procs : holds[t] # NULL => (memory[holds[t]] # NULL <=> pc[t] \in Loaded)
      /\ \A b \in Elems(freeList) : memory[b] = NULL
      /\ \A b \in Posted \cup sockets : memory[b] # NULL
  BY <1>1 DEF Hands
<1>4. /\ \A t \in Procs : holds[t] # NULL => holds[t] \in HeldBuffers
      /\ Elems(freeList) \cap HeldBuffers = {} /\ HeldBuffers \cap (Posted \cup sockets) = {}
      /\ Elems(freeList) \cup HeldBuffers \cup Posted \cup sockets = Buffers
  BY <1>1 DEF OnePlace, HeldBuffers
<1>5. /\ Posted = Elems(Carried(events)) /\ Posted' = Elems(Carried(events'))
      /\ Carried(events) \in Seq(Buffers) /\ IsInjective(freeList) /\ IsInjective(Carried(events))
  <2>1. IsInjective(Carried(events))
    BY <1>1 DEF OnePlace, IsInjective, Carried
  <2> QED
    BY <1>1, <1>2, <2>1, PostedIs, CarriedIs DEF Posted, OnePlace
<1>6. events # <<>> => /\ Head(events).buffer \in Posted
                       /\ Elems(Carried(Tail(events))) \subseteq Posted
  <2> SUFFICES ASSUME events # <<>>
               PROVE  /\ Head(events).buffer \in Posted
                      /\ Elems(Carried(Tail(events))) \subseteq Posted
    OBVIOUS
  <2>1. /\ Carried(events) # <<>> /\ Carried(Tail(events)) = Tail(Carried(events))
        /\ Head(events).buffer = Head(Carried(events))
    BY <1>2, CarriedIs
  <2> QED
    BY <1>5, <2>1, OnceTail
<1>7. Loaded \subseteq Holding /\ Holding \subseteq Labels /\ "idle" \notin Holding
      /\ "remove" \notin Holding /\ "give" \notin Holding /\ "malloc" \in Holding \ Loaded
      /\ "insert" \in Holding \ Loaded /\ "free" \in Loaded /\ {"send", "post"} \subseteq Loaded
  BY DEF Loaded, Holding, Labels
<1>8. CASE Stays
  <2>1. UNCHANGED <<freeList, events, holds, sockets, memory>>
    BY <1>8 DEF Stays
  <2>2. \A t \in Procs : /\ pc'[t] \in Holding <=> pc[t] \in Holding
                         /\ pc'[t] \in Loaded <=> pc[t] \in Loaded
    BY <1>2, <1>8 DEF Stays
  <2>3. Posted' = Posted
    BY <1>5, <2>1
  <2> QED
    BY <1>3, <2>1, <2>2, <2>3 DEF Hands
<1>9. CASE Loads \/ Unloads
  <2>1. PICK t \in Procs, m \in Nat \cup {NULL}, l \in Holding :
             /\ UNCHANGED <<freeList, events, holds, sockets>>
             /\ pc[t] \in Holding /\ pc' = [pc EXCEPT ![t] = l]
             /\ memory' = [memory EXCEPT ![holds[t]] = m]
             /\ l \in Loaded <=> m # NULL
    <3>1. CASE Loads
      <4>1. PICK t \in Procs, l \in Loaded, a \in Nat :
                 /\ UNCHANGED <<freeList, events, holds, sockets>>
                 /\ pc[t] = "malloc" /\ pc' = [pc EXCEPT ![t] = l]
                 /\ memory' = [memory EXCEPT ![holds[t]] = a]
        BY <3>1 DEF Loads
      <4>2. a # NULL /\ l \in Holding /\ pc[t] \in Holding
        BY <1>2, <1>7, <4>1
      <4> QED
        BY <4>1, <4>2
    <3>2. CASE Unloads
      <4>1. PICK t \in Procs :
                 /\ UNCHANGED <<freeList, events, holds, sockets>>
                 /\ pc[t] = "free" /\ pc' = [pc EXCEPT ![t] = "insert"]
                 /\ memory' = [memory EXCEPT ![holds[t]] = NULL]
        BY <3>2 DEF Unloads
      <4>2. "insert" \in Holding /\ "insert" \notin Loaded /\ pc[t] \in Holding
        BY <1>7, <4>1
      <4> QED
        BY <4>1, <4>2
    <3> QED
      BY <1>9, <3>1, <3>2
  <2>2. holds[t] \in Buffers /\ holds[t] \in HeldBuffers /\ holds[t] # NULL
    BY <1>2, <1>3, <1>4, <2>1
  <2>3. /\ memory'[holds[t]] = m /\ \A b \in Buffers : b # holds[t] => memory'[b] = memory[b]
        /\ pc'[t] = l /\ \A u \in Procs : u # t => pc'[u] = pc[u]
    BY <1>2, <2>1, <2>2
  <2>4. Posted' = Posted
    BY <1>5, <2>1
  <2>5. \A b \in Elems(freeList) : b \in Buffers /\ b # holds[t]
    BY <1>4, <2>2
  <2>6. \A b \in Posted \cup sockets : b \in Buffers /\ b # holds[t]
    BY <1>4, <2>2
  <2>7. \A u \in Procs : u # t /\ holds[u] # NULL => holds[u] \in Buffers /\ holds[u] # holds[t]
    BY <1>2, <1>3
  <2>8. \A u \in Procs : holds'[u] # NULL <=> pc'[u] \in Holding
    BY <1>3, <2>1, <2>2, <2>3
  <2>9. \A u \in Procs : holds'[u] # NULL => (memory'[holds'[u]] # NULL <=> pc'[u] \in Loaded)
    <3> SUFFICES ASSUME NEW u \in Procs, holds[u] # NULL
                 PROVE  memory'[holds[u]] # NULL <=> pc'[u] \in Loaded
      BY <2>1
    <3>1. CASE u = t
      BY <2>1, <2>3, <3>1
    <3>2. CASE u # t
      BY <1>3, <2>3, <2>7, <3>2
    <3> QED
      BY <3>1, <3>2
  <2>10. \A b \in Elems(freeList') : memory'[b] = NULL
    BY <1>3, <2>1, <2>3, <2>5
  <2>11. \A b \in Posted' \cup sockets' : memory'[b] # NULL
    BY <1>3, <2>1, <2>3, <2>4, <2>6
  <2>12. \A u, v \in Procs : holds'[u] = holds'[v] /\ holds'[u] # NULL => u = v
    BY <1>3, <2>1
  <2> QED
    BY <2>8, <2>9, <2>10, <2>11, <2>12 DEF Hands
\* A task takes a buffer that no task holds.
<1>10. ASSUME NEW t \in Procs, NEW b \in Buffers, NEW l \in Holding,
              pc[t] \notin Holding, pc' = [pc EXCEPT ![t] = l], holds' = [holds EXCEPT ![t] = b],
              memory' = memory, b \notin HeldBuffers, memory[b] # NULL <=> l \in Loaded,
              Elems(freeList') \subseteq Elems(freeList), Posted' \subseteq Posted,
              sockets' \subseteq sockets
       PROVE  Hands'
  <2>1. /\ holds'[t] = b /\ b # NULL /\ pc'[t] = l
        /\ \A u \in Procs : u # t => holds'[u] = holds[u] /\ pc'[u] = pc[u]
    BY <1>2, <1>10
  <2>2. \A u \in Procs : holds[u] # b
    BY <1>4, <1>10, <2>1
  <2>3. \A u \in Procs : holds'[u] # NULL <=> pc'[u] \in Holding
    BY <1>3, <1>10, <2>1
  <2>4. \A u \in Procs : holds'[u] # NULL => (memory'[holds'[u]] # NULL <=> pc'[u] \in Loaded)
    BY <1>3, <1>10, <2>1
  <2>5. \A u, v \in Procs : holds'[u] = holds'[v] /\ holds'[u] # NULL => u = v
    BY <1>3, <2>1, <2>2
  <2> QED
    BY <1>3, <1>10, <2>3, <2>4, <2>5 DEF Hands
\* A task gives its buffer away.
<1>11. ASSUME NEW t \in Procs, NEW l \in Labels \ Holding, pc' = [pc EXCEPT ![t] = l],
              holds' = [holds EXCEPT ![t] = NULL], memory' = memory,
              \A b \in Elems(freeList') : memory[b] = NULL,
              \A b \in Posted' \cup sockets' : memory[b] # NULL
       PROVE  Hands'
  <2>1. /\ holds'[t] = NULL /\ pc'[t] = l
        /\ \A u \in Procs : u # t => holds'[u] = holds[u] /\ pc'[u] = pc[u]
    BY <1>2, <1>11
  <2>2. \A u \in Procs : holds'[u] # NULL <=> pc'[u] \in Holding
    BY <1>3, <1>11, <2>1
  <2>3. \A u \in Procs : holds'[u] # NULL => (memory'[holds'[u]] # NULL <=> pc'[u] \in Loaded)
    BY <1>3, <1>11, <2>1
  <2>4. \A u, v \in Procs : holds'[u] = holds'[v] /\ holds'[u] # NULL => u = v
    BY <1>3, <2>1
  <2> QED
    BY <1>11, <2>2, <2>3, <2>4 DEF Hands
<1>12. CASE LeavesList
  <2>1. PICK t \in Procs : /\ UNCHANGED <<events, sockets, memory>> /\ pc[t] = "remove"
                           /\ freeList # <<>> /\ freeList' = Tail(freeList)
                           /\ pc' = [pc EXCEPT ![t] = "malloc"]
                           /\ holds' = [holds EXCEPT ![t] = Head(freeList)]
    BY <1>12 DEF LeavesList
  <2>2. /\ Head(freeList) \in Buffers /\ Head(freeList) \in Elems(freeList)
        /\ Elems(freeList') \subseteq Elems(freeList)
    BY <1>2, <1>5, <2>1, OnceTail
  <2>3. Posted' = Posted
    BY <1>5, <2>1
  <2>4. Head(freeList) \notin HeldBuffers /\ memory[Head(freeList)] = NULL
    BY <1>3, <1>4, <2>2
  <2> QED
    BY <1>7, <1>10, <2>1, <2>2, <2>3, <2>4
<1>13. CASE EntersList
  <2>1. PICK t \in Procs : /\ UNCHANGED <<events, sockets, memory>> /\ pc[t] = "insert"
                           /\ pc' = [pc EXCEPT ![t] = "give"]
                           /\ freeList' = Append(freeList, holds[t])
                           /\ holds' = [holds EXCEPT ![t] = NULL]
    BY <1>13 DEF EntersList
  <2>2. holds[t] \in Buffers /\ memory[holds[t]] = NULL
    BY <1>2, <1>3, <1>7, <2>1
  <2>3. Elems(freeList') = Elems(freeList) \cup {holds[t]}
    BY <1>2, <2>1, <2>2, ElemsAppend
  <2>4. Posted' = Posted
    BY <1>5, <2>1
  <2>5. "give" \in Labels \ Holding
    BY DEF Labels, Holding
  <2> QED
    BY <1>3, <1>11, <2>1, <2>2, <2>3, <2>4, <2>5
<1>14. CASE EntersQueue
  <2>1. PICK t \in Procs, e \in Event :
             /\ UNCHANGED <<freeList, sockets, memory>> /\ pc[t] \in {"send", "post"}
             /\ pc' = [pc EXCEPT ![t] = "idle"]
             /\ e.buffer = holds[t] /\ events' = Append(events, e)
             /\ holds' = [holds EXCEPT ![t] = NULL]
    BY <1>14 DEF EntersQueue
  <2>2. holds[t] \in Buffers /\ memory[holds[t]] # NULL
    BY <1>2, <1>3, <1>7, <2>1
  <2>3. Carried(events') = Append(Carried(events), holds[t])
    BY <1>2, <2>1, CarriedIs
  <2>4. Posted' = Posted \cup {holds[t]}
    BY <1>5, <2>2, <2>3, ElemsAppend
  <2>5. "idle" \in Labels \ Holding
    BY DEF Labels, Holding
  <2> QED
    BY <1>3, <1>11, <2>1, <2>2, <2>4, <2>5
<1>15. CASE LeavesQueue
  <2>1. PICK t \in Procs, l \in Loaded :
             /\ UNCHANGED <<freeList, sockets, memory>> /\ pc[t] = "idle"
             /\ pc' = [pc EXCEPT ![t] = l] /\ events # <<>> /\ events' = Tail(events)
             /\ holds' = [holds EXCEPT ![t] = Head(events).buffer]
    BY <1>15 DEF LeavesQueue
  <2> DEFINE b == Head(events).buffer
  <2>2. b \in Posted /\ Posted' \subseteq Posted
    BY <1>5, <1>6, <2>1
  <2>3. holds' = [holds EXCEPT ![t] = b]
    BY <2>1
  <2> HIDE DEF b
  <2>4. b \in Buffers /\ b \notin HeldBuffers /\ memory[b] # NULL
    BY <1>3, <1>4, <2>2
  <2> QED
    BY <1>7, <1>10, <2>1, <2>2, <2>3, <2>4
<1>16. CASE EntersSocket
  <2> DEFINE b == Head(events).buffer
  <2>1. /\ UNCHANGED <<freeList, holds, memory, pc>> /\ events # <<>> /\ events' = Tail(events)
        /\ sockets' = sockets \cup {b}
    BY <1>16 DEF EntersSocket
  <2>2. b \in Posted /\ Posted' \subseteq Posted
    BY <1>5, <1>6, <2>1
  <2> HIDE DEF b
  <2> QED
    BY <1>3, <2>1, <2>2 DEF Hands
<1>17. CASE LeavesSocket
  <2>1. PICK t \in Procs, b \in sockets :
             /\ UNCHANGED <<freeList, events, memory>> /\ pc[t] = "idle"
             /\ pc' = [pc EXCEPT ![t] = "free"]
             /\ holds' = [holds EXCEPT ![t] = b] /\ sockets' = sockets \ {b}
    BY <1>17 DEF LeavesSocket
  <2>2. b \in Buffers /\ b \notin HeldBuffers /\ memory[b] # NULL /\ Posted' = Posted
    BY <1>2, <1>3, <1>4, <1>5, <2>1
  <2> QED
    BY <1>7, <1>10, <2>1, <2>2
<1> QED
  BY <1>8, <1>9, <1>12, <1>13, <1>14, <1>15, <1>16, <1>17 DEF Moves

LEMMA CountedStep ==
    ASSUME InHand, [DriverNext]_driverVars
    PROVE  Counted'
<1> DEFINE Mid == {"remove", "give"}
<1>1. DriverTypes /\ Counted
  BY DEF InHand
<1>2. /\ pc \in [Procs -> Labels] /\ semaphore \in Nat
      /\ freeList \in Seq(Buffers) /\ Len(freeList) \in Nat
      /\ Len(freeList) = semaphore + Cardinality(Between)
  BY <1>1 DEF DriverTypes, Counted
<1>3. IsFiniteSet(Between) /\ Cardinality(Between) \in Nat
  <2>1. IsFiniteSet(Between)
    BY TasksFinite, FS_Subset DEF Between
  <2> QED
    BY <2>1, FS_CardinalityType
<1>4. Between = {t \in Procs : pc[t] \in Mid} /\ Between' = {t \in Procs : pc'[t] \in Mid}
  BY DEF Between
<1>5. ASSUME semaphore' = semaphore, freeList' = freeList,
             pc' = pc \/ \E t \in Procs : \E l \in Labels \ Mid :
                            pc[t] \notin Mid /\ pc' = [pc EXCEPT ![t] = l]
      PROVE  Counted'
  <2>1. Between' = Between
    BY <1>2, <1>4, <1>5
  <2> QED
    BY <1>2, <1>5, <2>1 DEF Counted
<1>6. ASSUME NEW t \in Procs, NEW l \in Mid, pc[t] \notin Mid, pc' = [pc EXCEPT ![t] = l]
      PROVE  Cardinality(Between') = Cardinality(Between) + 1
  <2>1. Between' = Between \cup {t} /\ t \notin Between
    BY <1>2, <1>4, <1>6
  <2> QED
    BY <1>3, <2>1, FS_AddElement
<1>7. ASSUME NEW t \in Procs, NEW l \in Labels \ Mid, pc[t] \in Mid, pc' = [pc EXCEPT ![t] = l]
      PROVE  Cardinality(Between') = Cardinality(Between) - 1
  <2>1. Between' = Between \ {t} /\ t \in Between
    BY <1>2, <1>4, <1>7
  <2> QED
    BY <1>3, <2>1, FS_RemoveElement
<1>8. /\ "remove" \in Mid /\ "give" \in Mid
      /\ {"idle", "get", "malloc", "insert", "free", "copy", "send", "output", "post"}
            = Labels \ Mid
      /\ "emac" \in Procs /\ "ip" \in Procs /\ "app" \in Procs
  BY DEF Labels, Procs
<1>9. CASE \E t \in Procs : Allocator(t)
  <2>1. PICK t \in Procs : Allocator(t)
    BY <1>9
  <2>2. CASE TakeSemaphore(t)
    <3>1. /\ pc[t] = "get" /\ semaphore > 0 /\ semaphore' = semaphore - 1 /\ freeList' = freeList
          /\ pc' = [pc EXCEPT ![t] = "remove"]
      BY <2>2 DEF TakeSemaphore, MovesTo
    <3>2. Cardinality(Between') = Cardinality(Between) + 1
      BY <1>6, <1>8, <3>1
    <3> QED
      BY <1>2, <1>3, <3>1, <3>2 DEF Counted
  <2>3. CASE RemoveHead(t)
    <3>1. pc[t] = "remove" /\ semaphore' = semaphore /\ pc' = [pc EXCEPT ![t] = "malloc"]
          /\ freeList' = Tail(freeList)
      BY <2>3 DEF RemoveHead, MovesTo
    <3>2. freeList # <<>>
      BY <3>1, ListNotEmpty
    <3>3. Len(freeList') = Len(freeList) - 1
      BY <1>2, <3>1, <3>2
    <3>4. Cardinality(Between') = Cardinality(Between) - 1
      BY <1>7, <1>8, <3>1
    <3> QED
      BY <1>2, <1>3, <3>1, <3>3, <3>4 DEF Counted
  <2>4. CASE ReleaseGives(t)
    <3>1. pc[t] = "give" /\ semaphore' = semaphore + 1 /\ pc' = [pc EXCEPT ![t] = "idle"]
          /\ freeList' = freeList
      BY <2>4 DEF ReleaseGives, MovesTo
    <3>2. Cardinality(Between') = Cardinality(Between) - 1
      BY <1>7, <1>8, <3>1
    <3> QED
      BY <1>2, <1>3, <3>1, <3>2 DEF Counted
  <2>5. CASE ReleaseInserts(t)
    <3>1. holds[t] # NULL /\ holds[t] \in Buffers
      BY <1>1, <2>5 DEF ReleaseInserts, InHand, Hands, Holding, DriverTypes
    <3>2. holds[t] \notin ToSet(freeList)
      BY <3>1 DEF InHand, OnePlace, HeldBuffers, Elems, ToSet
    <3>3. pc[t] = "insert" /\ semaphore' = semaphore /\ pc' = [pc EXCEPT ![t] = "give"]
          /\ freeList' = Append(freeList, holds[t])
      BY <2>5, <3>2 DEF ReleaseInserts, MovesTo
    <3>4. Len(freeList') = Len(freeList) + 1
      BY <1>2, <3>1, <3>3
    <3>5. Cardinality(Between') = Cardinality(Between) + 1
      BY <1>6, <1>8, <3>3
    <3> QED
      BY <1>2, <1>3, <3>3, <3>4, <3>5 DEF Counted
  <2>6. CASE GetGivesUp(t)
    BY <1>5, <1>8, <2>6 DEF GetGivesUp, MovesTo, allocVars
  <2>7. CASE Allocate(t)
    <3>1. GetReturns(t) \in Labels \ Mid
      BY <1>8 DEF GetReturns
    <3>2. pc[t] = "malloc" /\ UNCHANGED <<semaphore, freeList>>
      BY <2>7 DEF Allocate
    <3>3. pc' = [pc EXCEPT ![t] = "insert"] \/ pc' = [pc EXCEPT ![t] = GetReturns(t)]
      BY <2>7, AllocatesFor
    <3> QED
      BY <1>5, <1>8, <3>1, <3>2, <3>3
  <2>8. CASE FreeMemory(t)
    BY <1>5, <1>8, <2>8 DEF FreeMemory, MovesTo
  <2> QED
    BY <2>1, <2>2, <2>3, <2>4, <2>5, <2>6, <2>7, <2>8 DEF Allocator
<1> USE DEF taskVars, txVars, emacVars, allocVars
<1>10. CASE \/ \E f \in Frames : Arrive(f)
            \/ EthernetIntHandler \/ DmaSends \/ AppFrees
            \/ \E n \in Sizes : AppAllocates(n)
            \/ UNCHANGED driverVars
  <2>1. UNCHANGED <<semaphore, freeList, pc>>
    BY <1>10 DEF Arrive, EthernetIntHandler, DmaSends, AppFrees, AppAllocates, driverVars
  <2> QED
    BY <1>5, <2>1
<1>11. CASE EmacWakes \/ EmacCopies \/ EmacPosts
  <2>1. /\ UNCHANGED <<semaphore, freeList>> /\ pc["emac"] \in {"idle", "copy", "send"}
        /\ pc' = pc \/ \E l \in {"get", "send", "free", "idle"} : pc' = [pc EXCEPT !["emac"] = l]
    BY <1>11 DEF EmacWakes, EmacCopies, EmacPosts, MovesTo
  <2> QED
    BY <1>5, <1>8, <2>1
<1>12. CASE \/ IpReceives \/ IpSends \/ xNetworkInterfaceOutput
            \/ \E n \in Sizes : IpAsks(n)
  <2>1. /\ UNCHANGED <<semaphore, freeList>> /\ pc["ip"] \in {"idle", "output"}
        /\ pc' = pc \/ \E l \in {"free", "output", "get"} : pc' = [pc EXCEPT !["ip"] = l]
    BY <1>12 DEF IpReceives, IpSends, xNetworkInterfaceOutput, IpAsks, MovesTo
  <2> QED
    BY <1>5, <1>8, <2>1
<1>13. CASE \/ \E n \in Sizes : AppAsks(n)
            \/ AppPosts \/ AppReads
  <2>1. /\ UNCHANGED <<semaphore, freeList>> /\ pc["app"] \in {"idle", "post"}
        /\ \E l \in {"get", "idle", "free"} : pc' = [pc EXCEPT !["app"] = l]
    BY <1>13 DEF AppAsks, AppPosts, AppReads, MovesTo
  <2> QED
    BY <1>5, <1>8, <2>1
<1> QED
  BY <1>9, <1>10, <1>11, <1>12, <1>13 DEF DriverNext

(***************************************************************************)
(* The blocks in use and who has them.                                     *)
(***************************************************************************)
UsedAt(used) == {b.at + Header : b \in used}

LEMMA UsedGrows ==
    ASSUME NEW h, WholeHeap(h), NEW taken \in Blk, \A b \in h.used : b.at # taken.at
    PROVE  /\ UsedAt(h.used \cup {taken}) = UsedAt(h.used) \cup {taken.at + Header}
           /\ taken.at + Header \notin UsedAt(h.used) /\ taken.at + Header \in Nat
           /\ Cardinality(h.used \cup {taken}) = Cardinality(h.used) + 1
           /\ Cardinality(h.used) \in Nat
<1>1. h.used \subseteq Blk /\ IsFiniteSet(h.used)
  BY DEF WholeHeap, Packed
<1>2. taken.at \in Nat /\ \A b \in h.used : b.at \in Nat
  BY <1>1 DEF Blk
<1>3. taken.at + Header \notin UsedAt(h.used)
  BY <1>2 DEF UsedAt, Header
<1>4. taken \notin h.used
  OBVIOUS
<1>5. Cardinality(h.used \cup {taken}) = Cardinality(h.used) + 1 /\ Cardinality(h.used) \in Nat
  BY <1>1, <1>4, FS_AddElement, FS_CardinalityType
<1>6. UsedAt(h.used \cup {taken}) = UsedAt(h.used) \cup {taken.at + Header}
  BY DEF UsedAt
<1> QED
  BY <1>2, <1>3, <1>5, <1>6 DEF Header

LEMMA UsedShrinks ==
    ASSUME NEW h, WholeHeap(h), NEW block \in h.used
    PROVE  /\ UsedAt(h.used \ {block}) = UsedAt(h.used) \ {block.at + Header}
           /\ Cardinality(h.used \ {block}) = Cardinality(h.used) - 1
           /\ Cardinality(h.used) \in Nat
<1>1. h.used \subseteq Blk /\ IsFiniteSet(h.used)
  BY DEF WholeHeap, Packed
<1>2. \A b \in h.used : b.at \in Nat
  BY <1>1 DEF Blk
<1>3. \A b \in h.used : b # block => b.at # block.at
  BY <1>1, ApartUnits DEF WholeHeap, Packed
<1>4. \A b \in h.used : b # block => b.at + Header # block.at + Header
  BY <1>2, <1>3 DEF Header
<1>5. UsedAt(h.used \ {block}) = UsedAt(h.used) \ {block.at + Header}
  BY <1>4 DEF UsedAt
<1> QED
  BY <1>1, <1>5, FS_RemoveElement, FS_CardinalityType

LEMMA BlocksStep ==
    ASSUME InHand, [DriverNext]_driverVars, DriverTypes'
    PROVE  Blocks'
<1>1. DriverTypes /\ Blocks
  BY DEF InHand
<1>2. /\ memory \in [Buffers -> Nat \cup {NULL}] /\ others \subseteq Nat /\ IsFiniteSet(others)
      /\ NULL \notin Nat /\ IsFiniteSet(Buffers)
  BY <1>1, NULLAssumption, DriverAssumption DEF DriverTypes
<1>3. /\ WholeHeap(heap)
      /\ \A b, c \in Owners : memory[b] = memory[c] => b = c
      /\ \A b \in Owners : memory[b] \notin others
      /\ UsedAt(heap.used) = {memory[b] : b \in Owners} \cup others
      /\ Cardinality(heap.used) = Cardinality(Owners) + Cardinality(others)
  BY <1>1 DEF Blocks, UsedAt
<1>4. /\ IsFiniteSet(Owners) /\ Cardinality(Owners) \in Nat /\ Cardinality(others) \in Nat
  <2>1. IsFiniteSet(Owners)
    BY <1>2, FS_Subset DEF Owners
  <2> QED
    BY <1>2, <2>1, FS_CardinalityType
<1>5. SUFFICES /\ WholeHeap(heap')
               /\ \A b, c \in Owners' : memory'[b] = memory'[c] => b = c
               /\ \A b \in Owners' : memory'[b] \notin others'
               /\ UsedAt(heap'.used) = {memory'[b] : b \in Owners'} \cup others'
               /\ Cardinality(heap'.used) = Cardinality(Owners') + Cardinality(others')
  BY DEF Blocks, UsedAt
<1>6. CASE \E t \in Procs : Allocate(t) /\ others' = others
  <2>1. PICK t \in Procs : Allocate(t) /\ others' = others
    BY <1>6
  <2> DEFINE b == holds[t]
  <2>2. CASE heap' = heap /\ memory' = memory
    BY <1>3, <2>1, <2>2 DEF Owners
  <2>3. CASE /\ b \in Buffers /\ memory[b] = NULL
             /\ \E taken \in Blk : /\ memory' = [memory EXCEPT ![b] = taken.at + Header]
                                   /\ WholeHeap(heap')
                                   /\ heap'.used = heap.used \cup {taken}
                                   /\ \A x \in heap.used : x.at # taken.at
    <3>1. PICK taken \in Blk : /\ memory' = [memory EXCEPT ![b] = taken.at + Header]
                               /\ WholeHeap(heap')
                               /\ heap'.used = heap.used \cup {taken}
                               /\ \A x \in heap.used : x.at # taken.at
      BY <2>3
    <3> DEFINE a == taken.at + Header
    <3>2. /\ UsedAt(heap'.used) = UsedAt(heap.used) \cup {a} /\ a \notin UsedAt(heap.used)
          /\ a \in Nat /\ Cardinality(heap'.used) = Cardinality(heap.used) + 1
      BY <1>3, <3>1, UsedGrows
    <3>3. memory' = [memory EXCEPT ![b] = a]
      BY <3>1
    <3> HIDE DEF a, b
    <3>4. Owners' = Owners \cup {b} /\ b \notin Owners
      BY <1>2, <2>3, <3>2, <3>3 DEF Owners
    <3>5. /\ memory'[b] = a /\ \A c \in Owners : c # b /\ memory'[c] = memory[c]
      BY <1>2, <2>3, <3>3, <3>4 DEF Owners
    <3>6. Cardinality(Owners') = Cardinality(Owners) + 1
      BY <1>4, <3>4, FS_AddElement
    <3>7. \A c \in Owners : memory[c] # a
      BY <1>3, <3>2
    <3>8. \A c, d \in Owners' : memory'[c] = memory'[d] => c = d
      BY <1>3, <3>4, <3>5, <3>7
    <3>9. \A c \in Owners' : memory'[c] \notin others'
      BY <1>3, <2>1, <3>2, <3>4, <3>5
    <3>10. UsedAt(heap'.used) = {memory'[c] : c \in Owners'} \cup others'
      BY <1>3, <2>1, <3>2, <3>4, <3>5
    <3>11. Cardinality(heap'.used) = Cardinality(Owners') + Cardinality(others')
      BY <1>3, <1>4, <2>1, <3>2, <3>6
    <3> QED
      BY <3>1, <3>8, <3>9, <3>10, <3>11
  <2> QED
    BY <2>1, <2>2, <2>3, AllocatesFor
<1>7. CASE \E t \in Procs : FreeMemory(t) /\ others' = others
  <2>1. PICK t \in Procs : FreeMemory(t) /\ others' = others
    BY <1>7
  <2> DEFINE b == holds[t]
  <2>2. PICK block \in heap.used : /\ b \in Buffers /\ memory[b] # NULL
                                   /\ memory' = [memory EXCEPT ![b] = NULL]
                                   /\ memory[b] = block.at + Header
                                   /\ WholeHeap(heap')
                                   /\ heap'.used = heap.used \ {block}
    BY <2>1, FreesOf
  <2> HIDE DEF b
  <2>3. /\ UsedAt(heap'.used) = UsedAt(heap.used) \ {memory[b]}
        /\ Cardinality(heap'.used) = Cardinality(heap.used) - 1
    BY <1>3, <2>2, UsedShrinks
  <2>4. Owners' = Owners \ {b} /\ b \in Owners
    BY <1>2, <2>2 DEF Owners
  <2>5. \A c \in Owners' : memory'[c] = memory[c]
    BY <1>2, <2>2, <2>4 DEF Owners
  <2>6. Cardinality(Owners') = Cardinality(Owners) - 1
    BY <1>4, <2>4, FS_RemoveElement
  <2>7. UsedAt(heap'.used) = {memory'[c] : c \in Owners'} \cup others'
    BY <1>3, <2>1, <2>3, <2>4, <2>5
  <2>8. \A c, d \in Owners' : memory'[c] = memory'[d] => c = d
    BY <1>3, <2>4, <2>5
  <2>9. \A c \in Owners' : memory'[c] \notin others'
    BY <1>3, <2>1, <2>4, <2>5
  <2>10. Cardinality(heap'.used) = Cardinality(Owners') + Cardinality(others')
    BY <1>3, <1>4, <2>1, <2>3, <2>6
  <2> QED
    BY <2>2, <2>7, <2>8, <2>9, <2>10
<1>8. CASE \E n \in Sizes : AppAllocates(n)
  <2>1. PICK n \in Sizes : AppAllocates(n)
    BY <1>8
  <2> DEFINE got == pvPortMalloc(heap, n)
  <2>2. got.at # NULL /\ heap' = got.heap /\ others' = others \cup {got.at} /\ memory' = memory
    BY <2>1 DEF AppAllocates
  <2>3. n \in Nat
    BY DriverAssumption
  <2> HIDE DEF got
  <2>4. PICK taken \in Blk : /\ got.at = taken.at + Header
                             /\ WholeHeap(got.heap)
                             /\ got.heap.used = heap.used \cup {taken}
                             /\ \A b \in heap.used : b.at # taken.at
    BY <1>3, <2>2, <2>3, MallocIs DEF got
  <2>5. /\ UsedAt(heap'.used) = UsedAt(heap.used) \cup {got.at} /\ got.at \notin UsedAt(heap.used)
        /\ Cardinality(heap'.used) = Cardinality(heap.used) + 1
    BY <1>3, <2>2, <2>4, UsedGrows
  <2>6. Owners' = Owners
    BY <2>2 DEF Owners
  <2>7. Cardinality(others') = Cardinality(others) + 1
    <3>1. got.at \notin others
      BY <1>3, <2>5
    <3> QED
      BY <1>2, <2>2, <3>1, FS_AddElement
  <2>8. Cardinality(heap'.used) = Cardinality(Owners') + Cardinality(others')
    BY <1>3, <1>4, <2>5, <2>6, <2>7
  <2>9. \A b \in Owners' : memory'[b] \notin others'
    BY <1>3, <2>2, <2>5, <2>6
  <2>10. UsedAt(heap'.used) = {memory'[b] : b \in Owners'} \cup others'
    BY <1>3, <2>2, <2>5, <2>6
  <2> QED
    BY <1>3, <2>2, <2>4, <2>6, <2>8, <2>9, <2>10
<1>9. CASE AppFrees
  <2>1. PICK at \in others : /\ heap' = vPortFree(heap, at) /\ others' = others \ {at}
                             /\ memory' = memory
    BY <1>9 DEF AppFrees
  <2>2. PICK block \in heap.used : at = block.at + Header
    BY <1>3 DEF UsedAt
  <2>3. WholeHeap(heap') /\ heap'.used = heap.used \ {block}
    BY <1>3, <2>1, <2>2, FreeIs
  <2>4. /\ UsedAt(heap'.used) = UsedAt(heap.used) \ {at}
        /\ Cardinality(heap'.used) = Cardinality(heap.used) - 1
    BY <1>3, <2>2, <2>3, UsedShrinks
  <2>5. Owners' = Owners
    BY <2>1 DEF Owners
  <2>6. Cardinality(others') = Cardinality(others) - 1
    BY <1>2, <2>1, FS_RemoveElement
  <2>7. Cardinality(heap'.used) = Cardinality(Owners') + Cardinality(others')
    BY <1>3, <1>4, <2>4, <2>5, <2>6
  <2>8. UsedAt(heap'.used) = {memory'[b] : b \in Owners'} \cup others'
    BY <1>3, <2>1, <2>4, <2>5
  <2>9. \A b \in Owners' : memory'[b] \notin others'
    BY <1>3, <2>1, <2>5
  <2> QED
    BY <1>3, <2>1, <2>3, <2>5, <2>7, <2>8, <2>9
<1>10. CASE UNCHANGED <<heap, memory, others>>
  BY <1>3, <1>10 DEF Owners
<1>11. ASSUME NEW t \in Procs, Allocator(t)
       PROVE  \/ Allocate(t) /\ others' = others
              \/ FreeMemory(t) /\ others' = others
              \/ UNCHANGED <<heap, memory, others>>
  BY <1>11 DEF Allocator, TakeSemaphore, GetGivesUp, RemoveHead, ReleaseInserts, ReleaseGives,
       allocVars
<1>12. \/ \E t \in Procs : Allocator(t)
       \/ \E n \in Sizes : AppAllocates(n)
       \/ AppFrees
       \/ UNCHANGED <<heap, memory, others>>
  BY DEF DriverNext, Arrive, EthernetIntHandler, DmaSends, EmacWakes, EmacCopies, EmacPosts, IpReceives,
     IpSends, xNetworkInterfaceOutput, IpAsks, AppAsks, AppPosts, AppReads, driverVars, allocVars
<1> QED
  BY <1>6, <1>7, <1>8, <1>9, <1>10, <1>11, <1>12

(***************************************************************************)
(* The invariant, from the first state on.                                 *)
(***************************************************************************)
LEMMA ListOfAll ==
    /\ SetToSeq(Buffers) \in Seq(Buffers) /\ IsInjective(SetToSeq(Buffers))
    /\ Elems(SetToSeq(Buffers)) = Buffers
    /\ Len(SetToSeq(Buffers)) = Cardinality(Buffers)
<1> DEFINE n == Cardinality(Buffers)
           q == SetToSeq(Buffers)
<1>1. IsFiniteSet(Buffers) /\ n \in Nat /\ ExistsBijection(1..n, Buffers)
  BY DriverAssumption, FS_CardinalityType
<1>2. PICK f \in Bijection(1..n, Buffers) : TRUE
  BY <1>1 DEF ExistsBijection
<1>3. f \in [1..n -> Buffers] /\ IsInjective(f)
  BY DEF Bijection, Injection, IsInjective
<1>4. q \in [1..n -> Buffers] /\ IsInjective(q)
  <2>1. q = CHOOSE g \in [1..n -> Buffers] : IsInjective(g)
    BY DEF SetToSeq
  <2> HIDE DEF n, q
  <2> QED
    BY <1>3, <2>1
<1> HIDE DEF n, q
<1>5. q \in Seq(Buffers) /\ Len(q) = n /\ DOMAIN q = 1..n
  BY <1>1, <1>4, FunctionIsSeq
<1>6. q \in Injection(1..n, Buffers)
  BY <1>4, <1>5 DEF Injection, IsInjective
<1>7. Cardinality(1..n) = Cardinality(Buffers)
  <2>1. 1 \in Int /\ n \in Int
    BY <1>1
  <2>2. Cardinality(1..n) = IF 1 > n THEN 0 ELSE n - 1 + 1
    BY <2>1, FS_Interval
  <2> QED
    BY <1>1, <2>2 DEF n
<1>8. q \in Surjection(1..n, Buffers)
  BY <1>1, <1>6, <1>7, FS_Injection
<1>9. Elems(q) = Buffers
  <2>1. \A b \in Buffers : \E i \in 1..n : q[i] = b
    BY <1>8 DEF Surjection
  <2>2. \A i \in 1..n : q[i] \in Buffers
    BY <1>4
  <2> QED
    BY <1>5, <2>1, <2>2 DEF Elems
<1> QED
  BY <1>4, <1>5, <1>9 DEF q, n

LEMMA InHandInit == DriverInit => InHand
<1> SUFFICES ASSUME DriverInit
             PROVE  InHand
  OBVIOUS
<1>1. /\ freeList = SetToSeq(Buffers) /\ semaphore = Cardinality(Buffers)
      /\ memory = [b \in Buffers |-> NULL] /\ heap = prvHeapInit
      /\ rx = [i \in 0 .. RxRing - 1 |-> Owned] /\ rxIndex = 0 /\ rxHw = 0
      /\ events = <<>> /\ sockets = {} /\ others = {}
      /\ pc = [t \in Procs |-> "idle"] /\ holds = [t \in Procs |-> NULL]
      /\ size = [t \in Procs |-> 0]
  BY DEF DriverInit, xNetworkBuffersInitialise, InitDescriptors
<1>2. /\ freeList \in Seq(Buffers) /\ IsInjective(freeList) /\ Elems(freeList) = Buffers
      /\ Len(freeList) = Cardinality(Buffers) /\ Cardinality(Buffers) \in Nat
  BY <1>1, ListOfAll, DriverAssumption, FS_CardinalityType
<1>3. IsFiniteSet({}) /\ Cardinality({}) = 0
  BY FS_EmptySet
<1>4. DriverTypes
  <2>1. 0 \in 0 .. RxRing - 1
    BY DriverAssumption
  <2>2. events \in Seq(Event)
    BY <1>1
  <2>3. pc \in [Procs -> Labels]
    BY <1>1 DEF Labels
  <2> QED
    BY <1>1, <1>2, <1>3, <2>1, <2>2, <2>3 DEF DriverTypes
<1>5. HeldBuffers = {} /\ Posted = {}
  BY <1>1 DEF HeldBuffers, Posted
<1>6. Hands
  BY <1>1, <1>2, <1>5 DEF Hands, Holding
<1>7. OnePlace
  BY <1>1, <1>2, <1>5 DEF OnePlace
<1>8. Counted
  <2>1. Between = {}
    BY <1>1 DEF Between
  <2> QED
    BY <1>1, <1>2, <1>3, <2>1 DEF Counted
<1>9. Blocks
  <2>1. Owners = {}
    BY <1>1 DEF Owners
  <2> QED
    BY <1>1, <1>3, <2>1, InitHeap DEF Blocks
<1> QED
  BY <1>4, <1>6, <1>7, <1>8, <1>9 DEF InHand

LEMMA InHandStep == InHand /\ [DriverNext]_driverVars => InHand'
<1> SUFFICES ASSUME InHand, [DriverNext]_driverVars
             PROVE  InHand'
  OBVIOUS
<1>1. DriverTypes' /\ Moves
  BY TypesStep, StepMoves
<1>2. Hands' /\ OnePlace'
  BY <1>1, HandsStep, PlacesStep
<1>3. Counted' /\ Blocks'
  BY <1>1, CountedStep, BlocksStep
<1> QED
  BY <1>1, <1>2, <1>3 DEF InHand

LEMMA InHandHolds == DriverSpec => []InHand
BY InHandInit, InHandStep, PTL DEF DriverSpec

LEMMA InHandAccounts == InHand => BuffersAccounted
<1> SUFFICES ASSUME InHand
             PROVE  BuffersAccounted
  OBVIOUS
<1>1. DriverTypes /\ Hands /\ OnePlace /\ Counted /\ Blocks
  BY DEF InHand
<1>2. Elems(freeList) = ToSet(freeList)
  BY DEF Elems, ToSet
<1>3. At("remove") \cup At("give") = Between
  BY DEF At, Between
<1>4. IsFiniteSet(Elems(freeList)) /\ Cardinality(Elems(freeList)) = Len(freeList)
      /\ Len(freeList) \in Nat
  BY <1>1, OnceCount DEF DriverTypes, OnePlace
<1>5. IsFiniteSet(Posted) /\ Cardinality(Posted) = Len(events) /\ Len(events) \in Nat
  <2>1. Carried(events) \in Seq(Buffers) /\ Len(Carried(events)) = Len(events)
    BY <1>1, CarriedIs DEF DriverTypes
  <2>2. IsInjective(Carried(events))
    BY <1>1 DEF OnePlace, IsInjective, Carried
  <2>3. Posted = Elems(Carried(events))
    BY PostedIs DEF Posted
  <2>4. Len(events) \in Nat
    BY <1>1 DEF DriverTypes
  <2> QED
    BY <2>1, <2>2, <2>3, <2>4, OnceCount
<1>6. /\ IsFiniteSet(HeldBuffers) /\ IsFiniteSet(sockets)
      /\ Cardinality(HeldBuffers) \in Nat /\ Cardinality(sockets) \in Nat
  <2>1. HeldBuffers \subseteq Buffers /\ sockets \subseteq Buffers /\ IsFiniteSet(Buffers)
    BY <1>1, DriverAssumption DEF DriverTypes, HeldBuffers
  <2> QED
    BY <2>1, FS_Subset, FS_CardinalityType
<1>7. Cardinality(Buffers) = Len(freeList) + Cardinality(HeldBuffers) + Len(events) + Cardinality(sockets)
  <2> DEFINE F == Elems(freeList)
             FH == F \cup HeldBuffers
             FHP == FH \cup Posted
  <2>1. F \cap HeldBuffers = {} /\ FH \cap Posted = {} /\ FHP \cap sockets = {}
        /\ FHP \cup sockets = Buffers
    BY <1>1 DEF OnePlace, Hands
  <2> HIDE DEF F
  <2>2. IsFiniteSet(FH) /\ Cardinality(FH) = Len(freeList) + Cardinality(HeldBuffers)
    <3>1. /\ IsFiniteSet(FH)
          /\ Cardinality(FH) = Cardinality(F) + Cardinality(HeldBuffers) - Cardinality(F \cap HeldBuffers)
      BY <1>4, <1>6, FS_Union DEF F
    <3>2. Cardinality(F \cap HeldBuffers) = 0
      BY <2>1, FS_EmptySet
    <3>3. Cardinality(F) = Len(freeList)
      BY <1>4 DEF F
    <3> QED
      BY <1>4, <1>6, <3>1, <3>2, <3>3
  <2> HIDE DEF FH
  <2>3. IsFiniteSet(FHP) /\ Cardinality(FHP) = Len(freeList) + Cardinality(HeldBuffers) + Len(events)
    <3>1. /\ IsFiniteSet(FHP)
          /\ Cardinality(FHP) = Cardinality(FH) + Cardinality(Posted) - Cardinality(FH \cap Posted)
      BY <1>5, <2>2, FS_Union
    <3>2. Cardinality(FH \cap Posted) = 0
      BY <2>1, FS_EmptySet
    <3> QED
      BY <1>4, <1>5, <1>6, <2>2, <3>1, <3>2
  <2> HIDE DEF FHP
  <2>4. Cardinality(FHP \cup sockets)
          = Cardinality(FHP) + Cardinality(sockets) - Cardinality(FHP \cap sockets)
    BY <1>6, <2>3, FS_Union
  <2>5. Cardinality(FHP \cap sockets) = 0
    BY <2>1, FS_EmptySet
  <2>6. Cardinality(FHP \cup sockets) = Cardinality(FHP) + Cardinality(sockets)
    <3>1. Cardinality(FHP) \in Nat
      BY <1>4, <1>5, <1>6, <2>3
    <3> QED
      BY <1>6, <2>4, <2>5, <3>1
  <2> QED
    BY <2>1, <2>3, <2>6
<1>8. HeapIsWhole(heap)
  BY <1>1, WholeIsWhole DEF Blocks
<1>9. Len(freeList) = semaphore + Cardinality(At("remove") \cup At("give"))
  BY <1>1, <1>3 DEF Counted
<1>10. /\ \A t, u \in Procs : holds[t] = holds[u] /\ holds[t] # NULL => t = u
       /\ \A b \in ToSet(freeList) : memory[b] = NULL
       /\ \A b \in Posted \cup sockets : memory[b] # NULL
  BY <1>1, <1>2 DEF Hands
<1>11. IsInjective(freeList) /\ ToSet(freeList) \cup HeldBuffers \cup Posted \cup sockets = Buffers
  BY <1>1, <1>2 DEF OnePlace
<1>12. LET owned == {b \in Buffers : memory[b] # NULL}
       IN  /\ {b.at + Header : b \in heap.used} = {memory[b] : b \in owned} \cup others
           /\ Cardinality(heap.used) = Cardinality(owned) + Cardinality(others)
  BY <1>1 DEF Blocks, Owners
<1> QED
  BY <1>7, <1>8, <1>9, <1>10, <1>11, <1>12 DEF BuffersAccounted

\* Every network buffer is in one place, the semaphore agrees with the list of the
\* free ones, and the heap stays whole and has no block that nobody owns, however
\* the tasks, the interrupt and the DMA interleave and wherever the heap, the
\* buffers or the event queue run out; for every number of buffers, size of the
\* heap and length of the rings.
THEOREM NoBufferLost == DriverSpec => []BuffersAccounted
BY InHandHolds, InHandAccounts, PTL
(***************************************************************************)
(* The driver is a channel: where the frames are, and in what order.       *)
(***************************************************************************)
\* How many descriptors a stands after the one the driver reads next.
Ahead(index, i) == IF i >= index THEN i - index ELSE i - index + RxRing

\* The n descriptors from there on hold the last n frames that arrived, and the
\* DMA writes the one after them.
Filled(n) ==
    /\ n <= arrived
    /\ \A i \in 0 .. RxRing - 1 :
         /\ Ahead(rxIndex, i) < n => /\ rx[i] # Owned
                                     /\ rx[i].seq = arrived - n + Ahead(rxIndex, i) + 1
         /\ Ahead(rxIndex, i) >= n => rx[i] = Owned
    /\ IF n = RxRing THEN rxHw = rxIndex ELSE Ahead(rxIndex, rxHw) = n

Ring == arrived \in Nat /\ \E n \in 0 .. RxRing : Filled(n)

LEMMA NextIndexIs ==
    ASSUME NEW i \in 0 .. RxRing - 1
    PROVE  /\ (i + 1) % RxRing = IF i + 1 = RxRing THEN 0 ELSE i + 1
           /\ (i + 1) % RxRing \in 0 .. RxRing - 1
<1>1. RxRing \in Nat \ {0}
  BY DriverAssumption
<1>2. CASE i + 1 = RxRing
  <2>1. RxRing % RxRing = 0
    BY <1>1
  <2> QED
    BY <1>1, <1>2, <2>1
<1>3. CASE i + 1 < RxRing
  BY <1>1, <1>3
<1> QED
  BY <1>1, <1>2, <1>3

LEMMA AheadIs ==
    ASSUME NEW index \in 0 .. RxRing - 1, NEW i \in 0 .. RxRing - 1
    PROVE  /\ Ahead(index, i) \in 0 .. RxRing - 1
           /\ Ahead(index, i) = 0 <=> i = index
           /\ \A k \in 0 .. RxRing - 1 : Ahead(index, i) = Ahead(index, k) => i = k
BY DriverAssumption DEF Ahead

LEMMA AheadMoves ==
    ASSUME NEW index \in 0 .. RxRing - 1, NEW i \in 0 .. RxRing - 1
    PROVE  /\ Ahead((index + 1) % RxRing, i) = IF i = index THEN RxRing - 1
                                               ELSE Ahead(index, i) - 1
           /\ IF Ahead(index, i) = RxRing - 1 THEN (i + 1) % RxRing = index
              ELSE Ahead(index, (i + 1) % RxRing) = Ahead(index, i) + 1
<1> DEFINE next == (index + 1) % RxRing
           after == (i + 1) % RxRing
<1>1. RxRing \in Nat /\ RxRing > 0
  BY DriverAssumption
<1>2. /\ next = IF index + 1 = RxRing THEN 0 ELSE index + 1
      /\ after = IF i + 1 = RxRing THEN 0 ELSE i + 1
  BY NextIndexIs
<1> HIDE DEF next, after
<1>3. Ahead(next, i) = IF i = index THEN RxRing - 1 ELSE Ahead(index, i) - 1
  BY <1>1, <1>2 DEF Ahead
<1>4. IF Ahead(index, i) = RxRing - 1 THEN after = index
      ELSE Ahead(index, after) = Ahead(index, i) + 1
  BY <1>1, <1>2 DEF Ahead
<1> QED
  BY <1>3, <1>4 DEF next, after

LEMMA ArriveRing ==
    ASSUME DriverTypes, Ring, NEW f \in Frames, Arrive(f)
    PROVE  Ring'
<1>1. /\ RxRing \in Nat /\ RxRing > 0 /\ arrived \in Nat
      /\ rxHw \in 0 .. RxRing - 1 /\ rxIndex \in 0 .. RxRing - 1
      /\ rx = [i \in 0 .. RxRing - 1 |-> rx[i]]
      /\ f.size \in Nat /\ f.keep \in BOOLEAN
  BY DriverAssumption DEF DriverTypes, Ring
<1>2. PICK n \in 0 .. RxRing : Filled(n)
  BY DEF Ring
<1> DEFINE frame == [seq |-> arrived + 1, size |-> f.size, keep |-> f.keep]
<1>3. /\ rx[rxHw] = Owned /\ arrived' = arrived + 1 /\ rxIndex' = rxIndex
      /\ rx' = [rx EXCEPT ![rxHw] = frame] /\ rxHw' = (rxHw + 1) % RxRing
  BY DEF Arrive
<1>4. frame.seq = arrived + 1 /\ frame # Owned
  BY <1>1, DriverAssumption DEF Owned
<1> HIDE DEF frame
<1>5. n # RxRing /\ Ahead(rxIndex, rxHw) = n /\ n \in Nat
  <2>1. Ahead(rxIndex, rxHw) \in 0 .. RxRing - 1
    BY <1>1, AheadIs
  <2> QED
    BY <1>1, <1>2, <1>3, <2>1 DEF Filled
<1>6. /\ rx'[rxHw] = frame
      /\ \A i \in 0 .. RxRing - 1 : i # rxHw => rx'[i] = rx[i]
  BY <1>1, <1>3
<1>7. ASSUME NEW i \in 0 .. RxRing - 1
      PROVE  /\ Ahead(rxIndex, i) < n + 1 =>
                  /\ rx'[i] # Owned
                  /\ rx'[i].seq = arrived + 1 - (n + 1) + Ahead(rxIndex, i) + 1
             /\ Ahead(rxIndex, i) >= n + 1 => rx'[i] = Owned
  <2>1. CASE i = rxHw
    BY <1>1, <1>4, <1>5, <1>6, <2>1
  <2>2. CASE i # rxHw
    <3>1. Ahead(rxIndex, i) \in Nat /\ Ahead(rxIndex, i) # n
      BY <1>1, <1>5, <2>2, AheadIs
    <3>2. /\ Ahead(rxIndex, i) < n => /\ rx[i] # Owned
                                      /\ rx[i].seq = arrived - n + Ahead(rxIndex, i) + 1
          /\ Ahead(rxIndex, i) >= n => rx[i] = Owned
      BY <1>2 DEF Filled
    <3> QED
      BY <1>1, <1>5, <1>6, <2>2, <3>1, <3>2
  <2> QED
    BY <2>1, <2>2
<1>8. IF n + 1 = RxRing THEN rxHw' = rxIndex ELSE Ahead(rxIndex, rxHw') = n + 1
  <2>1. IF Ahead(rxIndex, rxHw) = RxRing - 1 THEN rxHw' = rxIndex
        ELSE Ahead(rxIndex, rxHw') = Ahead(rxIndex, rxHw) + 1
    BY <1>1, <1>3, AheadMoves
  <2> QED
    BY <1>1, <1>5, <2>1
<1>9. n + 1 \in 0 .. RxRing /\ n + 1 <= arrived + 1
  BY <1>1, <1>2, <1>5 DEF Filled
<1>10. Filled(n + 1)'
  <2>1. \A i \in 0 .. RxRing - 1 :
           /\ Ahead(rxIndex', i) < n + 1 =>
                /\ rx'[i] # Owned
                /\ rx'[i].seq = arrived' - (n + 1) + Ahead(rxIndex', i) + 1
           /\ Ahead(rxIndex', i) >= n + 1 => rx'[i] = Owned
    <3> SUFFICES ASSUME NEW i \in 0 .. RxRing - 1
                 PROVE  /\ Ahead(rxIndex', i) < n + 1 =>
                             /\ rx'[i] # Owned
                             /\ rx'[i].seq = arrived' - (n + 1) + Ahead(rxIndex', i) + 1
                        /\ Ahead(rxIndex', i) >= n + 1 => rx'[i] = Owned
      OBVIOUS
    <3>1. Ahead(rxIndex', i) = Ahead(rxIndex, i)
      BY <1>3
    <3>2. arrived' - (n + 1) = arrived + 1 - (n + 1)
      BY <1>1, <1>3, <1>5
    <3>3. /\ Ahead(rxIndex, i) < n + 1 =>
               /\ rx'[i] # Owned
               /\ rx'[i].seq = arrived + 1 - (n + 1) + Ahead(rxIndex, i) + 1
          /\ Ahead(rxIndex, i) >= n + 1 => rx'[i] = Owned
      BY <1>7
    <3> QED
      BY <3>1, <3>2, <3>3
  <2>2. n + 1 <= arrived' /\ IF n + 1 = RxRing THEN rxHw' = rxIndex'
                             ELSE Ahead(rxIndex', rxHw') = n + 1
    BY <1>3, <1>8, <1>9
  <2> QED
    BY <2>1, <2>2 DEF Filled
<1> QED
  BY <1>1, <1>3, <1>9, <1>10 DEF Ring

LEMMA CopyRing ==
    ASSUME DriverTypes, Ring, EmacCopies, rx[rxIndex] # Owned
    PROVE  /\ Ring'
           /\ rx[rxIndex].seq \in Nat
           /\ \A i \in 0 .. RxRing - 1 :
                rx'[i] # Owned => rx'[i] = rx[i] /\ rx[rxIndex].seq < rx[i].seq /\ i # rxIndex
<1>1. /\ RxRing \in Nat /\ RxRing > 0 /\ arrived \in Nat
      /\ rxHw \in 0 .. RxRing - 1 /\ rxIndex \in 0 .. RxRing - 1
      /\ rx = [i \in 0 .. RxRing - 1 |-> rx[i]]
  BY DriverAssumption DEF DriverTypes, Ring
<1>2. PICK n \in 0 .. RxRing : Filled(n)
  BY DEF Ring
<1>3. /\ arrived' = arrived /\ rxHw' = rxHw /\ rxIndex' = (rxIndex + 1) % RxRing
      /\ rx' = [rx EXCEPT ![rxIndex] = Owned]
  BY DEF EmacCopies
<1>4. \A i \in 0 .. RxRing - 1 : /\ Ahead(rxIndex, i) \in Nat /\ Ahead(rxIndex, i) < RxRing
                                 /\ Ahead(rxIndex, i) = 0 <=> i = rxIndex
                                 /\ Ahead(rxIndex', i) = IF i = rxIndex THEN RxRing - 1
                                                         ELSE Ahead(rxIndex, i) - 1
  <2> SUFFICES ASSUME NEW i \in 0 .. RxRing - 1
               PROVE  /\ Ahead(rxIndex, i) \in Nat /\ Ahead(rxIndex, i) < RxRing
                      /\ Ahead(rxIndex, i) = 0 <=> i = rxIndex
                      /\ Ahead(rxIndex', i) = IF i = rxIndex THEN RxRing - 1
                                              ELSE Ahead(rxIndex, i) - 1
    OBVIOUS
  <2>1. Ahead(rxIndex, i) \in 0 .. RxRing - 1
    BY <1>1, AheadIs
  <2>2. Ahead(rxIndex, i) = 0 <=> i = rxIndex
    BY <1>1, AheadIs
  <2>3. Ahead((rxIndex + 1) % RxRing, i) = IF i = rxIndex THEN RxRing - 1
                                           ELSE Ahead(rxIndex, i) - 1
    BY <1>1, AheadMoves
  <2> QED
    BY <1>1, <1>3, <2>1, <2>2, <2>3
<1>5. n \in Nat /\ n > 0 /\ n <= RxRing /\ n <= arrived
  BY <1>1, <1>2, <1>4 DEF Filled
<1>6. /\ rx'[rxIndex] = Owned
      /\ \A i \in 0 .. RxRing - 1 : i # rxIndex => rx'[i] = rx[i]
  BY <1>1, <1>3
<1>7. \A i \in 0 .. RxRing - 1 :
         /\ Ahead(rxIndex, i) < n => /\ rx[i] # Owned
                                     /\ rx[i].seq = arrived - n + Ahead(rxIndex, i) + 1
         /\ Ahead(rxIndex, i) >= n => rx[i] = Owned
  BY <1>2 DEF Filled
<1>8. ASSUME NEW i \in 0 .. RxRing - 1
      PROVE  /\ Ahead(rxIndex', i) < n - 1 =>
                  /\ rx'[i] # Owned
                  /\ rx'[i].seq = arrived - (n - 1) + Ahead(rxIndex', i) + 1
             /\ Ahead(rxIndex', i) >= n - 1 => rx'[i] = Owned
  <2>1. CASE i = rxIndex
    BY <1>1, <1>4, <1>5, <1>6, <2>1
  <2>2. CASE i # rxIndex
    <3>1. /\ Ahead(rxIndex, i) \in Nat /\ Ahead(rxIndex, i) # 0
          /\ Ahead(rxIndex', i) = Ahead(rxIndex, i) - 1
      BY <1>4, <2>2
    <3>2. /\ Ahead(rxIndex, i) < n => /\ rx[i] # Owned
                                      /\ rx[i].seq = arrived - n + Ahead(rxIndex, i) + 1
          /\ Ahead(rxIndex, i) >= n => rx[i] = Owned
      BY <1>7
    <3>3. Ahead(rxIndex', i) < n - 1 <=> Ahead(rxIndex, i) < n
      BY <1>5, <3>1
    <3>4. Ahead(rxIndex', i) >= n - 1 <=> Ahead(rxIndex, i) >= n
      BY <1>5, <3>1
    <3>5. arrived - (n - 1) + Ahead(rxIndex', i) + 1 = arrived - n + Ahead(rxIndex, i) + 1
      BY <1>1, <1>5, <3>1
    <3>6. rx'[i] = rx[i]
      BY <1>6, <2>2
    <3> QED
      BY <3>2, <3>3, <3>4, <3>5, <3>6
  <2> QED
    BY <2>1, <2>2
<1>9. IF n - 1 = RxRing THEN rxHw = rxIndex' ELSE Ahead(rxIndex', rxHw) = n - 1
  <2>1. CASE n = RxRing
    <3>1. rxHw = rxIndex
      BY <1>2, <2>1 DEF Filled
    <3> QED
      BY <1>1, <1>4, <2>1, <3>1
  <2>2. CASE n # RxRing
    <3>1. Ahead(rxIndex, rxHw) = n
      BY <1>2, <2>2 DEF Filled
    <3> QED
      BY <1>1, <1>4, <1>5, <3>1
  <2> QED
    BY <2>1, <2>2
<1>10. n - 1 \in 0 .. RxRing /\ n - 1 <= arrived
  BY <1>1, <1>5
<1>11. Filled(n - 1)'
  BY <1>3, <1>8, <1>9, <1>10 DEF Filled
<1>12. rx[rxIndex].seq = arrived - n + 1
  BY <1>1, <1>4, <1>5, <1>7
<1>13. ASSUME NEW i \in 0 .. RxRing - 1, rx'[i] # Owned
       PROVE  rx'[i] = rx[i] /\ rx[rxIndex].seq < rx[i].seq /\ i # rxIndex
  <2>1. i # rxIndex /\ rx'[i] = rx[i] /\ rx[i] # Owned
    BY <1>6, <1>13
  <2>2. /\ Ahead(rxIndex, i) \in Nat /\ Ahead(rxIndex, i) # 0
        /\ rx[i].seq = arrived - n + Ahead(rxIndex, i) + 1
    BY <1>4, <1>5, <1>7, <2>1
  <2> QED
    BY <1>1, <1>5, <1>12, <2>1, <2>2
<1> QED
  BY <1>1, <1>3, <1>5, <1>10, <1>11, <1>12, <1>13 DEF Ring

\* Where the driver is on its way from a frame it saw to the copy of it.
Copying == {"get", "remove", "malloc", "copy"}

\* The events that carry frames, and the numbers of the frames they carry.
Received == {i \in DOMAIN events : events[i].type = "eNetworkRxEvent"}
Queued == {data[events[i].buffer] : i \in Received}
InHands == {data[holds["emac"]] : t \in {u \in {"emac"} : pc[u] = "send"}}

Older(S, T) == \A m \in S, k \in T : m < k

\* Frames leave in the order they came: those queued are older the nearer they
\* are to the head, older than the one the driver is about to queue, and that
\* is older than those in the ring.  The frame the driver saw stays there.
InLine ==
    /\ Ring
    /\ data \in [Buffers -> Nat] /\ processed \in Seq(Nat)
    /\ \A i, j \in Received : i < j => data[events[i].buffer] < data[events[j].buffer]
    /\ Older(Queued, InHands) /\ Older(Queued \cup InHands, InRing)
    /\ \A m \in Queued \cup InHands : m <= arrived
    /\ pc["emac"] \in Copying => rx[rxIndex] # Owned

LEMMA CopiedIs ==
    /\ Copied = Queued \cup InHands
    /\ Copied' = Queued' \cup InHands'
BY DEF Copied, Queued, InHands, Received

LEMMA InRingIs ==
    ASSUME DriverTypes, Ring
    PROVE  \A k \in InRing : k \in Nat /\ k <= arrived
<1>1. PICK n \in 0 .. RxRing : Filled(n)
  BY DEF Ring
<1>2. SUFFICES ASSUME NEW i \in 0 .. RxRing - 1, rx[i] # Owned
               PROVE  rx[i].seq \in Nat /\ rx[i].seq <= arrived
  BY DEF InRing
<1>3. RxRing \in Nat /\ rxIndex \in 0 .. RxRing - 1 /\ arrived \in Nat
  BY DriverAssumption DEF DriverTypes, Ring
<1>4. Ahead(rxIndex, i) \in Nat
  BY <1>3, AheadIs
<1>5. n <= arrived /\ Ahead(rxIndex, i) < n /\ rx[i].seq = arrived - n + Ahead(rxIndex, i) + 1
  BY <1>1, <1>2, <1>3, <1>4 DEF Filled
<1> QED
  BY <1>3, <1>4, <1>5

\* What a step does with the frames: nothing but lose one, or ...
Calm ==
    /\ UNCHANGED <<rx, rxHw, rxIndex, arrived, events, processed>>
    /\ data' \in [Buffers -> Nat]
    /\ \A b \in Posted : data'[b] = data[b]
    /\ pc'["emac"] = "send" => /\ pc["emac"] = "send"
                               /\ data'[holds'["emac"]] = data[holds["emac"]]
    /\ pc'["emac"] \in Copying => pc["emac"] \in Copying \/ rx[rxIndex] # Owned

Arrives == \E f \in Frames : Arrive(f)

\* ... queue the one in hand, ...
Queues ==
    /\ UNCHANGED <<rx, rxHw, rxIndex, arrived, data, processed>>
    /\ pc["emac"] = "send" /\ pc'["emac"] = "idle"
    /\ events' = Append(events, [type |-> "eNetworkRxEvent", buffer |-> holds["emac"]])

\* ... take the first from the queue, ...
Takes ==
    /\ UNCHANGED <<rx, rxHw, rxIndex, arrived, data>>
    /\ pc'["emac"] = pc["emac"] /\ holds'["emac"] = holds["emac"]
    /\ events # <<>> /\ Head(events).type = "eNetworkRxEvent"
    /\ events' = Tail(events)
    /\ processed' = Append(processed, data[Head(events).buffer])

\* ... or queue or take an event that carries no frame.
Passes ==
    /\ UNCHANGED <<rx, rxHw, rxIndex, arrived, data, processed>>
    /\ pc'["emac"] = pc["emac"] /\ holds'["emac"] = holds["emac"]
    /\ \/ \E e \in Event : e.type # "eNetworkRxEvent" /\ events' = Append(events, e)
       \/ /\ events # <<>> /\ Head(events).type # "eNetworkRxEvent"
          /\ events' = Tail(events)

LEMMA AllocatorCalm ==
    ASSUME InHand, InLine, NEW t \in Procs, Allocator(t)
    PROVE  Calm
<1>1. /\ pc \in [Procs -> Labels] /\ holds \in [Procs -> Buffers \cup {NULL}]
      /\ data \in [Buffers -> Nat] /\ "emac" \in Procs
      /\ UNCHANGED <<rx, rxHw, rxIndex, arrived, events, processed>>
  BY DEF InHand, InLine, DriverTypes, Procs, Allocator, emacVars
<1>2. CASE UNCHANGED data /\ \E l \in Labels : /\ pc' = [pc EXCEPT ![t] = l] /\ l # "send"
                                               /\ l \in Copying => pc[t] \in Copying
                                               /\ holds'= [holds EXCEPT ![t] = holds'[t]]
  BY <1>1, <1>2 DEF Calm
<1>3. CASE TakeSemaphore(t)
  BY <1>1, <1>2, <1>3 DEF TakeSemaphore, MovesTo, Labels, Copying
<1>4. CASE GetGivesUp(t)
  BY <1>1, <1>2, <1>4 DEF GetGivesUp, MovesTo, Labels, Copying, allocVars
<1>5. CASE RemoveHead(t)
  BY <1>1, <1>2, <1>5 DEF RemoveHead, MovesTo, Labels, Copying
<1>6. CASE Allocate(t)
  <2>1. PICK l \in Labels : /\ l \in {"insert", "copy", "output", "post"}
                            /\ pc' = [pc EXCEPT ![t] = l] /\ pc[t] = "malloc"
    BY <1>6 DEF Allocate, MovesTo, GetReturns, Labels
  <2> QED
    BY <1>1, <1>2, <1>6, <2>1 DEF Allocate, Copying
<1>7. CASE FreeMemory(t)
  <2>1. /\ pc[t] = "free" /\ pc' = [pc EXCEPT ![t] = "insert"] /\ holds' = holds
        /\ data' = [data EXCEPT ![holds[t]] = 0]
    BY <1>7 DEF FreeMemory, MovesTo
  <2>2. holds[t] # NULL /\ holds[t] \notin Posted
    <3>1. holds[t] # NULL
      BY <2>1 DEF InHand, Hands, Holding
    <3> QED
      BY <3>1 DEF InHand, OnePlace, HeldBuffers
  <2>3. pc["emac"] = "send" => holds["emac"] # holds[t]
    BY <1>1, <2>1, <2>2 DEF InHand, Hands
  <2>4. Posted \subseteq Buffers
    BY DEF InHand, OnePlace
  <2>5. pc["emac"] = "send" => holds["emac"] \in Buffers
    BY <1>1 DEF InHand, Hands, Holding
  <2> QED
    BY <1>1, <2>1, <2>2, <2>3, <2>4, <2>5 DEF Calm, Copying
<1>8. CASE ReleaseInserts(t)
  <2>1. \E l \in {"idle", "give"} : pc' = [pc EXCEPT ![t] = l]
    BY <1>8 DEF ReleaseInserts, MovesTo
  <2> QED
    BY <1>1, <1>2, <1>8, <2>1 DEF ReleaseInserts, Labels, Copying
<1>9. CASE ReleaseGives(t)
  BY <1>1, <1>2, <1>9 DEF ReleaseGives, MovesTo, Labels, Copying
<1> QED
  BY <1>3, <1>4, <1>5, <1>6, <1>7, <1>8, <1>9 DEF Allocator

LEMMA StepFlows ==
    ASSUME InHand, InLine, [DriverNext]_driverVars
    PROVE  Calm \/ Arrives \/ EmacCopies \/ Queues \/ Takes \/ Passes
<1> USE DEF emacVars, txVars, allocVars, taskVars
<1>1. /\ pc \in [Procs -> Labels] /\ holds \in [Procs -> Buffers \cup {NULL}]
      /\ data \in [Buffers -> Nat] /\ Procs = {"emac", "ip", "app"}
      /\ \A t \in {"send", "post"} : t \in Holding
      /\ \A t \in Procs : holds[t] # NULL <=> pc[t] \in Holding
  BY DEF InHand, InLine, DriverTypes, Procs, Hands, Holding
<1>2. CASE \E t \in Procs : Allocator(t)
  BY <1>2, AllocatorCalm
<1>3. CASE \E f \in Frames : Arrive(f)
  BY <1>3 DEF Arrives
<1>4. CASE EthernetIntHandler \/ DmaSends \/ (\E n \in Sizes : AppAllocates(n)) \/ AppFrees
             \/ UNCHANGED driverVars
  BY <1>1, <1>4 DEF Calm, EthernetIntHandler, DmaSends, AppAllocates, AppFrees, driverVars
<1>5. CASE EmacWakes
  BY <1>1, <1>5 DEF Calm, EmacWakes, MovesTo
<1>6. CASE EmacCopies
  BY <1>6
<1>7. CASE EmacPosts
  BY <1>1, <1>7 DEF Calm, Queues, EmacPosts, MovesTo, Copying
<1>8. CASE IpReceives
  BY <1>1, <1>8 DEF Takes, IpReceives, MovesTo
<1>9. CASE IpSends
  BY <1>1, <1>9 DEF Passes, IpSends, MovesTo
<1>10. CASE xNetworkInterfaceOutput
  BY <1>1, <1>10 DEF Calm, xNetworkInterfaceOutput, MovesTo
<1>11. CASE \E n \in Sizes : IpAsks(n) \/ AppAsks(n)
  BY <1>1, <1>11 DEF Calm, IpAsks, AppAsks, MovesTo
<1>12. CASE AppPosts
  <2> DEFINE e == [type |-> "eStackTxEvent", buffer |-> holds["app"]]
  <2>1. e \in Event /\ e.type # "eNetworkRxEvent"
    BY <1>1, <1>12 DEF AppPosts, Event
  <2>2. CASE events' = Append(events, e)
    <3>1. Passes
      BY <1>1, <1>12, <2>1, <2>2 DEF Passes, AppPosts, MovesTo
    <3> QED
      BY <3>1
  <2>3. CASE events' = events
    BY <1>1, <1>12, <2>3 DEF Calm, AppPosts, MovesTo
  <2> QED
    BY <1>12, <2>2, <2>3 DEF AppPosts
<1>13. CASE AppReads
  BY <1>1, <1>13 DEF Calm, AppReads, MovesTo
<1> QED
  BY <1>2, <1>3, <1>4, <1>5, <1>6, <1>7, <1>8, <1>9, <1>10, <1>11, <1>12, <1>13 DEF DriverNext

Frame(n) == [src |-> "eth", seq |-> n]
Inside == {Frame(n) : n \in InRing \cup Copied}
Out == [i \in DOMAIN processed |-> Frame(processed[i])]

LEMMA FrameSets ==
    ASSUME NEW S, NEW n
    PROVE  /\ {Frame(k) : k \in S \cup {n}} = {Frame(k) : k \in S} \cup {Frame(n)}
           /\ {Frame(k) : k \in S \ {n}} = {Frame(k) : k \in S} \ {Frame(n)}
<1>1. \A j, k : Frame(j) = Frame(k) <=> j = k
  <2> SUFFICES ASSUME NEW j, NEW k, Frame(j) = Frame(k)
               PROVE  j = k
    OBVIOUS
  <2>1. Frame(j).seq = j /\ Frame(k).seq = k
    BY DEF Frame
  <2> QED
    BY <2>1
<1> QED
  BY <1>1

\* What a step does to the ring and the queue, in the order of the frames.
LEMMA CalmStep ==
    ASSUME InHand, InLine, Calm
    PROVE  /\ InLine'
           /\ InRing' = InRing /\ Copied' \subseteq Copied
<1>1. \A i \in Received : events[i].buffer \in Posted /\ i \in DOMAIN events
  BY DEF Received, Posted
<1>2. /\ UNCHANGED <<rx, rxHw, rxIndex, arrived, events, processed>>
      /\ data' \in [Buffers -> Nat]
      /\ \A b \in Posted : data'[b] = data[b]
      /\ Received' = Received /\ Posted' = Posted
  BY DEF Calm, Received, Posted
<1>3. Queued' = Queued
  BY <1>1, <1>2 DEF Queued
<1>4. InHands' \subseteq InHands /\ (pc'["emac"] = "send" => InHands' = InHands)
  BY DEF Calm, InHands
<1>5. InRing' = InRing
  BY <1>2 DEF InRing
<1>6. Ring'
  BY <1>2 DEF InLine, Ring, Filled
<1>7. Copied' \subseteq Copied
  BY <1>3, <1>4, CopiedIs
<1>8. Older(Queued', InHands') /\ Older(Queued' \cup InHands', InRing')
  BY <1>3, <1>4, <1>5 DEF InLine, Older
<1>9. \A m \in Queued' \cup InHands' : m <= arrived'
  BY <1>2, <1>3, <1>4 DEF InLine
<1>10. \A i, j \in Received' : i < j => data'[events'[i].buffer] < data'[events'[j].buffer]
  BY <1>1, <1>2 DEF InLine
<1>11. pc'["emac"] \in Copying => rx'[rxIndex'] # Owned
  BY <1>2 DEF Calm, InLine
<1> QED
  BY <1>2, <1>5, <1>6, <1>7, <1>8, <1>9, <1>10, <1>11 DEF InLine

LEMMA ArriveStep ==
    ASSUME InHand, InLine, NEW f \in Frames, Arrive(f)
    PROVE  /\ InLine'
           /\ InRing' = InRing \cup {arrived'} /\ Copied' = Copied
<1>1. DriverTypes /\ Ring /\ arrived \in Nat
  BY DEF InHand, InLine, Ring
<1>2. Ring'
  BY <1>1, ArriveRing
<1> DEFINE frame == [seq |-> arrived + 1, size |-> f.size, keep |-> f.keep]
<1>3. /\ rx[rxHw] = Owned /\ arrived' = arrived + 1 /\ rxIndex' = rxIndex
      /\ rx' = [rx EXCEPT ![rxHw] = frame]
      /\ UNCHANGED <<data, pc, holds, events, processed>>
  BY DEF Arrive, allocVars, taskVars
<1>4. frame.seq = arrived + 1 /\ frame # Owned
  <2>1. f.size \in Nat /\ f.keep \in BOOLEAN
    BY DriverAssumption
  <2> QED
    BY <1>1, <2>1, DriverAssumption DEF Owned
<1> HIDE DEF frame
<1>5. rxHw \in 0 .. RxRing - 1 /\ rx = [i \in 0 .. RxRing - 1 |-> rx[i]]
      /\ rxIndex \in 0 .. RxRing - 1
  BY <1>1 DEF DriverTypes
<1>6. /\ rx'[rxHw] = frame
      /\ \A i \in 0 .. RxRing - 1 : i # rxHw => rx'[i] = rx[i]
  BY <1>3, <1>5
<1>7. InRing' = InRing \cup {arrived + 1}
  <2>1. InRing' = {rx'[i].seq : i \in {j \in 0 .. RxRing - 1 : rx'[j] # Owned}}
    BY DEF InRing
  <2>2. {j \in 0 .. RxRing - 1 : rx'[j] # Owned} = {j \in 0 .. RxRing - 1 : rx[j] # Owned} \cup {rxHw}
    BY <1>4, <1>5, <1>6
  <2>3. \A j \in {k \in 0 .. RxRing - 1 : rx[k] # Owned} : rx'[j] = rx[j]
    BY <1>3, <1>6
  <2> QED
    BY <1>4, <1>6, <2>1, <2>2, <2>3 DEF InRing
<1>8. Queued' = Queued /\ InHands' = InHands /\ Received' = Received
  BY <1>3 DEF Queued, InHands, Received
<1>9. \A m \in Queued \cup InHands : m \in Nat /\ m <= arrived
  <2>1. \A b \in Posted \cup HeldBuffers : b \in Buffers
    BY DEF InHand, OnePlace
  <2>2. \A i \in Received : events[i].buffer \in Posted
    BY DEF Received, Posted
  <2>3. pc["emac"] = "send" => holds["emac"] \in Buffers
    <3>1. pc["emac"] = "send" => holds["emac"] # NULL
      BY DEF InHand, Hands, Holding, Procs
    <3> QED
      BY <3>1 DEF InHand, DriverTypes, Procs
  <2> QED
    BY <2>1, <2>2, <2>3 DEF InLine, Queued, InHands
<1>10. Older(Queued' \cup InHands', InRing')
  <2>1. SUFFICES ASSUME NEW m \in Queued \cup InHands, NEW k \in InRing \cup {arrived + 1}
                 PROVE  m < k
    BY <1>7, <1>8 DEF Older
  <2> QED
    BY <1>1, <1>9 DEF InLine, Older
<1>11. \A m \in Queued' \cup InHands' : m <= arrived'
  BY <1>1, <1>3, <1>8, <1>9
<1>12. pc'["emac"] \in Copying => rx'[rxIndex'] # Owned
  BY <1>3, <1>4, <1>5, <1>6 DEF InLine
<1>13. /\ data' \in [Buffers -> Nat] /\ processed' \in Seq(Nat)
       /\ \A i, j \in Received' : i < j => data'[events'[i].buffer] < data'[events'[j].buffer]
       /\ Older(Queued', InHands')
  BY <1>3, <1>8 DEF InLine
<1> QED
  BY <1>2, <1>3, <1>7, <1>8, <1>10, <1>11, <1>12, <1>13, CopiedIs DEF InLine

LEMMA CopyStep ==
    ASSUME InHand, InLine, EmacCopies
    PROVE  /\ InLine'
           /\ InRing' \cup Copied' \subseteq InRing \cup Copied
<1> DEFINE m == rx[rxIndex].seq
           b == holds["emac"]
<1>1. DriverTypes /\ Ring /\ pc["emac"] = "copy" /\ rx[rxIndex] # Owned
  BY DEF InHand, InLine, EmacCopies, Copying
<1>2. /\ Ring'
      /\ m \in Nat
      /\ \A i \in 0 .. RxRing - 1 : rx'[i] # Owned => rx'[i] = rx[i] /\ m < rx[i].seq
  BY <1>1, CopyRing
<1>3. /\ data' = [data EXCEPT ![b] = m]
      /\ pc' = [pc EXCEPT !["emac"] = pc'["emac"]] /\ pc'["emac"] \in {"send", "free"}
      /\ UNCHANGED <<events, holds, arrived, processed>>
  <2>1. "emac" \in Procs /\ pc \in [Procs -> Labels]
    BY <1>1 DEF DriverTypes, Procs
  <2>2. CASE rx[rxIndex].keep
    BY <2>1, <2>2 DEF EmacCopies, MovesTo
  <2>3. CASE ~ rx[rxIndex].keep
    BY <2>1, <2>3 DEF EmacCopies, MovesTo
  <2> QED
    BY <2>2, <2>3
<1>4. b \in Buffers /\ b \notin Posted
  <2>1. b # NULL
    BY <1>1 DEF InHand, Hands, Holding, Procs
  <2> QED
    BY <1>1, <2>1 DEF InHand, OnePlace, HeldBuffers, Procs, DriverTypes
<1>5. data \in [Buffers -> Nat] /\ data'[b] = m /\ data' \in [Buffers -> Nat]
      /\ \A c \in Buffers : c # b => data'[c] = data[c]
  BY <1>2, <1>3, <1>4 DEF InLine
<1>6. m \in InRing
  BY <1>1 DEF InRing, DriverTypes
<1>7. InRing' \subseteq InRing /\ \A k \in InRing' : m < k
  BY <1>2 DEF InRing
<1>8. \A i \in Received : events[i].buffer \in Posted /\ events[i].buffer \in Buffers
                            /\ i \in DOMAIN events
  BY DEF Received, Posted, InHand, OnePlace
<1>9. Received' = Received
  BY <1>3 DEF Received
<1>10. \A i \in Received : data'[events'[i].buffer] = data[events[i].buffer]
  BY <1>3, <1>4, <1>5, <1>8
<1>11. Queued' = Queued
  BY <1>9, <1>10 DEF Queued
<1>12. InHands' \subseteq {m}
  BY <1>3, <1>5 DEF InHands
<1>13. \A k \in Queued : k < m
  BY <1>6 DEF InLine, Older
<1>14. m <= arrived
  BY <1>1, <1>6, InRingIs
<1>15. Older(Queued', InHands') /\ Older(Queued' \cup InHands', InRing')
  BY <1>7, <1>11, <1>12, <1>13 DEF InLine, Older
<1>16. \A k \in Queued' \cup InHands' : k <= arrived'
  BY <1>3, <1>11, <1>12, <1>14 DEF InLine
<1>17. \A i, j \in Received' : i < j => data'[events'[i].buffer] < data'[events'[j].buffer]
  BY <1>9, <1>10 DEF InLine
<1>18. pc'["emac"] \notin Copying /\ processed' \in Seq(Nat)
  BY <1>3 DEF Copying, InLine
<1>19. InRing' \cup Copied' \subseteq InRing \cup Copied
  BY <1>6, <1>7, <1>11, <1>12, CopiedIs
<1> QED
  BY <1>2, <1>5, <1>15, <1>16, <1>17, <1>18, <1>19 DEF InLine

LEMMA QueuesStep ==
    ASSUME InHand, InLine, Queues
    PROVE  /\ InLine'
           /\ InRing' = InRing /\ Copied' = Copied
<1> DEFINE b == holds["emac"]
           e == [type |-> "eNetworkRxEvent", buffer |-> b]
           n == Len(events)
<1>1. /\ UNCHANGED <<rx, rxHw, rxIndex, arrived, data, processed>>
      /\ pc["emac"] = "send" /\ pc'["emac"] = "idle" /\ events' = Append(events, e)
  BY DEF Queues
<1>2. events \in Seq(Event) /\ n \in Nat /\ DOMAIN events = 1 .. n
  BY DEF InHand, DriverTypes
<1>3. /\ DOMAIN events' = 1 .. n + 1
      /\ \A i \in 1 .. n : events'[i] = events[i]
      /\ events'[n + 1] = e
  BY <1>1, <1>2
<1>4. e.type = "eNetworkRxEvent" /\ e.buffer = b
  OBVIOUS
<1> HIDE DEF e, n
<1>5. Received' = Received \cup {n + 1} /\ Received \subseteq 1 .. n
  <2>1. \A i \in 1 .. n + 1 : i \in 1 .. n \/ i = n + 1
    BY <1>2
  <2>2. 1 .. n \subseteq 1 .. n + 1 /\ n + 1 \in 1 .. n + 1
    BY <1>2
  <2> QED
    BY <1>2, <1>3, <1>4, <2>1, <2>2 DEF Received
<1>6. \A i \in Received : events'[i].buffer = events[i].buffer
  BY <1>3, <1>5
<1>7. InHands = {data[b]} /\ InHands' = {}
  BY <1>1 DEF InHands
<1>8. Queued' = Queued \cup {data[b]}
  <2>1. Queued' = {data[events'[i].buffer] : i \in Received'}
    BY <1>1 DEF Queued
  <2>2. data[events'[n + 1].buffer] = data[b]
    BY <1>3, <1>4
  <2>3. \A i \in Received : data[events'[i].buffer] = data[events[i].buffer]
    BY <1>6
  <2> DEFINE f(i) == data[events[i].buffer]
             g(i) == data[events'[i].buffer]
  <2>4. /\ Queued' = {g(i) : i \in Received \cup {n + 1}} /\ Queued = {f(i) : i \in Received}
        /\ g(n + 1) = data[b] /\ \A i \in Received : g(i) = f(i)
    BY <1>5, <2>1, <2>2, <2>3 DEF Queued
  <2> HIDE DEF f, g
  <2> QED
    BY <2>4
<1>9. Copied' = Copied
  BY <1>7, <1>8, CopiedIs
<1>10. InRing' = InRing /\ Ring'
  BY <1>1 DEF InRing, InLine, Ring, Filled
<1>11. \A i, j \in Received' : i < j => data'[events'[i].buffer] < data'[events'[j].buffer]
  <2> SUFFICES ASSUME NEW i \in Received', NEW j \in Received', i < j
               PROVE  data[events'[i].buffer] < data[events'[j].buffer]
    BY <1>1
  <2>1. CASE i \in Received /\ j \in Received
    BY <1>6, <2>1 DEF InLine
  <2>2. CASE i \in Received /\ j = n + 1
    <3>1. data[events[i].buffer] \in Queued /\ data[b] \in InHands
      BY <1>7, <2>2 DEF Queued
    <3> QED
      BY <1>3, <1>4, <1>6, <2>2, <3>1 DEF InLine, Older
  <2>3. CASE i = n + 1
    BY <1>2, <1>5, <2>3
  <2> QED
    BY <1>5, <2>1, <2>2, <2>3
<1>12. Older(Queued', InHands') /\ Older(Queued' \cup InHands', InRing')
  BY <1>7, <1>8, <1>10 DEF InLine, Older
<1>13. \A m \in Queued' \cup InHands' : m <= arrived'
  BY <1>1, <1>7, <1>8 DEF InLine
<1>14. pc'["emac"] \notin Copying /\ data' \in [Buffers -> Nat] /\ processed' \in Seq(Nat)
  BY <1>1 DEF Copying, InLine
<1> QED
  BY <1>9, <1>10, <1>11, <1>12, <1>13, <1>14 DEF InLine

\* What a queue of events is without its first.
LEMMA TailReceived ==
    ASSUME events \in Seq(Event), events # <<>>, events' = Tail(events), data' = data
    PROVE  /\ 1 \in DOMAIN events /\ events[1] = Head(events) /\ Received \subseteq Nat
           /\ \A i \in Received' : i + 1 \in Received /\ events'[i] = events[i + 1]
           /\ \A i \in Received : i # 1 => i - 1 \in Received' /\ events'[i - 1] = events[i]
           /\ Queued' = {data[events[i].buffer] : i \in Received \ {1}}
<1> DEFINE n == Len(events)
<1>1. n \in Nat /\ n >= 1 /\ DOMAIN events = 1 .. n /\ events[1] = Head(events)
      /\ DOMAIN events' = 1 .. n - 1 /\ \A i \in 1 .. n - 1 : events'[i] = events[i + 1]
  OBVIOUS
<1> HIDE DEF n
<1>2. ASSUME NEW i \in Received'
      PROVE  i + 1 \in Received /\ events'[i] = events[i + 1]
  <2>1. i \in 1 .. n - 1 /\ events'[i].type = "eNetworkRxEvent"
    BY <1>1 DEF Received
  <2>2. i + 1 \in 1 .. n
    BY <1>1, <2>1
  <2> QED
    BY <1>1, <2>1, <2>2 DEF Received
<1>3. ASSUME NEW i \in Received, i # 1
      PROVE  i - 1 \in Received' /\ events'[i - 1] = events[i]
  <2>1. i \in 1 .. n /\ events[i].type = "eNetworkRxEvent"
    BY <1>1 DEF Received
  <2>2. i - 1 \in 1 .. n - 1 /\ (i - 1) + 1 = i
    BY <1>1, <1>3, <2>1
  <2>3. events'[i - 1] = events[i]
    BY <1>1, <2>2
  <2> QED
    BY <1>1, <2>1, <2>2, <2>3 DEF Received
<1>4. Received \subseteq Nat
  BY <1>1 DEF Received
<1>5. \A i \in Received' : i + 1 # 1
  BY <1>1 DEF Received
<1>6. Queued' = {data[events'[i].buffer] : i \in Received'}
  BY DEF Queued
<1>7. ASSUME NEW i \in Received'
      PROVE  \E j \in Received \ {1} : data[events'[i].buffer] = data[events[j].buffer]
  <2>1. i + 1 \in Received \ {1} /\ events'[i] = events[i + 1]
    BY <1>2, <1>5
  <2> QED
    BY <2>1
<1>8. ASSUME NEW i \in Received \ {1}
      PROVE  \E j \in Received' : data[events[i].buffer] = data[events'[j].buffer]
  <2>1. i - 1 \in Received' /\ events'[i - 1] = events[i]
    BY <1>3
  <2> QED
    BY <2>1
<1>9. Queued' = {data[events[i].buffer] : i \in Received \ {1}}
  <2> DEFINE f(i) == data[events[i].buffer]
             g(i) == data[events'[i].buffer]
             rest == Received \ {1}
  <2>1. /\ \A i \in Received' : \E j \in rest : g(i) = f(j)
        /\ \A i \in rest : \E j \in Received' : f(i) = g(j)
    BY <1>7, <1>8
  <2>2. Queued' = {g(i) : i \in Received'}
    BY <1>6
  <2> HIDE DEF f, g, rest
  <2>3. Queued' = {f(i) : i \in rest}
    BY <2>1, <2>2
  <2> QED
    BY <2>3 DEF f, rest
<1>10. events[1] = Head(events) /\ 1 \in DOMAIN events
  BY <1>1
<1> QED
  BY <1>2, <1>3, <1>4, <1>9, <1>10

LEMMA TakesStep ==
    ASSUME InHand, InLine, Takes
    PROVE  /\ InLine'
           /\ \E m \in InRing \cup Copied :
                /\ \A k \in InRing \cup Copied : m <= k
                /\ InRing' \cup Copied' = (InRing \cup Copied) \ {m}
                /\ processed' = Append(processed, m)
<1> DEFINE m == data[Head(events).buffer]
<1>1. /\ UNCHANGED <<rx, rxHw, rxIndex, arrived, data>>
      /\ pc'["emac"] = pc["emac"] /\ holds'["emac"] = holds["emac"]
      /\ events # <<>> /\ Head(events).type = "eNetworkRxEvent"
      /\ events' = Tail(events) /\ processed' = Append(processed, m)
      /\ events \in Seq(Event)
  BY DEF Takes, InHand, DriverTypes
<1>2. /\ 1 \in DOMAIN events /\ events[1] = Head(events) /\ Received \subseteq Nat
      /\ \A i \in Received' : i + 1 \in Received /\ events'[i] = events[i + 1]
      /\ Queued' = {data[events[i].buffer] : i \in Received \ {1}}
  BY <1>1, TailReceived
<1>3. 1 \in Received /\ m = data[events[1].buffer] /\ m \in Queued
  BY <1>1, <1>2 DEF Received, Queued
<1>4. m \in Nat
  <2>1. Head(events) \in Event
    BY <1>1
  <2>2. Head(events).buffer \in Buffers
    BY <2>1 DEF Event
  <2> QED
    BY <2>2 DEF InLine
<1>5. \A i \in Received : i # 1 => m < data[events[i].buffer]
  <2>1. \A i \in Received : i # 1 => 1 < i
    <3>1. \A i \in Received : i \in 1 .. Len(events)
      BY <1>1 DEF Received
    <3> QED
      BY <3>1
  <2> QED
    BY <1>3, <2>1 DEF InLine
<1> HIDE DEF m
<1>6. \A k \in Queued' : m < k
  BY <1>2, <1>5
<1>7. Queued = Queued' \cup {m}
  BY <1>2, <1>3 DEF Queued
<1>8. InHands' = InHands /\ InRing' = InRing /\ Ring'
  BY <1>1 DEF InHands, InRing, InLine, Ring, Filled
<1>9. /\ \A k \in InHands : m < k
      /\ \A k \in InRing : m < k
  BY <1>3 DEF InLine, Older
<1>10. \A k \in Queued' \cup InHands \cup InRing : m < k /\ k # m
  BY <1>4, <1>6, <1>9
<1>11. InRing' \cup Copied' = (InRing \cup Copied) \ {m} /\ m \in InRing \cup Copied
  BY <1>3, <1>7, <1>8, <1>10, CopiedIs
<1>12. \A k \in InRing \cup Copied : m <= k
  <2>1. \A k \in InRing : m < k
    BY <1>9
  <2>2. \A k \in Copied : k = m \/ m < k
    BY <1>6, <1>7, <1>9, CopiedIs
  <2>3. \A k \in InRing \cup Copied : k \in Nat
    <3>1. \A k \in InRing : k \in Nat
      BY InRingIs DEF InHand, InLine
    <3>2. \A b \in Posted \cup HeldBuffers : b \in Buffers
      BY DEF InHand, OnePlace
    <3>3. \A i \in Received : events[i].buffer \in Posted
      BY DEF Received, Posted
    <3>4. pc["emac"] = "send" => holds["emac"] \in Buffers
      <4>1. pc["emac"] = "send" => holds["emac"] # NULL
        BY DEF InHand, Hands, Holding, Procs
      <4> QED
        BY <4>1 DEF InHand, DriverTypes, Procs
    <3>5. \A k \in Queued \cup InHands : k \in Nat
      BY <3>2, <3>3, <3>4 DEF InLine, Queued, InHands
    <3> QED
      BY <3>1, <3>5, CopiedIs
  <2> QED
    BY <1>4, <2>1, <2>2, <2>3
<1>13. \A i, j \in Received' : i < j => data'[events'[i].buffer] < data'[events'[j].buffer]
  <2> SUFFICES ASSUME NEW i \in Received', NEW j \in Received', i < j
               PROVE  data[events'[i].buffer] < data[events'[j].buffer]
    BY <1>1
  <2>1. /\ i + 1 \in Received /\ events'[i] = events[i + 1]
        /\ j + 1 \in Received /\ events'[j] = events[j + 1]
    BY <1>2
  <2>2. i + 1 < j + 1
    <3>1. i \in Nat /\ j \in Nat
      BY <1>1 DEF Received
    <3> QED
      BY <3>1
  <2> QED
    BY <2>1, <2>2 DEF InLine
<1>14. /\ Older(Queued', InHands') /\ Older(Queued' \cup InHands', InRing')
       /\ \A k \in Queued' \cup InHands' : k <= arrived'
  BY <1>1, <1>7, <1>8 DEF InLine, Older
<1>15. /\ pc'["emac"] \in Copying => rx'[rxIndex'] # Owned
       /\ data' \in [Buffers -> Nat] /\ processed' \in Seq(Nat)
  BY <1>1, <1>4 DEF InLine
<1>16. InLine'
  BY <1>8, <1>13, <1>14, <1>15 DEF InLine
<1> QED
  BY <1>1, <1>11, <1>12, <1>16

LEMMA PassesStep ==
    ASSUME InHand, InLine, Passes
    PROVE  /\ InLine'
           /\ InRing' = InRing /\ Copied' = Copied
<1>1. /\ UNCHANGED <<rx, rxHw, rxIndex, arrived, data, processed>>
      /\ pc'["emac"] = pc["emac"] /\ holds'["emac"] = holds["emac"]
      /\ events \in Seq(Event)
  BY DEF Passes, InHand, DriverTypes
<1>2. /\ Queued' = Queued
      /\ \A i, j \in Received' : i < j => data[events'[i].buffer] < data[events'[j].buffer]
  <2>1. CASE \E e \in Event : e.type # "eNetworkRxEvent" /\ events' = Append(events, e)
    <3>1. PICK e \in Event : e.type # "eNetworkRxEvent" /\ events' = Append(events, e)
      BY <2>1
    <3> DEFINE n == Len(events)
    <3>2. /\ n \in Nat /\ DOMAIN events = 1 .. n /\ DOMAIN events' = 1 .. n + 1
          /\ events'[n + 1] = e /\ \A i \in 1 .. n : events'[i] = events[i]
      BY <1>1, <3>1
    <3> HIDE DEF n
    <3>3. \A i \in 1 .. n + 1 : i \in 1 .. n \/ i = n + 1
      BY <3>2
    <3>4. 1 .. n \subseteq 1 .. n + 1
      BY <3>2
    <3>5. Received' = Received /\ \A i \in Received : events'[i] = events[i]
      BY <3>1, <3>2, <3>3, <3>4 DEF Received
    <3> QED
      BY <1>1, <3>5 DEF Queued, InLine
  <2>2. CASE /\ events # <<>> /\ Head(events).type # "eNetworkRxEvent"
             /\ events' = Tail(events)
    <3>1. /\ 1 \in DOMAIN events /\ events[1] = Head(events)
          /\ \A i \in Received' : i + 1 \in Received /\ events'[i] = events[i + 1]
          /\ Queued' = {data[events[i].buffer] : i \in Received \ {1}}
      BY <1>1, <2>2, TailReceived
    <3>2. 1 \notin Received
      BY <2>2, <3>1 DEF Received
    <3>3. Queued' = Queued
      BY <3>1, <3>2 DEF Queued
    <3>4. ASSUME NEW i \in Received', NEW j \in Received', i < j
          PROVE  data[events'[i].buffer] < data[events'[j].buffer]
      <4>1. i \in Nat /\ j \in Nat
        BY <1>1, <2>2 DEF Received
      <4>2. i + 1 < j + 1
        BY <3>4, <4>1
      <4> QED
        BY <3>1, <4>2 DEF InLine
    <3> QED
      BY <3>3, <3>4
  <2> QED
    BY <2>1, <2>2 DEF Passes
<1>3. InHands' = InHands /\ InRing' = InRing /\ Ring'
  BY <1>1 DEF InHands, InRing, InLine, Ring, Filled
<1>4. Copied' = Copied
  BY <1>2, <1>3, CopiedIs
<1>5. /\ Older(Queued', InHands') /\ Older(Queued' \cup InHands', InRing')
      /\ \A k \in Queued' \cup InHands' : k <= arrived'
  BY <1>1, <1>2, <1>3 DEF InLine
<1>6. /\ pc'["emac"] \in Copying => rx'[rxIndex'] # Owned
      /\ data' \in [Buffers -> Nat] /\ processed' \in Seq(Nat)
  BY <1>1 DEF InLine
<1> QED
  BY <1>1, <1>2, <1>3, <1>4, <1>5, <1>6 DEF InLine

LEMMA InLineStep == InHand /\ InLine /\ [DriverNext]_driverVars => InLine'
BY StepFlows, CalmStep, ArriveStep, CopyStep, QueuesStep, TakesStep, PassesStep DEF Arrives

LEMMA InLineInit == DriverInit => InLine
<1> SUFFICES ASSUME DriverInit
             PROVE  InLine
  OBVIOUS
<1>1. /\ rx = [i \in 0 .. RxRing - 1 |-> Owned] /\ rxIndex = 0 /\ rxHw = 0
      /\ events = <<>> /\ pc = [t \in Procs |-> "idle"] /\ arrived = 0 /\ processed = <<>>
      /\ data = [b \in Buffers |-> 0]
  BY DEF DriverInit, InitDescriptors
<1>2. Received = {} /\ pc["emac"] = "idle"
  BY <1>1 DEF Received, Procs
<1>3. Queued = {} /\ InHands = {}
  BY <1>2 DEF Queued, InHands
<1>4. Ring
  <2>1. RxRing \in Nat /\ RxRing > 0
    BY DriverAssumption
  <2>2. \A i \in 0 .. RxRing - 1 : Ahead(0, i) = i
    BY <2>1 DEF Ahead
  <2>3. 0 \in 0 .. RxRing - 1 /\ 0 \in 0 .. RxRing /\ 0 # RxRing
    BY <2>1
  <2>4. \A i \in 0 .. RxRing - 1 : ~(i < 0)
    BY <2>1
  <2>5. Filled(0)
    BY <1>1, <2>2, <2>3, <2>4 DEF Filled
  <2> QED
    BY <1>1, <2>3, <2>5 DEF Ring
<1> QED
  BY <1>1, <1>2, <1>3, <1>4 DEF InLine, Older, Copying

LEMMA InLineHolds == DriverSpec => []InLine
BY InHandHolds, InLineInit, InLineStep, PTL DEF DriverSpec

(***************************************************************************)
(* The steps of the channel.                                               *)
(***************************************************************************)
LEMMA InsideIs ==
    /\ Inside = {Frame(n) : n \in InRing \cup Copied}
    /\ Inside' = {Frame(n) : n \in InRing' \cup Copied'}
    /\ Out = [i \in DOMAIN processed |-> Frame(processed[i])]
    /\ Out' = [i \in DOMAIN processed' |-> Frame(processed'[i])]
BY DEF Inside, Out

LEMMA LessIsLose ==
    ASSUME UNCHANGED <<arrived, processed>>, InRing' \cup Copied' \subseteq InRing \cup Copied
    PROVE  Channel!Lose
<1>1. Inside' \subseteq Inside /\ Out' = Out
  BY InsideIs
<1> QED
  BY <1>1 DEF Channel!Lose, Inside, Out, Frame, Eth

LEMMA TakeIsDeliver ==
    ASSUME InLine, UNCHANGED arrived, NEW m \in InRing \cup Copied,
           \A k \in InRing \cup Copied : m <= k, m \in Nat,
           InRing' \cup Copied' = (InRing \cup Copied) \ {m},
           processed' = Append(processed, m)
    PROVE  Channel!Next
<1>1. Inside' = Inside \ {Frame(m)} /\ Frame(m) \in Inside
  BY FrameSets, InsideIs
<1>2. ASSUME NEW o \in Inside
      PROVE  Frame(m).seq <= o.seq
  <2>1. PICK k \in InRing \cup Copied : o = Frame(k)
    BY InsideIs
  <2> QED
    BY <2>1 DEF Frame
<1>3. Out' = Append(Out, Frame(m))
  <2>1. processed \in Seq(Nat)
    BY DEF InLine
  <2>2. /\ Len(processed) \in Nat /\ DOMAIN processed = 1..Len(processed)
        /\ DOMAIN processed' = 1..(Len(processed) + 1)
        /\ \A i \in 1..Len(processed) : processed'[i] = processed[i] /\ processed[i] \in Nat
        /\ processed'[Len(processed) + 1] = m
    BY <2>1
  <2>3. Out \in [1..Len(processed) -> {Frame(k) : k \in Nat}]
    BY <2>2 DEF Out
  <2>4. Out \in Seq({Frame(k) : k \in Nat}) /\ Len(Out) = Len(processed)
    BY <2>2, <2>3, FunctionIsSeq
  <2>5. Frame(m) \in {Frame(k) : k \in Nat}
    OBVIOUS
  <2>6. /\ DOMAIN Out' = 1..(Len(processed) + 1)
        /\ Out' = [i \in DOMAIN Out' |-> Out'[i]]
        /\ Out'[Len(processed) + 1] = Frame(m)
        /\ \A i \in 1..Len(processed) : Out'[i] = Out[i]
    BY <2>2, InsideIs
  <2> QED
    BY <2>2, <2>4, <2>5, <2>6, AppendIs
<1>4. Channel!Deliver(Frame(m))
  BY <1>1, <1>2, <1>3 DEF Channel!Deliver, Inside, Out, Frame, Eth
<1> QED
  BY <1>1, <1>4 DEF Channel!Next, Inside, Frame, Eth

LEMMA ArriveIsProduce ==
    ASSUME arrived' = arrived + 1, UNCHANGED processed,
           InRing' \cup Copied' = (InRing \cup Copied) \cup {arrived'}
    PROVE  Channel!Next
<1>1. Inside' = Inside \cup {Frame(arrived + 1)} /\ Out' = Out
  BY FrameSets, InsideIs
<1>2. Channel!Produce("eth")
  BY <1>1 DEF Channel!Produce, Inside, Out, Frame, Eth
<1> QED
  BY <1>2 DEF Channel!Next

LEMMA ChannelStep ==
    ASSUME InHand, InLine, [DriverNext]_driverVars
    PROVE  Channel!Next \/ UNCHANGED Channel!chanVars
<1>1. CASE Calm \/ EmacCopies \/ Queues \/ Passes
  <2>1. UNCHANGED <<arrived, processed>>
    BY <1>1 DEF Calm, EmacCopies, Queues, Passes
  <2>2. InRing' \cup Copied' \subseteq InRing \cup Copied
    BY <1>1, CalmStep, CopyStep, QueuesStep, PassesStep
  <2> QED
    BY <2>1, <2>2, LessIsLose DEF Channel!Next
<1>2. CASE Arrives
  <2>1. PICK f \in Frames : Arrive(f)
    BY <1>2 DEF Arrives
  <2>2. arrived' = arrived + 1 /\ UNCHANGED processed
    BY <2>1 DEF Arrive
  <2>3. InRing' = InRing \cup {arrived'} /\ Copied' = Copied
    BY <2>1, ArriveStep
  <2> QED
    BY <2>2, <2>3, ArriveIsProduce
<1>3. CASE Takes
  <2>1. PICK m \in InRing \cup Copied :
           /\ \A k \in InRing \cup Copied : m <= k
           /\ InRing' \cup Copied' = (InRing \cup Copied) \ {m}
           /\ processed' = Append(processed, m)
    BY <1>3, TakesStep
  <2>2. arrived' = arrived /\ m \in Nat
    <3>1. processed' = Append(processed, data[Head(events).buffer]) /\ events # <<>>
      BY <1>3 DEF Takes
    <3>2. Head(events).buffer \in Buffers
      <4>1. events \in Seq(Event)
        BY DEF InHand, DriverTypes
      <4>2. Head(events) \in Event
        BY <3>1, <4>1
      <4> QED
        BY <4>2 DEF Event
    <3>3. data[Head(events).buffer] \in Nat /\ processed \in Seq(Nat)
      BY <3>2 DEF InLine
    <3>4. processed'[Len(processed) + 1] = m
      BY <2>1, <3>3
    <3>5. processed'[Len(processed) + 1] = data[Head(events).buffer]
      BY <3>1, <3>3
    <3> QED
      BY <1>3, <3>3, <3>4, <3>5 DEF Takes
  <2> QED
    BY <2>1, <2>2, TakeIsDeliver
<1> QED
  BY <1>1, <1>2, <1>3, StepFlows

LEMMA ChannelInit == DriverInit => Channel!Init
<1> SUFFICES ASSUME DriverInit
             PROVE  Channel!Init
  OBVIOUS
<1>1. arrived = 0 /\ processed = <<>> /\ events = <<>> /\ pc["emac"] = "idle"
      /\ \A i \in 0 .. RxRing - 1 : rx[i] = Owned
  BY DEF DriverInit, InitDescriptors, Procs
<1>2. InRing = {} /\ Copied = {}
  BY <1>1 DEF InRing, Copied
<1>3. Inside = {} /\ Out = <<>>
  BY <1>1, <1>2, InsideIs
<1> QED
  BY <1>1, <1>3 DEF Channel!Init, Inside, Out, Frame, Eth

\* The frames come to the IP task in the order of the wire, each at most once and
\* none that did not arrive, whatever the interrupt, the driver's task, the
\* allocator and the queue do to them on the way: the driver implements the
\* abstract channel.
THEOREM DriverImplementsChannel == DriverSpec => DriverIsChannel
<1>1. InHand /\ InLine /\ [DriverNext]_driverVars => [Channel!Next]_(Channel!chanVars)
  BY ChannelStep
<1> QED
  BY <1>1, ChannelInit, InHandHolds, InLineHolds, PTL DEF DriverSpec, DriverIsChannel, Channel!Spec
=============================================================================
