--------------------------- MODULE SequenceFacts ---------------------------
(***************************************************************************)
(* What queues do to the set of messages they hold: facts about finite     *)
(* sequences that the proofs about queues cite.                            *)
(***************************************************************************)
EXTENDS Naturals, Sequences, SequenceTheorems, FiniteSetTheorems, WellFoundedInduction, TLAPS

\* The messages of a queue.
Elems(q) == {q[i] : i \in DOMAIN q}

\* A queue holds messages of its type.
LEMMA ElemsType ==
    ASSUME NEW T, NEW q \in Seq(T)
    PROVE  Elems(q) \subseteq T
BY DEF Elems

\* A new or drained queue holds nothing.
LEMMA ElemsEmpty == Elems(<<>>) = {}
BY DEF Elems

\* A send to the back adds one message.
LEMMA ElemsAppend ==
    ASSUME NEW T, NEW q \in Seq(T), NEW m \in T
    PROVE  Elems(Append(q, m)) = Elems(q) \cup {m}
<1>1. Len(Append(q, m)) = Len(q) + 1 /\ DOMAIN q = 1..Len(q)
  OBVIOUS
<1>2. \A i \in 1..Len(q) : Append(q, m)[i] = q[i]
  OBVIOUS
<1>3. Append(q, m)[Len(q) + 1] = m
  OBVIOUS
<1>4. DOMAIN Append(q, m) = 1..(Len(q) + 1)
  OBVIOUS
<1> QED
  BY <1>1, <1>2, <1>3, <1>4 DEF Elems

\* So does a send to the front.
LEMMA ElemsPush ==
    ASSUME NEW T, NEW q \in Seq(T), NEW m \in T
    PROVE  Elems(<<m>> \o q) = Elems(q) \cup {m}
<1>1. DOMAIN (<<m>> \o q) = 1..(Len(q) + 1) /\ DOMAIN q = 1..Len(q)
  OBVIOUS
<1>2. (<<m>> \o q)[1] = m
  OBVIOUS
<1>3. \A i \in 1..Len(q) : (<<m>> \o q)[i + 1] = q[i]
  OBVIOUS
<1>4. \A j \in 1..(Len(q) + 1) : j # 1 => j - 1 \in 1..Len(q)
                                    /\ (<<m>> \o q)[j] = q[j - 1]
  OBVIOUS
<1>5. Elems(<<m>> \o q) \subseteq Elems(q) \cup {m}
  BY <1>1, <1>2, <1>4 DEF Elems
<1>6. ASSUME NEW i \in 1..Len(q) PROVE q[i] \in Elems(<<m>> \o q)
  <2>1. i + 1 \in 1..(Len(q) + 1)
    OBVIOUS
  <2> QED
    BY <1>1, <1>3, <2>1 DEF Elems
<1>7. m \in Elems(<<m>> \o q)
  <2>1. 1 \in 1..(Len(q) + 1)
    OBVIOUS
  <2> QED
    BY <1>1, <1>2, <2>1 DEF Elems
<1> QED
  BY <1>1, <1>5, <1>6, <1>7 DEF Elems

\* A receive takes out the first message.
LEMMA ElemsHead ==
    ASSUME NEW T, NEW q \in Seq(T), q # <<>>
    PROVE  Elems(q) = Elems(Tail(q)) \cup {Head(q)}
<1>1. DOMAIN q = 1..Len(q) /\ Len(q) >= 1 /\ Head(q) = q[1]
  OBVIOUS
<1>2. DOMAIN Tail(q) = 1..(Len(q) - 1)
  OBVIOUS
<1>3. \A i \in 1..(Len(q) - 1) : i + 1 \in 1..Len(q) /\ Tail(q)[i] = q[i + 1]
  OBVIOUS
<1>4. \A j \in 1..Len(q) : j # 1 => j - 1 \in 1..(Len(q) - 1)
                                /\ Tail(q)[j - 1] = q[j]
  OBVIOUS
<1>5. Elems(Tail(q)) \subseteq Elems(q)
  BY <1>1, <1>2, <1>3 DEF Elems
<1>6. ASSUME NEW j \in 1..Len(q) PROVE q[j] \in Elems(Tail(q)) \cup {Head(q)}
  BY <1>1, <1>2, <1>4 DEF Elems
<1>7. Head(q) \in Elems(q)
  BY <1>1 DEF Elems
<1> QED
  BY <1>1, <1>5, <1>6, <1>7 DEF Elems

\* Two queues one after the other hold what each of them holds.
LEMMA ElemsConcat ==
    ASSUME NEW T, NEW p \in Seq(T), NEW q \in Seq(T)
    PROVE  Elems(p \o q) = Elems(p) \cup Elems(q)
<1>1. DOMAIN (p \o q) = 1..(Len(p) + Len(q)) /\ DOMAIN p = 1..Len(p)
      /\ DOMAIN q = 1..Len(q)
  OBVIOUS
<1>2. \A i \in 1..Len(p) : (p \o q)[i] = p[i]
  OBVIOUS
<1>3. \A i \in 1..Len(q) : (p \o q)[Len(p) + i] = q[i]
  OBVIOUS
<1>4. \A j \in 1..(Len(p) + Len(q)) :
         j \notin 1..Len(p) => j - Len(p) \in 1..Len(q)
                                /\ (p \o q)[j] = q[j - Len(p)]
  OBVIOUS
<1>5. Elems(p \o q) \subseteq Elems(p) \cup Elems(q)
  BY <1>1, <1>2, <1>4 DEF Elems
<1>6. ASSUME NEW i \in 1..Len(p) PROVE p[i] \in Elems(p \o q)
  <2>1. i \in 1..(Len(p) + Len(q))
    OBVIOUS
  <2> QED
    BY <1>1, <1>2, <2>1 DEF Elems
<1>7. ASSUME NEW i \in 1..Len(q) PROVE q[i] \in Elems(p \o q)
  <2>1. Len(p) + i \in 1..(Len(p) + Len(q))
    OBVIOUS
  <2> QED
    BY <1>1, <1>3, <2>1 DEF Elems
<1> QED
  BY <1>1, <1>5, <1>6, <1>7 DEF Elems

\* A function on 1..n is a sequence of n elements.
LEMMA FunctionIsSeq ==
    ASSUME NEW T, NEW n \in Nat, NEW f \in [1..n -> T]
    PROVE  f \in Seq(T) /\ Len(f) = n /\ DOMAIN f = 1..n
<1>1. f \in Seq(T)
  BY SeqDef
<1>2. DOMAIN f = 1..n
  OBVIOUS
<1> QED
  BY <1>1, <1>2, LenProperties

\* What a queue is after a send to the back, element by element.
LEMMA AppendIs ==
    ASSUME NEW T, NEW q \in Seq(T), NEW m \in T, NEW f,
           DOMAIN f = 1..(Len(q) + 1), f = [i \in DOMAIN f |-> f[i]],
           f[Len(q) + 1] = m, \A i \in 1..Len(q) : f[i] = q[i]
    PROVE  f = Append(q, m)
<1> DEFINE g == Append(q, m)
<1>1. /\ Len(q) \in Nat /\ DOMAIN g = 1..(Len(q) + 1)
      /\ g[Len(q) + 1] = m /\ \A i \in 1..Len(q) : g[i] = q[i]
      /\ g = [i \in DOMAIN g |-> g[i]]
  <2>1. g \in Seq(T) /\ Len(g) = Len(q) + 1 /\ Len(q) \in Nat
    BY AppendProperties, LenProperties
  <2>2. g \in [1..Len(g) -> T]
    BY <2>1, LenProperties
  <2>3. g[Len(q) + 1] = m /\ \A i \in 1..Len(q) : g[i] = q[i]
    BY AppendProperties
  <2> HIDE DEF g
  <2> QED
    BY <2>1, <2>2, <2>3
<1> HIDE DEF g
<1>2. \A i \in 1..(Len(q) + 1) : f[i] = g[i]
  BY <1>1
<1>3. f = g
  BY <1>1, <1>2
<1> QED
  BY <1>3 DEF g

\* A queue cut after its first n messages.
LEMMA SplitAt ==
    ASSUME NEW T, NEW q \in Seq(T), NEW n \in 0..Len(q)
    PROVE  /\ SubSeq(q, 1, n) \in Seq(T) /\ Len(SubSeq(q, 1, n)) = n
           /\ \A k \in 1..n : SubSeq(q, 1, n)[k] = q[k]
           /\ SubSeq(q, n + 1, Len(q)) \in Seq(T)
           /\ Len(SubSeq(q, n + 1, Len(q))) = Len(q) - n
           /\ \A k \in 1..(Len(q) - n) : SubSeq(q, n + 1, Len(q))[k] = q[n + k]
<1>1. Len(q) \in Nat /\ n \in Nat /\ n <= Len(q)
  OBVIOUS
<1>2. /\ SubSeq(q, 1, n) \in Seq(T) /\ Len(SubSeq(q, 1, n)) = n
      /\ \A k \in 1..n : SubSeq(q, 1, n)[k] = q[k]
  BY <1>1
<1>3. /\ SubSeq(q, n + 1, Len(q)) \in Seq(T)
      /\ Len(SubSeq(q, n + 1, Len(q))) = Len(q) - n
  BY <1>1
<1>4. \A k \in 1..(Len(q) - n) : SubSeq(q, n + 1, Len(q))[k] = q[n + k]
  BY <1>1
<1> QED
  BY <1>2, <1>3, <1>4

\* Two queues one after the other, message by message.
LEMMA ConcatIs ==
    ASSUME NEW T, NEW p \in Seq(T), NEW q \in Seq(T)
    PROVE  /\ p \o q \in Seq(T) /\ Len(p \o q) = Len(p) + Len(q)
           /\ DOMAIN (p \o q) = 1..(Len(p) + Len(q))
           /\ \A k \in 1..Len(p) : (p \o q)[k] = p[k]
           /\ \A k \in 1..Len(q) : (p \o q)[Len(p) + k] = q[k]
<1>1. p \o q \in Seq(T) /\ Len(p \o q) = Len(p) + Len(q)
  OBVIOUS
<1>2. DOMAIN (p \o q) = 1..(Len(p) + Len(q))
  OBVIOUS
<1>3. \A k \in 1..Len(p) : (p \o q)[k] = p[k]
  OBVIOUS
<1>4. \A k \in 1..Len(q) : (p \o q)[Len(p) + k] = q[k]
  OBVIOUS
<1> QED
  BY <1>1, <1>2, <1>3, <1>4

\* One message before a queue.
LEMMA FirstBefore ==
    ASSUME NEW T, NEW q \in Seq(T), NEW p \in Seq(T), Len(p) = 1
    PROVE  /\ p \o q \in Seq(T) /\ DOMAIN (p \o q) = 1..(1 + Len(q))
           /\ (p \o q)[1] = p[1]
           /\ \A i \in 1..Len(q) : (p \o q)[1 + i] = q[i]
<1> DEFINE g == p \o q
<1>1. /\ g \in Seq(T) /\ DOMAIN g = 1..(Len(p) + Len(q))
      /\ \A k \in 1..Len(p) : g[k] = p[k]
      /\ \A k \in 1..Len(q) : g[Len(p) + k] = q[k]
  BY ConcatIs
<1>2. 1 \in 1..Len(p)
  OBVIOUS
<1> HIDE DEF g
<1> QED
  BY <1>1, <1>2 DEF g

\* What a queue is after a send to the front, element by element.
LEMMA PushIs ==
    ASSUME NEW T, NEW q \in Seq(T), NEW p \in Seq(T), NEW f, Len(p) = 1,
           DOMAIN f = 1..(Len(q) + 1), f = [i \in DOMAIN f |-> f[i]],
           f[1] = p[1], \A i \in 1..Len(q) : f[i + 1] = q[i]
    PROVE  f = p \o q
<1> DEFINE g == p \o q
<1>1. Len(q) \in Nat
  OBVIOUS
<1>2. g \in Seq(T) /\ DOMAIN g = 1..(1 + Len(q)) /\ g[1] = p[1]
      /\ \A i \in 1..Len(q) : g[1 + i] = q[i]
  BY FirstBefore
<1>3. g = [i \in DOMAIN g |-> g[i]]
  <2>1. g \in [1..Len(g) -> T]
    BY <1>2, LenProperties
  <2> HIDE DEF g
  <2> QED
    BY <2>1
<1> HIDE DEF g
<1>4. ASSUME NEW i \in 1..(Len(q) + 1) PROVE f[i] = g[i]
  <2>1. CASE i = 1
    BY <1>2, <2>1
  <2>2. CASE i # 1
    <3>1. i - 1 \in 1..Len(q) /\ (i - 1) + 1 = i /\ 1 + (i - 1) = i
      BY <1>1, <2>2
    <3> QED
      BY <1>2, <3>1
  <2> QED
    BY <2>1, <2>2
<1>5. 1..(1 + Len(q)) = 1..(Len(q) + 1)
  BY <1>1
<1> QED
  BY <1>2, <1>3, <1>4, <1>5 DEF g

\* What a queue is after a receive, element by element.
LEMMA TailIs ==
    ASSUME NEW T, NEW q \in Seq(T), q # <<>>, NEW f,
           DOMAIN f = 1..(Len(q) - 1), f = [i \in DOMAIN f |-> f[i]],
           \A i \in 1..(Len(q) - 1) : f[i] = q[i + 1]
    PROVE  f = Tail(q)
<1> DEFINE g == Tail(q)
<1>1. g \in Seq(T) /\ Len(g) = Len(q) - 1
      /\ \A i \in 1..(Len(q) - 1) : g[i] = q[i + 1]
  OBVIOUS
<1>2. DOMAIN g = 1..(Len(q) - 1) /\ g = [i \in DOMAIN g |-> g[i]]
  <2>1. g \in [1..Len(g) -> T]
    BY <1>1, LenProperties
  <2> HIDE DEF g
  <2> QED
    BY <1>1, <2>1
<1> HIDE DEF g
<1> QED
  BY <1>1, <1>2 DEF g

\* A set of naturals has a least element.
LEMMA LeastNat ==
    ASSUME NEW A \in SUBSET Nat, A # {}
    PROVE  \E n \in A : \A k \in A : n <= k
<1>1. PICK m \in A : TRUE
  OBVIOUS
<1> DEFINE T == {0 .. n : n \in {k \in A : k <= m}}
<1>2. IsFiniteSet(0 .. m)
  BY FS_Interval
<1>3. T \subseteq FiniteSubsetsOf(0 .. m)
  BY <1>1, <1>2, FS_Subset DEF FiniteSubsetsOf
<1>4. 0 .. m \in T
  BY <1>1
<1>5. IsWellFoundedOn(StrictSubsetOrdering(0 .. m), FiniteSubsetsOf(0 .. m))
  BY FS_StrictSubsetOrderingWellFounded
<1>6. PICK X \in T : \A Y \in T : <<Y, X>> \notin StrictSubsetOrdering(0 .. m)
  <2> HIDE DEF T
  <2> QED
    BY <1>3, <1>4, <1>5, WFMin
<1>7. PICK n \in A : n <= m /\ X = 0 .. n
  BY <1>6
<1>8. ASSUME NEW k \in A, k < n
      PROVE  FALSE
  <2>1. 0 .. k \in T
    BY <1>1, <1>7, <1>8
  <2>2. 0 .. k \subseteq 0 .. n /\ 0 .. k # 0 .. n
    <3>1. n \in 0 .. n /\ n \notin 0 .. k
      BY <1>8
    <3> QED
      BY <1>8, <3>1
  <2>3. 0 .. k \in SUBSET (0 .. m) /\ 0 .. n \in SUBSET (0 .. m)
    BY <1>1, <1>7, <1>8
  <2> QED
    BY <1>6, <1>7, <2>1, <2>2, <2>3 DEF StrictSubsetOrdering
<1> QED
  BY <1>7, <1>8

=============================================================================
