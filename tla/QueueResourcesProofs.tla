------------------------ MODULE QueueResourcesProofs ------------------------
(* Lemmas about the pool of queues: what giving back, taking and restoring   *)
(* do to the ordered list of free chunks, and to the pool as a whole.         *)
EXTENDS QueueResources, SequenceTheorems, WellFoundedInduction, TLAPS

Chunk == [qbase : Nat, total_q : Nat \ {0}]

In(c, q) == c.qbase <= q /\ q < End(c)

Free(list, q) == \E i \in 1..Len(list) : In(list[i], q)

(* The chunks stand in the order of their queues, at least gap queues apart. *)
Before(a, b, gap) == \A i \in 1..Len(a), j \in 1..Len(b) : End(a[i]) + gap <= b[j].qbase

Ordered(list, gap) ==
  /\ list \in Seq(Chunk)
  /\ \A i, j \in 1..Len(list) : i < j => End(list[i]) + gap <= list[j].qbase

-----------------------------------------------------------------------------
(* Chunks. *)

LEMMA ChunkIs ==
  ASSUME NEW c \in Chunk
  PROVE  c.qbase \in Nat /\ c.total_q \in Nat /\ c.total_q > 0 /\ End(c) \in Nat /\ c.qbase < End(c)
BY DEF Chunk, End

LEMMA ChunkMade ==
  ASSUME NEW b \in Nat, NEW n \in Nat \ {0}
  PROVE  /\ [qbase |-> b, total_q |-> n] \in Chunk
         /\ [qbase |-> b, total_q |-> n].qbase = b
         /\ [qbase |-> b, total_q |-> n].total_q = n
         /\ End([qbase |-> b, total_q |-> n]) = b + n
BY DEF Chunk, End

(* Two chunks without a common queue lie one before the other. *)
LEMMA Disjoint ==
  ASSUME NEW c \in Chunk, NEW d \in Chunk, \A q \in Nat : ~(In(c, q) /\ In(d, q))
  PROVE  End(c) <= d.qbase \/ End(d) <= c.qbase
<1>1. /\ c.qbase \in Nat /\ End(c) \in Nat /\ c.qbase < End(c)
      /\ d.qbase \in Nat /\ End(d) \in Nat /\ d.qbase < End(d)
  BY ChunkIs
<1>2. CASE c.qbase <= d.qbase
  BY <1>1, <1>2 DEF In
<1>3. CASE d.qbase <= c.qbase
  BY <1>1, <1>3 DEF In
<1> QED
  BY <1>1, <1>2, <1>3

-----------------------------------------------------------------------------
(* Lists put together. *)

LEMMA Joined ==
  ASSUME NEW S, NEW a \in Seq(S), NEW b \in Seq(S)
  PROVE  /\ a \o b \in Seq(S) /\ Len(a \o b) = Len(a) + Len(b)
         /\ \A i \in 1..Len(a) : (a \o b)[i] = a[i]
         /\ \A i \in 1..Len(b) : (a \o b)[Len(a) + i] = b[i]
         /\ \A i \in 1..Len(a \o b) : i \in 1..Len(a) \/ (i - Len(a) \in 1..Len(b) /\ i > Len(a))
<1>1. Len(a) \in Nat /\ Len(b) \in Nat
  OBVIOUS
<1>2. a \o b \in Seq(S) /\ Len(a \o b) = Len(a) + Len(b)
  OBVIOUS
<1>3. \A i \in 1..Len(a) : (a \o b)[i] = a[i]
  BY <1>1
<1>4. \A i \in 1..Len(b) : (a \o b)[Len(a) + i] = b[i]
  BY <1>1
<1> QED
  BY <1>1, <1>2, <1>3, <1>4

LEMMA JoinedOrder ==
  ASSUME NEW gap \in Nat, NEW a, NEW b,
         Ordered(a, gap), Ordered(b, gap), Before(a, b, gap)
  PROVE  Ordered(a \o b, gap)
<1> DEFINE s == a \o b
<1>1. a \in Seq(Chunk) /\ b \in Seq(Chunk)
  BY DEF Ordered
<1>2. /\ s \in Seq(Chunk) /\ Len(s) = Len(a) + Len(b) /\ Len(a) \in Nat /\ Len(b) \in Nat
      /\ \A i \in 1..Len(a) : s[i] = a[i]
      /\ \A i \in 1..Len(b) : s[Len(a) + i] = b[i]
      /\ \A i \in 1..Len(s) : i \in 1..Len(a) \/ (i - Len(a) \in 1..Len(b) /\ i > Len(a))
  BY <1>1, Joined
<1> HIDE DEF s
<1>3. ASSUME NEW i \in 1..Len(s), NEW j \in 1..Len(s), i < j
      PROVE  End(s[i]) + gap <= s[j].qbase
  <2>1. CASE i \in 1..Len(a) /\ j \in 1..Len(a)
    BY <1>2, <1>3, <2>1 DEF Ordered
  <2>2. CASE i \in 1..Len(a) /\ j - Len(a) \in 1..Len(b)
    <3>1. s[i] = a[i] /\ s[j] = b[j - Len(a)]
      <4>1. Len(a) + (j - Len(a)) = j
        BY <1>2
      <4>2. s[Len(a) + (j - Len(a))] = b[j - Len(a)]
        BY <1>2, <2>2, Zenon
      <4> QED
        BY <4>1, <4>2, <1>2, <2>2
    <3> QED
      BY <3>1, <2>2 DEF Before
  <2>3. CASE i > Len(a) /\ i - Len(a) \in 1..Len(b) /\ j - Len(a) \in 1..Len(b)
    <3>1. s[Len(a) + (i - Len(a))] = b[i - Len(a)] /\ s[Len(a) + (j - Len(a))] = b[j - Len(a)]
      BY <1>2, <2>3, Zenon
    <3>2. Len(a) + (i - Len(a)) = i /\ Len(a) + (j - Len(a)) = j /\ i - Len(a) < j - Len(a)
      BY <1>2, <1>3
    <3>3. s[i] = b[i - Len(a)] /\ s[j] = b[j - Len(a)]
      BY <3>1, <3>2
    <3>4. End(b[i - Len(a)]) + gap <= b[j - Len(a)].qbase
      BY <3>2, <2>3, Zenon DEF Ordered
    <3> QED
      BY <3>3, <3>4
  <2> QED
    BY <1>2, <1>3, <2>1, <2>2, <2>3
<1> QED
  BY <1>2, <1>3 DEF Ordered, s

LEMMA JoinedFree ==
  ASSUME NEW a \in Seq(Chunk), NEW b \in Seq(Chunk), NEW q
  PROVE  Free(a \o b, q) <=> Free(a, q) \/ Free(b, q)
<1> DEFINE s == a \o b
<1>2. /\ s \in Seq(Chunk) /\ Len(s) = Len(a) + Len(b) /\ Len(a) \in Nat /\ Len(b) \in Nat
      /\ \A i \in 1..Len(a) : s[i] = a[i]
      /\ \A i \in 1..Len(b) : s[Len(a) + i] = b[i]
      /\ \A i \in 1..Len(s) : i \in 1..Len(a) \/ (i - Len(a) \in 1..Len(b) /\ i > Len(a))
  BY Joined
<1> HIDE DEF s
<1>3. ASSUME Free(a, q) PROVE Free(s, q)
  <2>1. PICK i \in 1..Len(a) : In(a[i], q)
    BY <1>3 DEF Free
  <2>2. i \in 1..Len(s) /\ s[i] = a[i]
    BY <1>2
  <2> QED
    BY <2>1, <2>2 DEF Free
<1>4. ASSUME Free(b, q) PROVE Free(s, q)
  <2>1. PICK i \in 1..Len(b) : In(b[i], q)
    BY <1>4 DEF Free
  <2>2. Len(a) + i \in 1..Len(s) /\ s[Len(a) + i] = b[i]
    BY <1>2
  <2> QED
    BY <2>1, <2>2 DEF Free
<1>5. ASSUME Free(s, q) PROVE Free(a, q) \/ Free(b, q)
  <2>1. PICK i \in 1..Len(s) : In(s[i], q)
    BY <1>5 DEF Free
  <2>2. CASE i \in 1..Len(a)
    BY <2>1, <2>2, <1>2 DEF Free
  <2>3. CASE i - Len(a) \in 1..Len(b)
    <3>1. Len(a) + (i - Len(a)) = i
      BY <1>2
    <3>2. s[Len(a) + (i - Len(a))] = b[i - Len(a)]
      BY <1>2, <2>3, Zenon
    <3> QED
      BY <3>1, <3>2, <2>1, <2>3 DEF Free
  <2> QED
    BY <1>2, <2>2, <2>3
<1> QED
  BY <1>3, <1>4, <1>5 DEF s

LEMMA JoinedBefore ==
  ASSUME NEW gap \in Nat, NEW a \in Seq(Chunk), NEW b \in Seq(Chunk), NEW c \in Seq(Chunk),
         Before(a, c, gap), Before(b, c, gap)
  PROVE  Before(a \o b, c, gap)
<1> DEFINE s == a \o b
<1>2. /\ Len(s) = Len(a) + Len(b) /\ Len(a) \in Nat /\ Len(b) \in Nat
      /\ \A i \in 1..Len(a) : s[i] = a[i]
      /\ \A i \in 1..Len(b) : s[Len(a) + i] = b[i]
      /\ \A i \in 1..Len(s) : i \in 1..Len(a) \/ (i - Len(a) \in 1..Len(b) /\ i > Len(a))
  BY Joined
<1> HIDE DEF s
<1>3. ASSUME NEW i \in 1..Len(s), NEW j \in 1..Len(c) PROVE End(s[i]) + gap <= c[j].qbase
  <2>2. CASE i \in 1..Len(a)
    BY <2>2, <1>2 DEF Before
  <2>3. CASE i - Len(a) \in 1..Len(b)
    <3>1. Len(a) + (i - Len(a)) = i
      BY <1>2
    <3>2. s[Len(a) + (i - Len(a))] = b[i - Len(a)]
      BY <1>2, <2>3, Zenon
    <3> QED
      BY <3>1, <3>2, <2>3 DEF Before
  <2> QED
    BY <1>2, <2>2, <2>3
<1> QED
  BY <1>3 DEF Before, s

-----------------------------------------------------------------------------
(* Pieces of a list. *)

LEMMA Cut ==
  ASSUME NEW S, NEW s \in Seq(S), NEW m \in 1..(Len(s) + 1), NEW n \in 0..Len(s), m <= n + 1
  PROVE  /\ SubSeq(s, m, n) \in Seq(S) /\ Len(SubSeq(s, m, n)) = n - m + 1
         /\ \A i \in 1..(n - m + 1) : SubSeq(s, m, n)[i] = s[m + i - 1]
<1>1. /\ SubSeq(s, m, n) \in Seq(S)
      /\ Len(SubSeq(s, m, n)) = IF m <= n THEN n - m + 1 ELSE 0
  BY SubSeqProperties
<1>2. n - m + 1 = IF m <= n THEN n - m + 1 ELSE 0
  OBVIOUS
<1>3. \A i \in 1..(n - m + 1) : SubSeq(s, m, n)[i] = s[m + i - 1]
  BY SubSeqProperties
<1> QED
  BY <1>1, <1>2, <1>3

LEMMA CutOrder ==
  ASSUME NEW gap \in Nat, NEW s, Ordered(s, gap),
         NEW m \in 1..(Len(s) + 1), NEW n \in 0..Len(s), m <= n + 1
  PROVE  Ordered(SubSeq(s, m, n), gap)
<1> DEFINE t == SubSeq(s, m, n)
<1>1. s \in Seq(Chunk) /\ Len(s) \in Nat
  BY DEF Ordered
<1>2. /\ t \in Seq(Chunk) /\ Len(t) = n - m + 1
      /\ \A i \in 1..(n - m + 1) : t[i] = s[m + i - 1]
  BY <1>1, Cut
<1> HIDE DEF t
<1>3. ASSUME NEW i \in 1..Len(t), NEW j \in 1..Len(t), i < j
      PROVE  End(t[i]) + gap <= t[j].qbase
  <2>1. /\ t[i] = s[m + i - 1] /\ t[j] = s[m + j - 1]
        /\ m + i - 1 \in 1..Len(s) /\ m + j - 1 \in 1..Len(s) /\ m + i - 1 < m + j - 1
    BY <1>1, <1>2, <1>3
  <2> QED
    BY <2>1 DEF Ordered
<1> QED
  BY <1>2, <1>3 DEF Ordered, t

LEMMA CutFree ==
  ASSUME NEW s \in Seq(Chunk), NEW m \in 1..(Len(s) + 1), NEW n \in 0..Len(s), m <= n + 1, NEW q
  PROVE  Free(SubSeq(s, m, n), q) <=> \E i \in m..n : In(s[i], q)
<1> DEFINE t == SubSeq(s, m, n)
<1>1. Len(s) \in Nat
  OBVIOUS
<1>2. /\ t \in Seq(Chunk) /\ Len(t) = n - m + 1
      /\ \A i \in 1..(n - m + 1) : t[i] = s[m + i - 1]
  BY <1>1, Cut
<1> HIDE DEF t
<1>3. ASSUME Free(t, q) PROVE \E i \in m..n : In(s[i], q)
  <2>1. PICK i \in 1..Len(t) : In(t[i], q)
    BY <1>3 DEF Free
  <2>2. m + i - 1 \in m..n /\ t[i] = s[m + i - 1]
    BY <1>2
  <2> QED
    BY <2>1, <2>2
<1>4. ASSUME NEW i \in m..n, In(s[i], q) PROVE Free(t, q)
  <2>1. i - m + 1 \in 1..(n - m + 1) /\ m + (i - m + 1) - 1 = i
    OBVIOUS
  <2>2. t[i - m + 1] = s[m + (i - m + 1) - 1]
    BY <1>2, <2>1, Zenon
  <2>3. t[i - m + 1] = s[i]
    BY <2>1, <2>2
  <2> QED
    BY <1>2, <1>4, <2>1, <2>3 DEF Free
<1> QED
  BY <1>3, <1>4 DEF t

(* The chunks from m on, seen from a chunk n before them. *)
LEMMA CutBefore ==
  ASSUME NEW gap \in Nat, NEW s, Ordered(s, gap),
         NEW n \in 1..(Len(s) + 1), NEW m \in 1..(Len(s) + 1), n <= m
  PROVE  Before(SubSeq(s, 1, n - 1), SubSeq(s, m, Len(s)), gap)
<1> DEFINE a == SubSeq(s, 1, n - 1)
           b == SubSeq(s, m, Len(s))
<1>1. s \in Seq(Chunk) /\ Len(s) \in Nat /\ n - 1 \in 0..Len(s) /\ 1 \in 1..(Len(s) + 1)
  BY DEF Ordered
<1>2. /\ Len(a) = n - 1 - 1 + 1
      /\ \A i \in 1..(n - 1 - 1 + 1) : a[i] = s[1 + i - 1]
  BY <1>1, Cut
<1>3. /\ Len(b) = Len(s) - m + 1
      /\ \A i \in 1..(Len(s) - m + 1) : b[i] = s[m + i - 1]
  BY <1>1, Cut
<1> HIDE DEF a, b
<1>4. ASSUME NEW i \in 1..Len(a), NEW j \in 1..Len(b) PROVE End(a[i]) + gap <= b[j].qbase
  <2>1. /\ 1 + i - 1 \in 1..Len(s) /\ m + j - 1 \in 1..Len(s) /\ 1 + i - 1 < m + j - 1
        /\ i \in 1..(n - 1 - 1 + 1) /\ j \in 1..(Len(s) - m + 1)
    BY <1>1, <1>2, <1>3
  <2>2. a[i] = s[1 + i - 1] /\ b[j] = s[m + j - 1]
    BY <1>2, <1>3, <2>1, Zenon
  <2>3. End(s[1 + i - 1]) + gap <= s[m + j - 1].qbase
    BY <2>1, Zenon DEF Ordered
  <2> QED
    BY <2>2, <2>3
<1> QED
  BY <1>4, Zenon DEF Before, a, b

(* A list of one chunk, or none. *)
LEMMA Single ==
  ASSUME NEW gap \in Nat, NEW c \in Chunk
  PROVE  /\ Ordered(<<c>>, gap)
         /\ \A q : Free(<<c>>, q) <=> In(c, q)
         /\ \A s : Before(s, <<c>>, gap) <=> \A i \in 1..Len(s) : End(s[i]) + gap <= c.qbase
         /\ \A s : Before(<<c>>, s, gap) <=> \A i \in 1..Len(s) : End(c) + gap <= s[i].qbase
<1>1. <<c>> \in Seq(Chunk) /\ Len(<<c>>) = 1 /\ <<c>>[1] = c
  OBVIOUS
<1>2. \A i \in 1..1 : i = 1
  OBVIOUS
<1>3. Ordered(<<c>>, gap)
  BY <1>1 DEF Ordered
<1>4. \A q : Free(<<c>>, q) <=> In(c, q)
  BY <1>1, <1>2 DEF Free
<1>5. \A s : Before(s, <<c>>, gap) <=> \A i \in 1..Len(s) : End(s[i]) + gap <= c.qbase
  BY <1>1, <1>2 DEF Before
<1>6. \A s : Before(<<c>>, s, gap) <=> \A i \in 1..Len(s) : End(c) + gap <= s[i].qbase
  BY <1>1, <1>2 DEF Before
<1> QED
  BY <1>3, <1>4, <1>5, <1>6

LEMMA NoChunks ==
  ASSUME NEW gap \in Nat
  PROVE  /\ Ordered(<<>>, gap)
         /\ \A q : ~Free(<<>>, q)
         /\ \A s : Before(s, <<>>, gap) /\ Before(<<>>, s, gap)
<1>1. <<>> \in Seq(Chunk)
  OBVIOUS
<1>2. Len(<<>>) = 0 /\ 1..0 = {}
  OBVIOUS
<1> QED
  BY <1>1, <1>2 DEF Ordered, Free, Before

(* The chunks from n up to m (none or one) replaced by others. *)
SplicedRight(s, n, m, p, t, gap) ==
  /\ Ordered(t, gap)
  /\ \A q : Free(t, q) <=> \/ \E i \in 1..(n - 1) : In(s[i], q)
                           \/ Free(p, q)
                           \/ \E i \in m..Len(s) : In(s[i], q)

LEMMA Spliced ==
  ASSUME NEW gap \in Nat, NEW s, Ordered(s, gap), NEW p, Ordered(p, gap),
         NEW n \in 1..(Len(s) + 1), NEW m \in 1..(Len(s) + 1), n <= m,
         Before(SubSeq(s, 1, n - 1), p, gap), Before(p, SubSeq(s, m, Len(s)), gap),
         NEW t, t = SubSeq(s, 1, n - 1) \o p \o SubSeq(s, m, Len(s))
  PROVE  SplicedRight(s, n, m, p, t, gap)
<1> DEFINE a == SubSeq(s, 1, n - 1)
           b == SubSeq(s, m, Len(s))
<1>1. s \in Seq(Chunk) /\ Len(s) \in Nat /\ n - 1 \in 0..Len(s) /\ 1 \in 1..(Len(s) + 1)
      /\ Len(s) \in 0..Len(s) /\ 1 <= (n - 1) + 1 /\ m <= Len(s) + 1
  BY DEF Ordered
<1>2. Ordered(a, gap) /\ Ordered(b, gap)
  BY <1>1, CutOrder
<1>3. Before(a, b, gap)
  BY CutBefore
<1>4. \A q : Free(a, q) <=> \E i \in 1..(n - 1) : In(s[i], q)
  BY <1>1, CutFree
<1>5. \A q : Free(b, q) <=> \E i \in m..Len(s) : In(s[i], q)
  BY <1>1, CutFree
<1>6. Before(a, p, gap) /\ Before(p, b, gap)
  OBVIOUS
<1> HIDE DEF a, b
<1>7. a \in Seq(Chunk) /\ b \in Seq(Chunk) /\ p \in Seq(Chunk)
  BY <1>2 DEF Ordered
<1>8. Ordered(a \o p, gap)
  BY <1>2, <1>6, JoinedOrder
<1>9. Before(a \o p, b, gap)
  BY <1>3, <1>6, <1>7, JoinedBefore
<1>10. Ordered((a \o p) \o b, gap)
  BY <1>2, <1>8, <1>9, JoinedOrder
<1>11. \A q : Free((a \o p) \o b, q) <=> Free(a, q) \/ Free(p, q) \/ Free(b, q)
  <2> TAKE q
  <2>1. a \o p \in Seq(Chunk)
    BY <1>8 DEF Ordered
  <2>2. Free((a \o p) \o b, q) <=> Free(a \o p, q) \/ Free(b, q)
    BY <2>1, <1>7, JoinedFree
  <2>3. Free(a \o p, q) <=> Free(a, q) \/ Free(p, q)
    BY <1>7, JoinedFree
  <2> QED
    BY <2>2, <2>3
<1>12. \A q : Free((a \o p) \o b, q) <=> \/ \E i \in 1..(n - 1) : In(s[i], q)
                                         \/ Free(p, q)
                                         \/ \E i \in m..Len(s) : In(s[i], q)
  BY <1>4, <1>5, <1>11, Zenon
<1> QED
  BY <1>10, <1>12, Zenon DEF a, b, SplicedRight

-----------------------------------------------------------------------------
(* Least elements; the index that SelectInSeq returns is one. *)

LEMMA LeastNat ==
  ASSUME NEW T \in SUBSET Nat, T # {}
  PROVE  \E m \in T : \A n \in T : m <= n
<1> DEFINE R == OpToRel(<, Nat)
<1>1. PICK m \in T : \A n \in T : ~(<<n, m>> \in R)
  <2>1. IsWellFoundedOn(R, Nat)
    BY NatLessThanWellFounded
  <2> HIDE DEF R
  <2> QED
    BY <2>1, WFMin
<1>2. ASSUME NEW n \in T PROVE m <= n
  <2>1. ~(<<n, m>> \in R)
    BY <1>1
  <2> QED
    BY <2>1 DEF OpToRel
<1> QED
  BY <1>2

LEMMA MinIsLeast ==
  ASSUME NEW T \in SUBSET Nat, T # {}
  PROVE  Min(T) \in T /\ \A n \in T : Min(T) <= n
BY LeastNat DEF Min

-----------------------------------------------------------------------------
(* Giving back: the chunk is put in its place, then neighbours are merged. *)

LEMMA PlacedRight ==
  ASSUME NEW s, Ordered(s, 0), NEW c \in Chunk, \A q \in Nat : ~(Free(s, q) /\ In(c, q))
  PROVE  /\ Ordered(Placed(s, c), 0)
         /\ \A q : Free(Placed(s, c), q) <=> Free(s, q) \/ In(c, q)
         /\ \E k \in 1..Len(Placed(s, c)) : Placed(s, c)[k] = c
<1> DEFINE I == {i \in 1..Len(s) : s[i].qbase > c.qbase}
           n == IF I # {} THEN Min(I) ELSE 0
<1>1. s \in Seq(Chunk) /\ Len(s) \in Nat
  BY DEF Ordered
<1>2. SelectInSeq(s, LAMBDA node : node.qbase > c.qbase) = n
  BY DEF SelectInSeq
<1>3. Placed(s, c) = IF n = 0 THEN Append(s, c) ELSE InsertAt(s, n, c)
  BY <1>2 DEF Placed
<1>4. \A i \in 1..Len(s) : End(s[i]) <= c.qbase \/ End(c) <= s[i].qbase
  <2> TAKE i \in 1..Len(s)
  <2>1. s[i] \in Chunk
    BY <1>1
  <2>2. \A q \in Nat : ~(In(s[i], q) /\ In(c, q))
    BY DEF Free
  <2> QED
    BY <2>1, <2>2, Disjoint
<1>5. \A i \in 1..Len(s) : s[i].qbase \in Nat /\ End(s[i]) \in Nat /\ s[i].qbase < End(s[i])
  BY <1>1, ChunkIs
<1>6. c.qbase \in Nat /\ End(c) \in Nat /\ c.qbase < End(c)
  BY ChunkIs
<1>7. CASE I = {}
  <2>1. Placed(s, c) = s \o <<c>>
    BY <1>1, <1>3, <1>7, AppendIsConcat
  <2>2. ASSUME NEW i \in 1..Len(s) PROVE End(s[i]) + 0 <= c.qbase
    <3>1. ~(s[i].qbase > c.qbase)
      BY <1>7
    <3>2. End(s[i]) <= c.qbase \/ End(c) <= s[i].qbase
      BY <1>4
    <3>3. s[i].qbase \in Nat /\ End(s[i]) \in Nat
      BY <1>5
    <3> QED
      BY <1>6, <3>1, <3>2, <3>3
  <2>3. Ordered(<<c>>, 0) /\ Before(s, <<c>>, 0) /\ \A q : Free(<<c>>, q) <=> In(c, q)
    BY <2>2, Single
  <2>4. Ordered(s \o <<c>>, 0)
    BY <2>3, JoinedOrder
  <2>5. <<c>> \in Seq(Chunk) /\ Len(<<c>>) = 1 /\ <<c>>[1] = c
    OBVIOUS
  <2>6. \A q : Free(s \o <<c>>, q) <=> Free(s, q) \/ In(c, q)
    BY <1>1, <2>3, <2>5, JoinedFree
  <2>7. Len(s) + 1 \in 1..Len(s \o <<c>>) /\ (s \o <<c>>)[Len(s) + 1] = c
    BY <1>1, <2>5
  <2> QED
    BY <2>1, <2>4, <2>6, <2>7
<1>8. CASE I # {}
  <2>1. n \in 1..Len(s) /\ s[n].qbase > c.qbase /\ \A i \in 1..Len(s) : i < n => ~(s[i].qbase > c.qbase)
    <3>1. I \in SUBSET Nat
      OBVIOUS
    <3>2. Min(I) \in I /\ \A i \in I : Min(I) <= i
      <4> HIDE DEF I
      <4> QED
        BY <1>8, <3>1, MinIsLeast
    <3>3. n = Min(I)
      BY <1>8
    <3> HIDE DEF n
    <3>4. n \in I /\ \A i \in I : n <= i
      BY <3>2, <3>3
    <3>5. n \in 1..Len(s) /\ s[n].qbase > c.qbase
      BY <3>4
    <3>6. ASSUME NEW i \in 1..Len(s), i < n, s[i].qbase > c.qbase PROVE FALSE
      <4>1. i \in I
        BY <3>6
      <4> HIDE DEF I
      <4> QED
        BY <3>4, <3>5, <3>6, <4>1
    <3> QED
      BY <3>5, <3>6
  <2> HIDE DEF n
  <2>2. Placed(s, c) = SubSeq(s, 1, n - 1) \o <<c>> \o SubSeq(s, n, Len(s))
    BY <1>3, <2>1 DEF InsertAt
  <2>3. /\ n - 1 \in 0..Len(s) /\ n \in 1..(Len(s) + 1) /\ 1 \in 1..(Len(s) + 1)
        /\ Len(s) \in 0..Len(s) /\ n <= Len(s) + 1
    BY <1>1, <2>1
  <2>4. Before(SubSeq(s, 1, n - 1), <<c>>, 0)
    <3>1. /\ Len(SubSeq(s, 1, n - 1)) = n - 1 - 1 + 1
          /\ \A i \in 1..(n - 1 - 1 + 1) : SubSeq(s, 1, n - 1)[i] = s[1 + i - 1]
      BY <1>1, <2>3, Cut
    <3>2. ASSUME NEW i \in 1..Len(SubSeq(s, 1, n - 1)) PROVE End(SubSeq(s, 1, n - 1)[i]) + 0 <= c.qbase
      <4>1. i \in 1..(n - 1 - 1 + 1) /\ i \in 1..Len(s) /\ i < n /\ 1 + i - 1 = i
        BY <2>1, <3>1
      <4>2. SubSeq(s, 1, n - 1)[i] = s[i]
        BY <3>1, <4>1
      <4>3. ~(s[i].qbase > c.qbase) /\ (End(s[i]) <= c.qbase \/ End(c) <= s[i].qbase)
        BY <1>4, <2>1, <4>1
      <4>4. s[i].qbase \in Nat /\ End(s[i]) \in Nat
        BY <1>5, <4>1
      <4>5. End(s[i]) + 0 <= c.qbase
        BY <4>3, <4>4, <1>6
      <4> QED
        BY <4>2, <4>5
    <3> QED
      BY <3>2, Single
  <2>5. Before(<<c>>, SubSeq(s, n, Len(s)), 0)
    <3>1. /\ Len(SubSeq(s, n, Len(s))) = Len(s) - n + 1
          /\ \A i \in 1..(Len(s) - n + 1) : SubSeq(s, n, Len(s))[i] = s[n + i - 1]
      BY <1>1, <2>3, Cut
    <3>2. ASSUME NEW i \in 1..Len(SubSeq(s, n, Len(s)))
          PROVE  End(c) + 0 <= SubSeq(s, n, Len(s))[i].qbase
      <4>1. i \in 1..(Len(s) - n + 1) /\ n + i - 1 \in 1..Len(s) /\ n <= n + i - 1
        BY <2>1, <3>1
      <4>2. SubSeq(s, n, Len(s))[i] = s[n + i - 1]
        BY <3>1, <4>1
      <4>3. s[n].qbase <= s[n + i - 1].qbase
        <5>1. CASE n = n + i - 1
          BY <5>1, <1>5, <4>1
        <5>2. CASE n < n + i - 1
          <6>1. End(s[n]) + 0 <= s[n + i - 1].qbase
            BY <5>2, <2>1, <4>1, Zenon DEF Ordered
          <6>2. s[n].qbase \in Nat /\ End(s[n]) \in Nat /\ s[n].qbase < End(s[n])
            BY <1>5, <2>1
          <6>3. s[n + i - 1].qbase \in Nat
            BY <1>5, <4>1
          <6> QED
            BY <6>1, <6>2, <6>3
        <5> QED
          BY <1>1, <2>1, <4>1, <5>1, <5>2
      <4>4. End(c) <= s[n + i - 1].qbase
        <5>1. End(s[n + i - 1]) <= c.qbase \/ End(c) <= s[n + i - 1].qbase
          BY <1>4, <4>1
        <5>2. s[n + i - 1].qbase < End(s[n + i - 1]) /\ s[n + i - 1].qbase \in Nat /\ End(s[n + i - 1]) \in Nat
              /\ s[n].qbase \in Nat
          BY <1>5, <4>1, <2>1
        <5> QED
          BY <5>1, <5>2, <4>3, <2>1, <1>6
      <4> QED
        BY <4>2, <4>4, <1>6
    <3> QED
      BY <3>2, Single
  <2>6. Ordered(<<c>>, 0) /\ \A q : Free(<<c>>, q) <=> In(c, q)
    BY Single
  <2>7. /\ Ordered(Placed(s, c), 0)
        /\ \A q : Free(Placed(s, c), q) <=> \/ \E i \in 1..(n - 1) : In(s[i], q)
                                            \/ Free(<<c>>, q)
                                            \/ \E i \in n..Len(s) : In(s[i], q)
    <3>1. n <= n /\ 0 \in Nat
      BY <2>3
    <3>2. SplicedRight(s, n, n, <<c>>, Placed(s, c), 0)
      BY <2>2, <2>3, <2>4, <2>5, <2>6, <3>1, Spliced
    <3> QED
      BY <3>2, Zenon DEF SplicedRight
  <2>8. \A q : Free(s, q) <=> (\E i \in 1..(n - 1) : In(s[i], q)) \/ (\E i \in n..Len(s) : In(s[i], q))
    BY <1>1, <2>1 DEF Free
  <2>9. \E k \in 1..Len(Placed(s, c)) : Placed(s, c)[k] = c
    <3>1. SubSeq(s, 1, n - 1) \in Seq(Chunk) /\ SubSeq(s, n, Len(s)) \in Seq(Chunk)
          /\ Len(SubSeq(s, 1, n - 1)) = n - 1 - 1 + 1
      BY <1>1, <2>3, Cut
    <3> DEFINE a == SubSeq(s, 1, n - 1)
               b == SubSeq(s, n, Len(s))
    <3> HIDE DEF a, b
    <3>2. a \in Seq(Chunk) /\ b \in Seq(Chunk) /\ Placed(s, c) = (a \o <<c>>) \o b
      BY <3>1, <2>2 DEF a, b
    <3>3. Len(a) + 1 \in 1..Len((a \o <<c>>) \o b) /\ ((a \o <<c>>) \o b)[Len(a) + 1] = c
      BY <3>2
    <3> QED
      BY <3>2, <3>3
  <2> QED
    BY <2>6, <2>7, <2>8, <2>9, Zenon
<1> QED
  BY <1>7, <1>8

(* A chunk of the list holds all queues of c. *)
Holds(s, c) == \E k \in 1..Len(s) : s[k].qbase <= c.qbase /\ End(c) <= End(s[k])

EndBy(s, b) == \A i \in 1..Len(s) : End(s[i]) <= b

(* A chunk that is widened by the queues behind it. *)
LEMMA Widened ==
  ASSUME NEW d \in Chunk, NEW c \in Chunk, End(d) = c.qbase
  PROVE  /\ [d EXCEPT !.total_q = @ + c.total_q] \in Chunk
         /\ [d EXCEPT !.total_q = @ + c.total_q].qbase = d.qbase
         /\ End([d EXCEPT !.total_q = @ + c.total_q]) = End(c)
BY DEF Chunk, End

LEMMA StretchedRight ==
  ASSUME NEW s, Ordered(s, 1), NEW c \in Chunk, EndBy(s, c.qbase)
  PROVE  /\ Ordered(Stretched(s, c), 1)
         /\ \A q \in Nat : Free(Stretched(s, c), q) <=> Free(s, q) \/ In(c, q)
         /\ \A d \in Chunk : Holds(s, d) => Holds(Stretched(s, c), d)
         /\ Holds(Stretched(s, c), c)
         /\ EndBy(Stretched(s, c), End(c))
<1>1. s \in Seq(Chunk) /\ Len(s) \in Nat
  BY DEF Ordered
<1>2. c.qbase \in Nat /\ End(c) \in Nat /\ c.qbase < End(c)
  BY ChunkIs
<1>3. \A i \in 1..Len(s) : s[i] \in Chunk /\ s[i].qbase \in Nat /\ End(s[i]) \in Nat
                           /\ s[i].qbase < End(s[i]) /\ End(s[i]) <= c.qbase
  BY <1>1, ChunkIs DEF EndBy
<1>4. CASE s # <<>> /\ End(Last(s)) = c.qbase
  <2> DEFINE n == Len(s)
             e == [s[n] EXCEPT !.total_q = @ + c.total_q]
             t == [s EXCEPT ![n] = e]
  <2>1. n \in 1..Len(s)
    BY <1>1, <1>4
  <2>2. Last(s) = s[n]
    BY DEF Last
  <2>3. e \in Chunk /\ e.qbase = s[n].qbase /\ End(e) = End(c)
    BY <1>3, <1>4, <2>1, <2>2, Widened
  <2>4. Stretched(s, c) = t
    BY <1>4 DEF Stretched
  <2> HIDE DEF e
  <2>5. t \in Seq(Chunk) /\ Len(t) = n /\ \A i \in 1..n : t[i] = IF i = n THEN e ELSE s[i]
    BY <1>1, <2>1, <2>3
  <2> HIDE DEF t, n
  <2>6. n = Len(s)
    BY DEF n
  <2>7. \A i \in 1..n : /\ t[i].qbase = s[i].qbase /\ s[i].qbase \in Nat
                        /\ i # n => End(t[i]) = End(s[i])
                        /\ End(t[n]) = End(c)
    BY <1>3, <2>1, <2>3, <2>5, <2>6
  <2>8. Ordered(t, 1)
    <3>1. ASSUME NEW i \in 1..Len(t), NEW j \in 1..Len(t), i < j PROVE End(t[i]) + 1 <= t[j].qbase
      <4>1. i \in 1..n /\ j \in 1..n /\ i # n
        BY <1>1, <2>5, <2>6, <3>1
      <4>2. End(t[i]) = End(s[i]) /\ t[j].qbase = s[j].qbase
        BY <2>7, <4>1
      <4>3. End(s[i]) + 1 <= s[j].qbase
        BY <2>6, <3>1, <4>1, Zenon DEF Ordered
      <4> QED
        BY <4>2, <4>3
    <3> QED
      BY <2>5, <3>1 DEF Ordered
  <2>9. ASSUME NEW q \in Nat PROVE Free(t, q) <=> Free(s, q) \/ In(c, q)
    <3>1. \A i \in 1..n : i # n => (In(t[i], q) <=> In(s[i], q))
      BY <2>7 DEF In
    <3>2. In(t[n], q) <=> In(s[n], q) \/ In(c, q)
      <4>1. t[n].qbase = s[n].qbase /\ End(t[n]) = End(c) /\ End(s[n]) = c.qbase
        BY <2>1, <2>2, <2>6, <2>7, <1>4
      <4>2. s[n].qbase \in Nat /\ s[n].qbase < End(s[n])
        BY <1>3, <2>1
      <4>3. In(t[n], q) <=> s[n].qbase <= q /\ q < End(c)
        BY <4>1 DEF In
      <4>4. In(s[n], q) <=> s[n].qbase <= q /\ q < c.qbase
        BY <4>1 DEF In
      <4>5. In(c, q) <=> c.qbase <= q /\ q < End(c)
        BY DEF In
      <4> QED
        BY <4>2, <4>3, <4>4, <4>5, <1>2, <4>1
    <3> QED
      BY <3>1, <3>2, <2>1, <2>5, <2>6 DEF Free
  <2>10. \A d \in Chunk : Holds(s, d) => Holds(t, d)
    <3> SUFFICES ASSUME NEW d \in Chunk, NEW k \in 1..Len(s), s[k].qbase <= d.qbase, End(d) <= End(s[k])
                 PROVE  Holds(t, d)
      BY DEF Holds
    <3>1. k \in 1..Len(t) /\ t[k].qbase <= d.qbase
      BY <2>5, <2>6, <2>7
    <3>2. End(d) <= End(t[k])
      <4>1. k # n => End(t[k]) = End(s[k])
        BY <2>6, <2>7
      <4>2. k = n => End(t[k]) = End(c)
        BY <2>6, <2>7
      <4>3. End(s[k]) \in Nat /\ End(s[k]) <= c.qbase /\ End(d) \in Nat
        BY <1>3, ChunkIs
      <4> QED
        BY <4>1, <4>2, <4>3, <1>2
    <3> QED
      BY <3>1, <3>2 DEF Holds
  <2>11. Holds(t, c)
    <3>1. n \in 1..Len(t) /\ t[n].qbase = s[n].qbase /\ End(t[n]) = End(c)
      BY <2>1, <2>5, <2>6, <2>7
    <3>2. s[n].qbase \in Nat /\ s[n].qbase < End(s[n]) /\ End(s[n]) <= c.qbase /\ End(s[n]) \in Nat
      BY <1>3, <2>1
    <3> QED
      BY <3>1, <3>2, <1>2 DEF Holds
  <2>12. EndBy(t, End(c))
    <3> SUFFICES ASSUME NEW i \in 1..Len(t) PROVE End(t[i]) <= End(c)
      BY DEF EndBy
    <3>1. i \in 1..n /\ i \in 1..Len(s)
      BY <2>5, <2>6
    <3>2. End(s[i]) \in Nat /\ End(s[i]) <= c.qbase
      BY <1>3, <3>1
    <3>3. (i # n => End(t[i]) = End(s[i])) /\ (i = n => End(t[i]) = End(c))
      BY <2>7, <3>1
    <3> QED
      BY <1>2, <3>2, <3>3
  <2> QED
    BY <2>4, <2>8, <2>9, <2>10, <2>11, <2>12
<1>5. CASE ~(s # <<>> /\ End(Last(s)) = c.qbase)
  <2>1. Stretched(s, c) = s \o <<c>>
    BY <1>1, <1>5, AppendIsConcat DEF Stretched
  <2>2. ASSUME NEW i \in 1..Len(s) PROVE End(s[i]) + 1 <= c.qbase
    <3>1. Len(s) \in 1..Len(s) /\ s # <<>> /\ Last(s) = s[Len(s)]
      BY <1>1 DEF Last
    <3>2. End(s[Len(s)]) # c.qbase /\ End(s[Len(s)]) <= c.qbase /\ End(s[Len(s)]) \in Nat
      BY <1>3, <1>5, <3>1
    <3>3. CASE i = Len(s)
      BY <1>2, <3>2, <3>3
    <3>4. CASE i # Len(s)
      <4>1. i < Len(s)
        BY <1>1, <3>4
      <4>2. End(s[i]) + 1 <= s[Len(s)].qbase
        BY <3>1, <4>1, Zenon DEF Ordered
      <4>3. s[Len(s)].qbase \in Nat /\ s[Len(s)].qbase < End(s[Len(s)]) /\ End(s[i]) \in Nat
        BY <1>3, <3>1
      <4> QED
        BY <1>2, <3>2, <4>2, <4>3
    <3> QED
      BY <3>3, <3>4
  <2>3. Ordered(<<c>>, 1) /\ Before(s, <<c>>, 1) /\ \A q : Free(<<c>>, q) <=> In(c, q)
    BY <2>2, Single
  <2>4. Ordered(s \o <<c>>, 1)
    BY <2>3, JoinedOrder
  <2>5. <<c>> \in Seq(Chunk) /\ Len(<<c>>) = 1 /\ <<c>>[1] = c
    OBVIOUS
  <2>6. \A q : Free(s \o <<c>>, q) <=> Free(s, q) \/ In(c, q)
    BY <1>1, <2>3, <2>5, JoinedFree
  <2> DEFINE t == s \o <<c>>
  <2>7. Len(t) = Len(s) + 1 /\ t[Len(s) + 1] = c /\ \A i \in 1..Len(s) : t[i] = s[i]
    BY <1>1, <2>5
  <2> HIDE DEF t
  <2>8. \A d \in Chunk : Holds(s, d) => Holds(t, d)
    <3> SUFFICES ASSUME NEW d \in Chunk, NEW k \in 1..Len(s), s[k].qbase <= d.qbase, End(d) <= End(s[k])
                 PROVE  Holds(t, d)
      BY DEF Holds
    <3>1. k \in 1..Len(t) /\ t[k] = s[k]
      BY <1>1, <2>7
    <3> QED
      BY <3>1 DEF Holds
  <2>9. Holds(t, c)
    <3>1. Len(s) + 1 \in 1..Len(t) /\ t[Len(s) + 1] = c
      BY <1>1, <2>7
    <3>2. c.qbase <= c.qbase /\ End(c) <= End(c)
      BY <1>2
    <3> QED
      BY <3>1, <3>2, Zenon DEF Holds
  <2>10. EndBy(t, End(c))
    <3> SUFFICES ASSUME NEW i \in 1..Len(t) PROVE End(t[i]) <= End(c)
      BY DEF EndBy
    <3>1. CASE i = Len(s) + 1
      BY <1>2, <2>7, <3>1
    <3>2. CASE i \in 1..Len(s)
      <4>1. t[i] = s[i] /\ End(s[i]) <= c.qbase /\ End(s[i]) \in Nat
        BY <1>3, <2>7, <3>2
      <4> QED
        BY <1>2, <4>1
    <3> QED
      BY <1>1, <2>7, <3>1, <3>2
  <2>11. t = s \o <<c>>
    BY DEF t
  <2> QED
    BY <2>1, <2>4, <2>6, <2>8, <2>9, <2>10, <2>11, Zenon
<1> QED
  BY <1>4, <1>5

(* The loop of Merged over the first n chunks. *)
MergedBy(s, n, f) == f = [k \in 0..n |-> IF k = 0 THEN <<>> ELSE Stretched(f[k - 1], s[k])]

LEMMA MergedExists ==
  ASSUME NEW s, NEW n \in Nat
  PROVE  \E f : MergedBy(s, n, f)
<1> DEFINE T == {m \in Nat : ~ \E f : MergedBy(s, m, f)}
<1> SUFFICES ASSUME T # {} PROVE FALSE
  OBVIOUS
<1>1. PICK m \in T : \A k \in T : m <= k
  <2>1. T \in SUBSET Nat
    OBVIOUS
  <2> HIDE DEF T
  <2> QED
    BY <2>1, LeastNat
<1>2. m # 0
  <2> DEFINE z == [k \in 0..0 |-> <<>>]
  <2>1. \A k \in 0..0 : k = 0
    OBVIOUS
  <2>2. z = [k \in 0..0 |-> IF k = 0 THEN <<>> ELSE Stretched(z[k - 1], s[k])]
    BY <2>1
  <2> HIDE DEF z
  <2>3. MergedBy(s, 0, z)
    BY <2>2, Zenon DEF MergedBy
  <2> QED
    BY <2>3
<1>3. m - 1 \in Nat /\ m - 1 \notin T /\ m \in Nat
  <2>1. m \in Nat /\ m - 1 \in Nat /\ ~(m <= m - 1)
    BY <1>2
  <2> HIDE DEF T
  <2> QED
    BY <2>1, <1>1
<1>4. PICK f : MergedBy(s, m - 1, f)
  BY <1>3
<1> DEFINE last == Stretched(f[m - 1], s[m])
           g == [k \in 0..m |-> IF k = m THEN last ELSE f[k]]
           step(k) == IF k = 0 THEN <<>> ELSE Stretched(g[k - 1], s[k])
<1>5. \A k \in 0..m : g[k] = IF k = m THEN last ELSE f[k]
  OBVIOUS
<1>6. \A k \in 0..(m - 1) : f[k] = IF k = 0 THEN <<>> ELSE Stretched(f[k - 1], s[k])
  BY <1>4, Zenon DEF MergedBy
<1>7. ASSUME NEW k \in 0..m PROVE g[k] = step(k)
  <2>1. CASE k = m
    <3>1. k # 0 /\ k - 1 \in 0..m /\ k - 1 # m
      BY <2>1, <1>2, <1>3
    <3> HIDE DEF g
    <3>2. g[k - 1] = f[k - 1]
      BY <3>1, <1>5, Zenon
    <3>3. g[k] = last
      BY <2>1, <1>5, Zenon
    <3> QED
      BY <3>1, <3>2, <3>3, <2>1, Zenon
  <2>2. CASE k # m
    <3>1. k \in 0..(m - 1) /\ (k # 0 => k - 1 \in 0..m /\ k - 1 # m)
      BY <2>2, <1>3
    <3> HIDE DEF g, last
    <3>2. k # 0 => g[k - 1] = f[k - 1]
      BY <3>1, <1>5, Zenon
    <3>3. g[k] = f[k]
      BY <2>2, <1>5, Zenon
    <3>4. f[k] = IF k = 0 THEN <<>> ELSE Stretched(f[k - 1], s[k])
      BY <3>1, <1>6, Zenon
    <3> QED
      BY <3>2, <3>3, <3>4, Zenon
  <2> QED
    BY <2>1, <2>2
<1>8. g = [k \in 0..m |-> g[k]]
  OBVIOUS
<1> HIDE DEF g
<1>9. MergedBy(s, m, g)
  BY <1>7, <1>8, Zenon DEF MergedBy
<1> QED
  BY <1>9

(* What the loop has made of the first k chunks. *)
MergedTo(s, k, t) ==
  /\ Ordered(t, 1)
  /\ \A q \in Nat : Free(t, q) <=> \E i \in 1..k : In(s[i], q)
  /\ \A i \in 1..k : Holds(t, s[i])
  /\ \A j \in (k + 1)..Len(s) : EndBy(t, s[j].qbase)

LEMMA MergedStep ==
  ASSUME NEW s, Ordered(s, 0), NEW k \in 1..Len(s), NEW t, MergedTo(s, k - 1, t)
  PROVE  MergedTo(s, k, Stretched(t, s[k]))
<1> DEFINE u == Stretched(t, s[k])
<1>1. s \in Seq(Chunk) /\ Len(s) \in Nat /\ s[k] \in Chunk /\ \A i \in 1..Len(s) : s[i] \in Chunk
  BY DEF Ordered
<1>2. (k - 1) + 1 = k /\ k \in k..Len(s)
  BY <1>1
<1>3. EndBy(t, s[k].qbase)
  BY <1>2 DEF MergedTo
<1>4. Ordered(t, 1)
  BY DEF MergedTo
<1>5. /\ Ordered(u, 1)
      /\ \A q \in Nat : Free(u, q) <=> Free(t, q) \/ In(s[k], q)
      /\ \A d \in Chunk : Holds(t, d) => Holds(u, d)
      /\ Holds(u, s[k])
      /\ EndBy(u, End(s[k]))
  BY <1>1, <1>3, <1>4, StretchedRight, Zenon
<1> HIDE DEF u
<1>6. \A i \in 1..k : i = k \/ i \in 1..(k - 1)
  OBVIOUS
<1>7. \A i \in 1..(k - 1) : i \in 1..k /\ i \in 1..Len(s)
  BY <1>1
<1>8. \A q \in Nat : Free(u, q) <=> \E i \in 1..k : In(s[i], q)
  <2> TAKE q \in Nat
  <2>1. Free(t, q) <=> \E i \in 1..(k - 1) : In(s[i], q)
    BY Zenon DEF MergedTo
  <2>2. k \in 1..k
    OBVIOUS
  <2> QED
    BY <1>5, <1>6, <1>7, <2>1, <2>2, Zenon
<1>9. \A i \in 1..k : Holds(u, s[i])
  <2> TAKE i \in 1..k
  <2>1. CASE i = k
    BY <1>5, <2>1
  <2>2. CASE i \in 1..(k - 1)
    <3>1. Holds(t, s[i])
      BY <2>2, Zenon DEF MergedTo
    <3> QED
      BY <1>1, <1>5, <1>7, <2>2, <3>1, Zenon
  <2> QED
    BY <1>6, <2>1, <2>2
<1>10. \A j \in (k + 1)..Len(s) : EndBy(u, s[j].qbase)
  <2> TAKE j \in (k + 1)..Len(s)
  <2>1. j \in 1..Len(s) /\ k < j
    BY <1>1
  <2>2. End(s[k]) + 0 <= s[j].qbase
    BY <2>1, Zenon DEF Ordered
  <2>3. ASSUME NEW i \in 1..Len(u) PROVE End(u[i]) <= s[j].qbase
    <3>1. End(u[i]) <= End(s[k])
      BY <1>5, Zenon DEF EndBy
    <3>2. u[i] \in Chunk
      BY <1>5 DEF Ordered
    <3>3. End(u[i]) \in Nat /\ End(s[k]) \in Nat /\ s[j].qbase \in Nat
      BY <1>1, <2>1, <3>2, ChunkIs
    <3> QED
      BY <2>2, <3>1, <3>3
  <2> QED
    BY <2>3, Zenon DEF EndBy
<1> QED
  BY <1>5, <1>8, <1>9, <1>10, Zenon DEF MergedTo, u

LEMMA MergedRight ==
  ASSUME NEW s, Ordered(s, 0)
  PROVE  /\ Ordered(Merged(s), 1)
         /\ \A q \in Nat : Free(Merged(s), q) <=> Free(s, q)
         /\ \A i \in 1..Len(s) : Holds(Merged(s), s[i])
<1>1. s \in Seq(Chunk) /\ Len(s) \in Nat
  BY DEF Ordered
<1>2. PICK f : MergedBy(s, Len(s), f)
  BY <1>1, MergedExists
<1> DEFINE g == CHOOSE h : MergedBy(s, Len(s), h)
<1>3. Merged(s) = g[Len(s)]
  BY Zenon DEF Merged, MergedBy
<1>4. MergedBy(s, Len(s), g)
  BY <1>2, Zenon
<1> HIDE DEF g
<1>5. \A k \in 0..Len(s) : g[k] = IF k = 0 THEN <<>> ELSE Stretched(g[k - 1], s[k])
  BY <1>4, Zenon DEF MergedBy
<1> DEFINE T == {k \in 0..Len(s) : ~MergedTo(s, k, g[k])}
<1>6. T = {}
  <2> SUFFICES ASSUME T # {} PROVE FALSE
    OBVIOUS
  <2>1. PICK m \in T : \A k \in T : m <= k
    <3>1. T \in SUBSET Nat
      BY <1>1
    <3> HIDE DEF T
    <3> QED
      BY <3>1, LeastNat
  <2>2. m \in 0..Len(s) /\ ~MergedTo(s, m, g[m])
    OBVIOUS
  <2>3. CASE m = 0
    <3>1. g[0] = <<>>
      BY <1>1, <1>5
    <3>2. Ordered(<<>>, 1) /\ \A q : ~Free(<<>>, q)
      BY NoChunks
    <3>3. \A b : EndBy(<<>>, b)
      <4>1. Len(<<>>) = 0 /\ 1..0 = {}
        OBVIOUS
      <4> QED
        BY <4>1 DEF EndBy
    <3>4. 1..0 = {}
      OBVIOUS
    <3>5. MergedTo(s, 0, <<>>)
      BY <3>2, <3>3, <3>4, Zenon DEF MergedTo
    <3> QED
      BY <2>2, <2>3, <3>1, <3>5
  <2>4. CASE m # 0
    <3>1. m \in 1..Len(s) /\ m - 1 \in 0..Len(s) /\ ~(m <= m - 1)
      BY <1>1, <2>2, <2>4
    <3>2. m - 1 \notin T
      <4> HIDE DEF T
      <4> QED
        BY <2>1, <3>1
    <3>3. MergedTo(s, m - 1, g[m - 1])
      BY <3>1, <3>2
    <3>4. MergedTo(s, m, Stretched(g[m - 1], s[m]))
      BY <3>1, <3>3, MergedStep
    <3>5. g[m] = Stretched(g[m - 1], s[m])
      BY <1>5, <2>2, <2>4, Zenon
    <3> QED
      BY <2>2, <3>4, <3>5
  <2> QED
    BY <2>3, <2>4
<1>7. MergedTo(s, Len(s), Merged(s))
  <2>1. Len(s) \in 0..Len(s)
    BY <1>1
  <2> QED
    BY <1>3, <1>6, <2>1
<1> QED
  BY <1>7, Zenon DEF MergedTo, Free

(* Giving a range back: it is free again, in one chunk. *)
LEMMA SubmittedRight ==
  ASSUME NEW s, Ordered(s, 0), NEW c \in Chunk, \A q \in Nat : ~(Free(s, q) /\ In(c, q))
  PROVE  /\ Ordered(SubmitToFreeList(s, c), 1)
         /\ \A q \in Nat : Free(SubmitToFreeList(s, c), q) <=> Free(s, q) \/ In(c, q)
         /\ Holds(SubmitToFreeList(s, c), c)
<1> DEFINE p == Placed(s, c)
<1>1. Ordered(p, 0) /\ (\A q : Free(p, q) <=> Free(s, q) \/ In(c, q)) /\ \E k \in 1..Len(p) : p[k] = c
  BY PlacedRight
<1> HIDE DEF p
<1>2. c.total_q # 0
  BY ChunkIs
<1>3. SubmitToFreeList(s, c) = Merged(p)
  BY <1>2 DEF SubmitToFreeList, p
<1>4. /\ Ordered(Merged(p), 1)
      /\ \A q \in Nat : Free(Merged(p), q) <=> Free(p, q)
      /\ \A i \in 1..Len(p) : Holds(Merged(p), p[i])
  BY <1>1, MergedRight, Zenon
<1>5. Holds(Merged(p), c)
  BY <1>1, <1>4, Zenon
<1> QED
  BY <1>1, <1>3, <1>4, <1>5, Zenon

-----------------------------------------------------------------------------
(* Taking: the chunk that is chosen, and what is left of it. *)

LEMMA MostNat ==
  ASSUME NEW n \in Nat, NEW T \in SUBSET (0..n), T # {}
  PROVE  \E m \in T : \A k \in T : k <= m
<1> DEFINE U == {n - k : k \in T}
<1>1. U \in SUBSET Nat /\ U # {}
  OBVIOUS
<1>2. PICK u \in U : \A v \in U : u <= v
  <2> HIDE DEF U
  <2> QED
    BY <1>1, LeastNat
<1>3. PICK m \in T : u = n - m
  OBVIOUS
<1>4. ASSUME NEW k \in T PROVE k <= m
  <2>1. n - k \in U
    OBVIOUS
  <2>2. u <= n - k
    BY <1>2, <2>1
  <2>3. k \in 0..n /\ m \in 0..n
    OBVIOUS
  <2> QED
    BY <1>3, <2>2, <2>3
<1> QED
  BY <1>4

Spans(c, b, n) == c.qbase <= b /\ End(c) >= b + n

LEMMA ChosenIs ==
  ASSUME NEW gap, NEW s, Ordered(s, gap), NEW qmax \in Nat, NEW qbase \in Int,
         NEW n, n = ChosenNode(qmax, qbase, s)
  PROVE  /\ n = 0 \/ (n \in 1..Len(s) /\ s[n].total_q >= qmax)
         /\ qbase >= 0 /\ (\E i \in 1..Len(s) : Spans(s[i], qbase, qmax))
              => n \in 1..Len(s) /\ Spans(s[n], qbase, qmax)
<1>1. s \in Seq(Chunk) /\ Len(s) \in Nat /\ DOMAIN s = 1..Len(s)
  BY DEF Ordered
<1>2. \A i \in 1..Len(s) : s[i].qbase \in Nat /\ s[i].total_q \in Nat /\ End(s[i]) = s[i].qbase + s[i].total_q
  BY <1>1, ChunkIs DEF End
<1> DEFINE I == {i \in 1..Len(s) : s[i].qbase <= qbase /\ End(s[i]) >= qbase + qmax}
           first == IF I # {} THEN Min(I) ELSE 0
           fits == {i \in DOMAIN s : s[i].total_q >= qmax}
           best == {i \in fits : \A j \in fits : s[i].total_q <= s[j].total_q}
           last == CHOOSE i \in best : \A j \in best : j <= i
           honours == IF qbase < 0 THEN 0 ELSE first
<1>4. n = IF honours # 0 THEN honours ELSE IF best = {} THEN 0 ELSE last
  BY Zenon DEF ChosenNode, SelectInSeq
<1>5. I # {} => first \in I
  <2>1. I \in SUBSET Nat
    OBVIOUS
  <2> HIDE DEF I
  <2> QED
    BY <2>1, MinIsLeast
<1>6. first = 0 \/ first \in I
  BY <1>5
<1>7. best # {} => last \in best
  <2>1. best \in SUBSET (0..Len(s))
    BY <1>1
  <2> HIDE DEF best
  <2>2. best # {} => \E i \in best : \A j \in best : j <= i
    BY <1>1, <2>1, MostNat
  <2> QED
    BY <2>2
<1>8. \A i \in I : i \in 1..Len(s) /\ s[i].qbase <= qbase /\ End(s[i]) >= qbase + qmax
  OBVIOUS
<1>9. \A i \in best : i \in 1..Len(s) /\ s[i].total_q >= qmax
  BY <1>1
<1>10. \A i \in I : s[i].total_q >= qmax
  BY <1>2, <1>8
<1>11. I # {} => first # 0
  BY <1>5, <1>8
<1>12. (\E i \in 1..Len(s) : Spans(s[i], qbase, qmax)) => I # {}
  BY DEF Spans
<1>13. \A i \in I : Spans(s[i], qbase, qmax)
  BY DEF Spans
<1>14. ~(qbase < 0) \/ ~(qbase >= 0)
  OBVIOUS
<1> HIDE DEF I, first, best, last
<1>15. n = 0 \/ (n \in 1..Len(s) /\ s[n].total_q >= qmax)
  BY <1>4, <1>6, <1>7, <1>8, <1>9, <1>10, Zenon
<1>16. ASSUME qbase >= 0, \E i \in 1..Len(s) : Spans(s[i], qbase, qmax)
       PROVE  n \in 1..Len(s) /\ Spans(s[n], qbase, qmax)
  <2>1. honours = first /\ first # 0 /\ first \in I
    BY <1>5, <1>11, <1>12, <1>14, <1>16, Zenon
  <2> QED
    BY <1>4, <1>8, <1>13, <2>1, Zenon
<1> QED
  BY <1>15, <1>16

(* What is left on one side of a range: the queues from b up to e, if any. *)
RestRight(s, b, e, gap) ==
  /\ Ordered(s, gap)
  /\ \A q \in Nat : Free(s, q) <=> b <= q /\ q < e
  /\ \A i \in 1..Len(s) : s[i].qbase = b /\ End(s[i]) = e /\ b # e

LEMMA RestIs ==
  ASSUME NEW gap \in Nat, NEW b \in Nat, NEW n \in Nat, NEW e, e = b + n
  PROVE  RestRight(Rest(b, n), b, e, gap)
<1>1. CASE n = 0
  <2>1. Rest(b, n) = <<>> /\ Len(<<>>) = 0 /\ 1..0 = {}
    BY <1>1 DEF Rest
  <2>2. Ordered(<<>>, gap) /\ \A q : ~Free(<<>>, q)
    BY NoChunks
  <2>3. \A q \in Nat : ~(b <= q /\ q < e)
    BY <1>1
  <2> QED
    BY <2>1, <2>2, <2>3, Zenon DEF RestRight
<1>2. CASE n # 0
  <2> DEFINE c == [qbase |-> b, total_q |-> n]
  <2>1. c \in Chunk /\ c.qbase = b /\ End(c) = e /\ b # e
    BY <1>2, ChunkMade
  <2>2. Rest(b, n) = <<c>>
    BY <1>2 DEF Rest
  <2> HIDE DEF c
  <2>3. Ordered(<<c>>, gap) /\ \A q : Free(<<c>>, q) <=> In(c, q)
    BY <2>1, Single
  <2>4. Len(<<c>>) = 1 /\ \A i \in 1..1 : <<c>>[i] = c
    OBVIOUS
  <2>5. \A q \in Nat : In(c, q) <=> b <= q /\ q < e
    BY <2>1 DEF In
  <2> QED
    BY <2>1, <2>2, <2>3, <2>4, <2>5, Zenon DEF RestRight
<1> QED
  BY <1>1, <1>2

Entry == [qbase : Int, total_q : Nat]

(* What is left of the queues from x up to y without n of them from b on. *)
Around(x, y, b, n) == Rest(x, b - x) \o Rest(b + n, y - b - n)

SidesRight(p, x, y, b, n, gap) ==
  /\ Ordered(p, gap)
  /\ \A q \in Nat : Free(p, q) <=> (x <= q /\ q < b) \/ (b + n <= q /\ q < y)
  /\ \A k \in 1..Len(p) : p[k].qbase >= x /\ End(p[k]) <= y

LEMMA Sides ==
  ASSUME NEW gap \in Nat, gap <= 1, NEW x \in Nat, NEW y \in Nat, NEW b \in Nat, NEW n \in Nat,
         x <= b, b + n <= y, n > 0 \/ gap = 0 \/ b = x,
         NEW p, p = Around(x, y, b, n)
  PROVE  SidesRight(p, x, y, b, n, gap)
<1> DEFINE l == b - x
           r == y - b - n
           left == Rest(x, l)
           right == Rest(b + n, r)
<1>1. l \in Nat /\ r \in Nat /\ b + n \in Nat /\ x + l = b /\ b + n + r = y /\ (l = 0 => b = x)
  OBVIOUS
<1>2. p = left \o right
  BY Zenon DEF Around
<1> HIDE DEF l, r
<1>4. RestRight(left, x, b, gap)
  BY <1>1, RestIs
<1>5. RestRight(right, b + n, y, gap)
  BY <1>1, RestIs
<1> HIDE DEF left, right
<1>7. Before(left, right, gap)
  <2> SUFFICES ASSUME NEW j \in 1..Len(left), NEW k \in 1..Len(right)
               PROVE  End(left[j]) + gap <= right[k].qbase
    BY DEF Before
  <2>1. End(left[j]) = b /\ right[k].qbase = b + n
    BY <1>4, <1>5, Zenon DEF RestRight
  <2>2. b # x
    BY <1>4, Zenon DEF RestRight
  <2>3. gap <= n
    BY <2>2
  <2>4. b + gap <= b + n
    BY <2>3
  <2> QED
    BY <2>1, <2>4
<1>8. Ordered(p, gap)
  <2>1. Ordered(left, gap) /\ Ordered(right, gap)
    BY <1>4, <1>5 DEF RestRight
  <2> QED
    BY <1>2, <1>7, <2>1, JoinedOrder
<1>9. left \in Seq(Chunk) /\ right \in Seq(Chunk)
  BY <1>4, <1>5 DEF RestRight, Ordered
<1>10. \A q \in Nat : Free(p, q) <=> (x <= q /\ q < b) \/ (b + n <= q /\ q < y)
  <2> TAKE q \in Nat
  <2>1. Free(p, q) <=> Free(left, q) \/ Free(right, q)
    BY <1>2, <1>9, JoinedFree
  <2> QED
    BY <1>4, <1>5, <2>1, Zenon DEF RestRight
<1>11. \A k \in 1..Len(p) : p[k].qbase >= x /\ End(p[k]) <= y
  <2> TAKE k \in 1..Len(p)
  <2>1. /\ Len(left) \in Nat /\ Len(right) \in Nat
        /\ \A j \in 1..Len(left) : p[j] = left[j]
        /\ \A j \in 1..Len(right) : p[Len(left) + j] = right[j]
        /\ k \in 1..Len(left) \/ (k - Len(left) \in 1..Len(right) /\ k > Len(left))
    BY <1>2, <1>9, Joined
  <2>2. CASE k \in 1..Len(left)
    <3>1. p[k].qbase = x /\ End(p[k]) = b
      BY <1>4, <2>1, <2>2, Zenon DEF RestRight
    <3>2. x >= x /\ b <= y
      BY <1>1
    <3> QED
      BY <3>1, <3>2
  <2>3. CASE k - Len(left) \in 1..Len(right)
    <3>1. Len(left) + (k - Len(left)) = k
      BY <2>1
    <3>2. p[Len(left) + (k - Len(left))] = right[k - Len(left)]
      BY <2>1, <2>3, Zenon
    <3>3. p[k].qbase = b + n /\ End(p[k]) = y
      BY <1>5, <2>3, <3>1, <3>2, Zenon DEF RestRight
    <3>4. b + n >= x /\ y <= y
      OBVIOUS
    <3> QED
      BY <3>3, <3>4
  <2> QED
    BY <2>1, <2>2, <2>3
<1> QED
  BY <1>8, <1>10, <1>11, Zenon DEF SidesRight

(* A chunk replaced by others. *)
Replaced(s, i, p) == SubSeq(s, 1, i - 1) \o p \o SubSeq(s, i + 1, Len(s))

(* The queues from b on, n of them, taken out of the chunk at i. *)
OutRight(s, b, n, t, gap) ==
  /\ Ordered(t, gap)
  /\ \A q \in Nat : Free(s, q) <=> Free(t, q) \/ (b <= q /\ q < b + n)
  /\ \A q \in Nat : ~(Free(t, q) /\ b <= q /\ q < b + n)

LEMMA TakenOut ==
  ASSUME NEW gap \in Nat, gap <= 1, NEW s, Ordered(s, gap), NEW i \in 1..Len(s),
         NEW x \in Nat, NEW y \in Nat, s[i].qbase = x, End(s[i]) = y, x < y,
         NEW b \in Nat, NEW n \in Nat, x <= b, b + n <= y, n > 0 \/ gap = 0 \/ b = x,
         NEW p, p = Around(x, y, b, n), NEW t, t = Replaced(s, i, p)
  PROVE  OutRight(s, b, n, t, gap)
<1>1. s \in Seq(Chunk) /\ Len(s) \in Nat
  BY DEF Ordered
<1>8. /\ Ordered(p, gap)
      /\ \A q \in Nat : Free(p, q) <=> (x <= q /\ q < b) \/ (b + n <= q /\ q < y)
      /\ \A k \in 1..Len(p) : p[k].qbase >= x /\ End(p[k]) <= y
  <2>1. SidesRight(p, x, y, b, n, gap)
    BY Sides
  <2> QED
    BY <2>1, Zenon DEF SidesRight
<1>12. p \in Seq(Chunk) /\ \A k \in 1..Len(p) : p[k].qbase \in Nat /\ End(p[k]) \in Nat
  <2>1. p \in Seq(Chunk)
    BY <1>8, Zenon DEF Ordered
  <2>2. \A k \in 1..Len(p) : p[k] \in Chunk
    BY <2>1
  <2> QED
    BY <2>1, <2>2, ChunkIs, Zenon
<1>13. i - 1 \in 0..Len(s) /\ i + 1 \in 1..(Len(s) + 1) /\ i \in 1..(Len(s) + 1) /\ i <= i + 1
       /\ 1 \in 1..(Len(s) + 1) /\ Len(s) \in 0..Len(s) /\ 1 <= (i - 1) + 1 /\ i + 1 <= Len(s) + 1
  BY <1>1
<1>14. Before(SubSeq(s, 1, i - 1), p, gap)
  <2> SUFFICES ASSUME NEW j \in 1..Len(SubSeq(s, 1, i - 1)), NEW k \in 1..Len(p)
               PROVE  End(SubSeq(s, 1, i - 1)[j]) + gap <= p[k].qbase
    BY DEF Before
  <2>1. /\ Len(SubSeq(s, 1, i - 1)) = i - 1 - 1 + 1
        /\ \A m \in 1..(i - 1 - 1 + 1) : SubSeq(s, 1, i - 1)[m] = s[1 + m - 1]
    BY <1>1, <1>13, Cut
  <2>2. j \in 1..(i - 1 - 1 + 1) /\ 1 + j - 1 \in 1..Len(s) /\ 1 + j - 1 < i
    BY <1>1, <2>1
  <2> DEFINE e == End(s[1 + j - 1])
             c == p[k].qbase
  <2>3. End(SubSeq(s, 1, i - 1)[j]) = e
    BY <2>1, <2>2, Zenon
  <2>4. e + gap <= x
    <3>1. End(s[1 + j - 1]) + gap <= s[i].qbase
      BY <2>2, Zenon DEF Ordered
    <3> QED
      BY <3>1
  <2>5. e \in Nat
    <3>1. s[1 + j - 1] \in Chunk
      BY <1>1, <2>2
    <3> QED
      BY <3>1, ChunkIs, Zenon
  <2>6. c >= x /\ c \in Nat
    BY <1>8, <1>12
  <2> HIDE DEF e, c
  <2>7. e + gap <= c
    BY <2>4, <2>5, <2>6
  <2> QED
    BY <2>3, <2>7 DEF c
<1>15. Before(p, SubSeq(s, i + 1, Len(s)), gap)
  <2> SUFFICES ASSUME NEW k \in 1..Len(p), NEW j \in 1..Len(SubSeq(s, i + 1, Len(s)))
               PROVE  End(p[k]) + gap <= SubSeq(s, i + 1, Len(s))[j].qbase
    BY DEF Before
  <2>1. /\ Len(SubSeq(s, i + 1, Len(s))) = Len(s) - (i + 1) + 1
        /\ \A m \in 1..(Len(s) - (i + 1) + 1) : SubSeq(s, i + 1, Len(s))[m] = s[(i + 1) + m - 1]
    BY <1>1, <1>13, Cut
  <2>2. /\ j \in 1..(Len(s) - (i + 1) + 1) /\ (i + 1) + j - 1 \in 1..Len(s) /\ i < (i + 1) + j - 1
    BY <1>1, <2>1
  <2> DEFINE c == s[(i + 1) + j - 1].qbase
             e == End(p[k])
  <2>3. SubSeq(s, i + 1, Len(s))[j].qbase = c
    BY <2>1, <2>2, Zenon
  <2>4. y + gap <= c
    <3>1. End(s[i]) + gap <= s[(i + 1) + j - 1].qbase
      BY <2>2, Zenon DEF Ordered
    <3> QED
      BY <3>1
  <2>5. c \in Nat
    BY <1>1, <2>2, ChunkIs
  <2>6. e <= y /\ e \in Nat
    BY <1>8, <1>12
  <2> HIDE DEF e, c
  <2>7. e + gap <= c
    BY <2>4, <2>5, <2>6
  <2> QED
    BY <2>3, <2>7 DEF e
<1>2. t = SubSeq(s, 1, i - 1) \o p \o SubSeq(s, i + 1, Len(s))
  BY Zenon DEF Replaced
<1>16. /\ Ordered(t, gap)
       /\ \A q : Free(t, q) <=> \/ \E k \in 1..(i - 1) : In(s[k], q)
                                \/ Free(p, q)
                                \/ \E k \in (i + 1)..Len(s) : In(s[k], q)
  <2>1. SplicedRight(s, i, i + 1, p, t, gap)
    BY <1>1, <1>8, <1>13, <1>14, <1>15, <1>2, Spliced
  <2> QED
    BY <2>1, Zenon DEF SplicedRight
<1>17. ASSUME NEW q \in Nat
       PROVE  /\ Free(s, q) <=> Free(t, q) \/ (b <= q /\ q < b + n)
              /\ ~(Free(t, q) /\ b <= q /\ q < b + n)
  <2>1. Free(s, q) <=> \/ \E k \in 1..(i - 1) : In(s[k], q)
                       \/ In(s[i], q)
                       \/ \E k \in (i + 1)..Len(s) : In(s[k], q)
    <3>1. \A k \in 1..Len(s) : k \in 1..(i - 1) \/ k = i \/ k \in (i + 1)..Len(s)
      BY <1>1
    <3>2. (\A k \in 1..(i - 1) : k \in 1..Len(s)) /\ \A k \in (i + 1)..Len(s) : k \in 1..Len(s)
      BY <1>1
    <3> QED
      BY <3>1, <3>2, Zenon DEF Free
  <2>2. In(s[i], q) <=> Free(p, q) \/ (b <= q /\ q < b + n)
    <3>1. In(s[i], q) <=> x <= q /\ q < y
      BY DEF In
    <3>2. (x <= q /\ q < y) <=> (x <= q /\ q < b) \/ (b + n <= q /\ q < y) \/ (b <= q /\ q < b + n)
      OBVIOUS
    <3> QED
      BY <1>8, <3>1, <3>2
  <2>3. ~(Free(p, q) /\ b <= q /\ q < b + n)
    BY <1>8
  <2>4. ASSUME NEW k \in 1..(i - 1), In(s[k], q) PROVE ~(b <= q /\ q < b + n)
    <3>1. k \in 1..Len(s) /\ k < i
      BY <1>1, <2>4
    <3> DEFINE e == End(s[k])
    <3>2. e + gap <= x
      <4>1. End(s[k]) + gap <= s[i].qbase
        BY <3>1, Zenon DEF Ordered
      <4> QED
        BY <4>1
    <3>3. e \in Nat /\ q < e
      BY <1>1, <2>4, <3>1, ChunkIs DEF In
    <3> HIDE DEF e
    <3> QED
      BY <3>2, <3>3
  <2>5. ASSUME NEW k \in (i + 1)..Len(s), In(s[k], q) PROVE ~(b <= q /\ q < b + n)
    <3>1. k \in 1..Len(s) /\ i < k
      BY <1>1, <2>5
    <3> DEFINE c == s[k].qbase
    <3>2. y + gap <= c
      <4>1. End(s[i]) + gap <= s[k].qbase
        BY <3>1, Zenon DEF Ordered
      <4> QED
        BY <4>1
    <3>3. c \in Nat /\ c <= q
      <4>1. s[k] \in Chunk
        BY <1>1, <3>1
      <4>2. c <= q
        BY <2>5, Zenon DEF In
      <4> QED
        BY <4>1, <4>2, ChunkIs, Zenon
    <3> HIDE DEF c
    <3> QED
      BY <3>2, <3>3
  <2> QED
    BY <1>16, <2>1, <2>2, <2>3, <2>4, <2>5, Zenon
<1> QED
  BY <1>16, <1>17, Zenon DEF OutRight

TakenRight(r, s, qmax, qbase, gap) ==
  /\ r.found \in BOOLEAN /\ r.entry \in Entry /\ Ordered(r.free, gap)
  /\ ~r.found => r.entry = NoQueues /\ r.free = s
  /\ r.found => r.entry.qbase >= 0 /\ r.entry.total_q = qmax
  /\ \A q \in Nat : Free(s, q) <=> Free(r.free, q) \/ In(r.entry, q)
  /\ \A q \in Nat : ~(Free(r.free, q) /\ In(r.entry, q))
  /\ qbase >= 0 /\ (\E i \in 1..Len(s) : Spans(s[i], qbase, qmax)) => r.found /\ r.entry.qbase = qbase

LEMMA NoQueuesIs ==
  /\ NoQueues \in Entry /\ NoQueues.qbase = -1 /\ NoQueues.total_q = 0
  /\ \A q \in Nat : ~In(NoQueues, q)
BY DEF NoQueues, Entry, In, End

LEMMA EntryMade ==
  ASSUME NEW b \in Nat, NEW n \in Nat
  PROVE  /\ [qbase |-> b, total_q |-> n] \in Entry
         /\ [qbase |-> b, total_q |-> n].qbase = b
         /\ [qbase |-> b, total_q |-> n].total_q = n
         /\ \A q \in Nat : In([qbase |-> b, total_q |-> n], q) <=> b <= q /\ q < b + n
BY DEF Entry, In, End

LEMMA Taken ==
  ASSUME NEW gap \in Nat, gap <= 1, NEW s, Ordered(s, gap), NEW qmax \in Nat, NEW qbase \in Int,
         gap = 0 \/ qmax > 0 \/ qbase < 0,
         NEW r, r = GetResourceNode(qmax, qbase, s)
  PROVE  TakenRight(r, s, qmax, qbase, gap)
<1>1. s \in Seq(Chunk) /\ Len(s) \in Nat
  BY DEF Ordered
<1>2. PICK n : n = ChosenNode(qmax, qbase, s)
  OBVIOUS
<1>3. /\ n = 0 \/ (n \in 1..Len(s) /\ s[n].total_q >= qmax)
      /\ qbase >= 0 /\ (\E i \in 1..Len(s) : Spans(s[i], qbase, qmax))
           => n \in 1..Len(s) /\ Spans(s[n], qbase, qmax)
  BY <1>2, ChosenIs
<1>4. CASE n = 0
  <2>1. r = [found |-> FALSE, entry |-> NoQueues, free |-> s]
    BY <1>2, <1>4, Zenon DEF GetResourceNode
  <2>2. r.found = FALSE /\ r.entry = NoQueues /\ r.free = s
    BY <2>1
  <2>3. ~(qbase >= 0 /\ (\E i \in 1..Len(s) : Spans(s[i], qbase, qmax)))
    <3>1. ~(0 \in 1..Len(s))
      BY <1>1
    <3> QED
      BY <1>3, <1>4, <3>1, Zenon
  <2>4. FALSE \in BOOLEAN
    OBVIOUS
  <2> QED
    BY <2>2, <2>3, <2>4, NoQueuesIs, Zenon DEF TakenRight
<1>5. CASE n # 0
  <2>1. n \in 1..Len(s) /\ s[n].total_q >= qmax
    BY <1>3, <1>5
  <2>2. PICK x : x = s[n].qbase
    OBVIOUS
  <2>3. PICK y : y = End(s[n])
    OBVIOUS
  <2>4. x \in Nat /\ y \in Nat /\ x < y /\ x + qmax <= y
    <3>1. s[n] \in Chunk
      BY <1>1, <2>1
    <3>2. s[n].qbase \in Nat /\ s[n].total_q \in Nat /\ End(s[n]) = s[n].qbase + s[n].total_q
          /\ s[n].total_q > 0
      BY <3>1, ChunkIs DEF End
    <3> QED
      BY <2>1, <2>2, <2>3, <3>2
  <2>5. PICK b : b = IF qbase >= x /\ y >= qbase + qmax /\ qbase >= 0 THEN qbase ELSE x
    OBVIOUS
  <2>6. /\ b \in Nat /\ x <= b /\ b + qmax <= y
        /\ qmax > 0 \/ gap = 0 \/ b = x
        /\ qbase >= 0 /\ qbase >= x /\ y >= qbase + qmax => b = qbase
    BY <2>4, <2>5
  <2>7. PICK p : p = Around(x, y, b, qmax)
    OBVIOUS
  <2>8. PICK t : t = Replaced(s, n, p)
    OBVIOUS
  <2>9. r = [found |-> TRUE, entry |-> [qbase |-> b, total_q |-> qmax], free |-> t]
    BY <1>2, <1>5, <2>2, <2>3, <2>5, <2>7, <2>8, Zenon DEF GetResourceNode, Around, Replaced
  <2>10. /\ Ordered(t, gap)
         /\ \A q \in Nat : Free(s, q) <=> Free(t, q) \/ (b <= q /\ q < b + qmax)
         /\ \A q \in Nat : ~(Free(t, q) /\ b <= q /\ q < b + qmax)
    <3>1. OutRight(s, b, qmax, t, gap)
      BY <2>1, <2>2, <2>3, <2>4, <2>6, <2>7, <2>8, TakenOut
    <3> QED
      BY <3>1, Zenon DEF OutRight
  <2> DEFINE e == [qbase |-> b, total_q |-> qmax]
  <2>11. e \in Entry /\ e.qbase = b /\ e.total_q = qmax /\ \A q \in Nat : In(e, q) <=> b <= q /\ q < b + qmax
    BY <2>6, EntryMade
  <2> HIDE DEF e
  <2>12. r = [found |-> TRUE, entry |-> e, free |-> t]
    BY <2>9 DEF e
  <2>13. r.found = TRUE /\ r.entry = e /\ r.free = t /\ TRUE \in BOOLEAN
    BY <2>12
  <2>14. qbase >= 0 /\ (\E i \in 1..Len(s) : Spans(s[i], qbase, qmax)) => b = qbase
    BY <1>3, <2>2, <2>3, <2>6 DEF Spans
  <2>15. b >= 0
    BY <2>6
  <2> QED
    BY <2>10, <2>11, <2>13, <2>14, <2>15, Zenon DEF TakenRight
<1> QED
  BY <1>4, <1>5

-----------------------------------------------------------------------------
(* A request: the old range is given back and another one taken. *)

LEMMA LessApart ==
  ASSUME NEW gap \in Nat, gap <= 1, NEW s
  PROVE  /\ Ordered(s, gap) => Ordered(s, 0)
         /\ Ordered(s, 1) => Ordered(s, gap)
<1>1. ASSUME NEW g \in Nat, NEW h \in Nat, h <= g, Ordered(s, g) PROVE Ordered(s, h)
  <2>1. s \in Seq(Chunk)
    BY <1>1 DEF Ordered
  <2>2. ASSUME NEW i \in 1..Len(s), NEW j \in 1..Len(s), i < j PROVE End(s[i]) + h <= s[j].qbase
    <3> DEFINE e == End(s[i])
               c == s[j].qbase
    <3>1. e + g <= c
      BY <1>1, <2>2, Zenon DEF Ordered
    <3>2. e \in Nat /\ c \in Nat
      BY <2>1, ChunkIs
    <3> HIDE DEF e, c
    <3>3. e + h <= c
      BY <1>1, <3>1, <3>2
    <3> QED
      BY <3>3 DEF e, c
  <2> QED
    BY <2>1, <2>2, Zenon DEF Ordered
<1>2. 0 \in Nat /\ 1 \in Nat /\ 0 <= gap
  OBVIOUS
<1> QED
  BY <1>1, <1>2, Zenon

Owned(e) == e \in Entry /\ (e.total_q # 0 => e.qbase >= 0)

LEMMA OwnedIs ==
  ASSUME NEW e, Owned(e)
  PROVE  /\ e \in Entry /\ e.qbase \in Int /\ e.total_q \in Nat
         /\ e.total_q # 0 => e \in Chunk
         /\ e.total_q = 0 => \A q \in Nat : ~In(e, q)
         /\ End(e) = e.qbase + e.total_q
         /\ \A d \in Entry : d.qbase = e.qbase /\ d.total_q = e.total_q => d = e
BY DEF Owned, Entry, Chunk, In, End

BackRight(t, s, e, gap) ==
  /\ Ordered(t, gap)
  /\ \A q \in Nat : Free(t, q) <=> Free(s, q) \/ In(e, q)
  /\ e.total_q # 0 => \E i \in 1..Len(t) : Spans(t[i], e.qbase, e.total_q)
  /\ e.total_q = 0 => t = s

LEMMA GivenBack ==
  ASSUME NEW gap \in Nat, gap <= 1, NEW s, Ordered(s, gap), NEW e, Owned(e),
         \A q \in Nat : ~(Free(s, q) /\ In(e, q)),
         NEW t, t = SubmitToFreeList(s, e)
  PROVE  BackRight(t, s, e, gap)
<1>1. CASE e.total_q = 0
  <2>1. t = s
    BY <1>1 DEF SubmitToFreeList
  <2> QED
    BY <1>1, <2>1, OwnedIs, Zenon DEF BackRight
<1>2. CASE e.total_q # 0
  <2>1. e \in Chunk /\ End(e) = e.qbase + e.total_q
    BY <1>2, OwnedIs
  <2>2. /\ Ordered(t, 1)
        /\ \A q \in Nat : Free(t, q) <=> Free(s, q) \/ In(e, q)
        /\ Holds(t, e)
    <3>1. Ordered(s, 0)
      BY LessApart
    <3> QED
      BY <2>1, <3>1, SubmittedRight, Zenon
  <2>3. Ordered(t, gap)
    BY <2>2, LessApart
  <2>4. \E i \in 1..Len(t) : Spans(t[i], e.qbase, e.total_q)
    <3>1. PICK i \in 1..Len(t) : t[i].qbase <= e.qbase /\ End(e) <= End(t[i])
      BY <2>2 DEF Holds
    <3> DEFINE y == End(t[i])
    <3>2. y \in Nat
      BY <2>2, ChunkIs DEF Ordered
    <3>3. e.qbase \in Nat /\ e.total_q \in Nat
      BY <2>1 DEF Chunk
    <3> HIDE DEF y
    <3>4. y >= e.qbase + e.total_q
      <4>1. e.qbase + e.total_q <= y
        BY <2>1, <3>1 DEF y
      <4> QED
        BY <3>2, <3>3, <4>1
    <3> QED
      BY <3>1, <3>4 DEF Spans, y
  <2> QED
    BY <1>2, <2>2, <2>3, <2>4, Zenon DEF BackRight
<1> QED
  BY <1>1, <1>2

RequestRight(r, e, qmax, s, gap) ==
  /\ r.rv \in {0, -1} /\ Owned(r.entry) /\ Ordered(r.free, gap)
  /\ r.rv = 0 => r.entry.total_q = qmax
  /\ r.rv # 0 => r.entry.total_q = e.total_q /\ (e.total_q # 0 => r.entry = e)
  /\ \A q \in Nat : Free(s, q) \/ In(e, q) <=> Free(r.free, q) \/ In(r.entry, q)
  /\ \A q \in Nat : ~(Free(r.free, q) /\ In(r.entry, q))

LEMMA Requested ==
  ASSUME NEW gap \in Nat, gap <= 1, NEW s, Ordered(s, gap), NEW e, Owned(e),
         \A q \in Nat : ~(Free(s, q) /\ In(e, q)),
         gap = 0 \/ e.total_q # 0 \/ e.qbase < 0,
         NEW qmax \in Nat, NEW qbase \in Int,
         NEW r, r = RequestQResource(e, qmax, qbase, s)
  PROVE  RequestRight(r, e, qmax, s, gap)
<1>1. PICK t : t = SubmitToFreeList(s, e)
  OBVIOUS
<1>2. BackRight(t, s, e, gap)
  BY <1>1, GivenBack
<1>3. /\ Ordered(t, gap)
      /\ \A q \in Nat : Free(t, q) <=> Free(s, q) \/ In(e, q)
      /\ e.total_q # 0 => \E i \in 1..Len(t) : Spans(t[i], e.qbase, e.total_q)
      /\ e.total_q = 0 => t = s
  BY <1>2, Zenon DEF BackRight
<1>4. PICK got : got = GetResourceNode(qmax, qbase, t)
  OBVIOUS
<1>5. PICK back : back = GetResourceNode(e.total_q, e.qbase, t)
  OBVIOUS
<1>6. r = IF qmax = 0 THEN [rv |-> 0, entry |-> Submitted(e), free |-> t]
          ELSE IF got.found THEN [rv |-> 0, entry |-> got.entry, free |-> got.free]
          ELSE [rv |-> -1, entry |-> back.entry, free |-> back.free]
  BY <1>1, <1>4, <1>5, Zenon DEF RequestQResource
<1>7. CASE qmax = 0
  <2>1. r.rv = 0 /\ r.entry = Submitted(e) /\ r.free = t
    BY <1>6, <1>7
  <2>2. Owned(Submitted(e)) /\ Submitted(e).total_q = 0 /\ \A q \in Nat : ~In(Submitted(e), q)
    <3>1. CASE e.total_q = 0
      <4>1. Submitted(e) = e
        BY <3>1 DEF Submitted
      <4> QED
        BY <3>1, <4>1, OwnedIs
    <3>2. CASE e.total_q # 0
      <4>1. Submitted(e) = NoQueues
        BY <3>2 DEF Submitted
      <4> QED
        BY <4>1, NoQueuesIs DEF Owned
    <3> QED
      BY <3>1, <3>2
  <2>3. r.rv \in {0, -1} /\ ~(r.rv # 0) /\ r.entry.total_q = qmax
    BY <1>7, <2>1, <2>2
  <2> QED
    BY <1>3, <2>1, <2>2, <2>3, Zenon DEF RequestRight
<1>8. CASE qmax # 0 /\ got.found
  <2>1. r.rv = 0 /\ r.entry = got.entry /\ r.free = got.free
    BY <1>6, <1>8
  <2>2. TakenRight(got, t, qmax, qbase, gap)
    <3>1. qmax > 0
      BY <1>8
    <3> QED
      BY <1>3, <1>4, <3>1, Taken
  <2>3. /\ got.entry \in Entry /\ Ordered(got.free, gap)
        /\ got.entry.qbase >= 0 /\ got.entry.total_q = qmax
        /\ \A q \in Nat : Free(t, q) <=> Free(got.free, q) \/ In(got.entry, q)
        /\ \A q \in Nat : ~(Free(got.free, q) /\ In(got.entry, q))
    BY <1>8, <2>2, Zenon DEF TakenRight
  <2>4. r.rv \in {0, -1} /\ ~(r.rv # 0)
    BY <2>1
  <2>5. Owned(got.entry)
    BY <2>3 DEF Owned
  <2> QED
    BY <1>3, <2>1, <2>3, <2>4, <2>5, Zenon DEF RequestRight
<1>9. CASE qmax # 0 /\ ~got.found
  <2>1. r.rv = -1 /\ r.entry = back.entry /\ r.free = back.free
    BY <1>6, <1>9
  <2>2. e.total_q \in Nat /\ e.qbase \in Int
    BY OwnedIs
  <2>3. TakenRight(back, t, e.total_q, e.qbase, gap)
    <3>1. gap = 0 \/ e.total_q > 0 \/ e.qbase < 0
      BY <2>2
    <3> QED
      BY <1>3, <1>5, <2>2, <3>1, Taken
  <2>4. /\ back.found \in BOOLEAN /\ back.entry \in Entry /\ Ordered(back.free, gap)
        /\ ~back.found => back.entry = NoQueues /\ back.free = t
        /\ back.found => back.entry.qbase >= 0 /\ back.entry.total_q = e.total_q
        /\ \A q \in Nat : Free(t, q) <=> Free(back.free, q) \/ In(back.entry, q)
        /\ \A q \in Nat : ~(Free(back.free, q) /\ In(back.entry, q))
        /\ e.qbase >= 0 /\ (\E i \in 1..Len(t) : Spans(t[i], e.qbase, e.total_q))
              => back.found /\ back.entry.qbase = e.qbase
    BY <2>3, Zenon DEF TakenRight
  <2>5. e.total_q # 0 => back.found /\ back.entry.qbase = e.qbase
    <3>1. e.total_q # 0 => e.qbase >= 0
      BY DEF Owned
    <3> QED
      BY <1>3, <2>4, <3>1, Zenon
  <2>6. back.entry.total_q = e.total_q
    BY <2>4, <2>5, NoQueuesIs, Zenon
  <2>7. e.total_q # 0 => back.entry = e
    BY <2>4, <2>5, <2>6, OwnedIs, Zenon
  <2>8. Owned(back.entry)
    BY <2>4, <2>5, <2>6, <2>7 DEF Owned
  <2>9. r.rv \in {0, -1} /\ ~(r.rv = 0)
    BY <2>1
  <2> QED
    BY <1>3, <2>1, <2>4, <2>6, <2>7, <2>8, <2>9, Zenon DEF RequestRight
<1> QED
  BY <1>7, <1>8, <1>9

-----------------------------------------------------------------------------
(* The pool: its free chunks and what its functions have. *)

(* The free chunks and the functions' ranges share the queues of the board out among them. *)
Shared(free, dev) ==
  /\ Ordered(free, 0)
  /\ \A f \in DOMAIN dev : Owned(dev[f].entry)
  /\ \A q \in Nat, f \in DOMAIN dev : ~(Free(free, q) /\ In(dev[f].entry, q))
  /\ \A q \in Nat, f, g \in DOMAIN dev : In(dev[f].entry, q) /\ In(dev[g].entry, q) => f = g
  /\ \A q \in Nat : q < TotalQ <=> Free(free, q) \/ \E f \in DOMAIN dev : In(dev[f].entry, q)

Fresh(free, dev) ==
  /\ Ordered(free, 1)
  /\ \A f \in DOMAIN dev : dev[f].entry.total_q = 0 => dev[f].entry.qbase < 0

(* The queues of the board are shared out. *)

SameEntries(dev, dev2) == DOMAIN dev2 = DOMAIN dev /\ \A g \in DOMAIN dev : dev2[g].entry = dev[g].entry

LEMMA SharedSame ==
  ASSUME NEW free, NEW dev, NEW dev2, SameEntries(dev, dev2)
  PROVE  /\ Shared(free, dev) => Shared(free, dev2)
         /\ Fresh(free, dev) => Fresh(free, dev2)
<1>1. \A g : g \in DOMAIN dev2 <=> g \in DOMAIN dev
  BY Zenon DEF SameEntries
<1>2. \A g \in DOMAIN dev : dev2[g].entry = dev[g].entry
  BY Zenon DEF SameEntries
<1>3. ASSUME Shared(free, dev)
      PROVE  Shared(free, dev2)
  <2>1. /\ Ordered(free, 0)
        /\ \A g \in DOMAIN dev : Owned(dev[g].entry)
        /\ \A q \in Nat, g \in DOMAIN dev : ~(Free(free, q) /\ In(dev[g].entry, q))
        /\ \A q \in Nat, g, h \in DOMAIN dev : In(dev[g].entry, q) /\ In(dev[h].entry, q) => g = h
        /\ \A q \in Nat : q < TotalQ <=> Free(free, q) \/ \E g \in DOMAIN dev : In(dev[g].entry, q)
    BY <1>3, Zenon DEF Shared
  <2>2. \A g \in DOMAIN dev2 : Owned(dev2[g].entry)
    BY <1>1, <1>2, <2>1, Zenon
  <2>3. \A q \in Nat, g \in DOMAIN dev2 : ~(Free(free, q) /\ In(dev2[g].entry, q))
    BY <1>1, <1>2, <2>1, Zenon
  <2>4. \A q \in Nat, g, h \in DOMAIN dev2 : In(dev2[g].entry, q) /\ In(dev2[h].entry, q) => g = h
    BY <1>1, <1>2, <2>1, Zenon
  <2>5. \A q : (\E g \in DOMAIN dev2 : In(dev2[g].entry, q)) <=> (\E g \in DOMAIN dev : In(dev[g].entry, q))
    BY <1>1, <1>2, Zenon
  <2>6. \A q \in Nat : q < TotalQ <=> Free(free, q) \/ \E g \in DOMAIN dev2 : In(dev2[g].entry, q)
    BY <2>1, <2>5, Zenon
  <2> QED
    BY <2>1, <2>2, <2>3, <2>4, <2>6, Zenon DEF Shared
<1>4. ASSUME Fresh(free, dev)
      PROVE  Fresh(free, dev2)
  BY <1>1, <1>2, <1>4, Zenon DEF Fresh
<1> QED
  BY <1>3, <1>4, Zenon

(* Function f's range and the free chunks change places. *)
SwapRight(free, e, free2, e2) ==
  /\ Ordered(free2, 0) /\ Owned(e2)
  /\ \A q \in Nat : Free(free, q) \/ In(e, q) <=> Free(free2, q) \/ In(e2, q)
  /\ \A q \in Nat : ~(Free(free2, q) /\ In(e2, q))

LEMMA SharedSwap ==
  ASSUME NEW free, NEW dev, Shared(free, dev), NEW f \in DOMAIN dev, NEW free2, NEW dev2,
         DOMAIN dev2 = DOMAIN dev, \A g \in DOMAIN dev : g # f => dev2[g].entry = dev[g].entry,
         SwapRight(free, dev[f].entry, free2, dev2[f].entry)
  PROVE  Shared(free2, dev2)
<1>1. /\ Ordered(free, 0)
      /\ \A g \in DOMAIN dev : Owned(dev[g].entry)
      /\ \A q \in Nat, g \in DOMAIN dev : ~(Free(free, q) /\ In(dev[g].entry, q))
      /\ \A q \in Nat, g, h \in DOMAIN dev : In(dev[g].entry, q) /\ In(dev[h].entry, q) => g = h
      /\ \A q \in Nat : q < TotalQ <=> Free(free, q) \/ \E g \in DOMAIN dev : In(dev[g].entry, q)
  BY Zenon DEF Shared
<1> DEFINE e == dev[f].entry  e2 == dev2[f].entry
<1>2. /\ Ordered(free2, 0) /\ Owned(e2)
      /\ \A q \in Nat : Free(free, q) \/ In(e, q) <=> Free(free2, q) \/ In(e2, q)
      /\ \A q \in Nat : ~(Free(free2, q) /\ In(e2, q))
  BY Zenon DEF SwapRight
<1>3. \A g : g \in DOMAIN dev2 <=> g \in DOMAIN dev
  BY Zenon
<1>4. \A q \in Nat, g \in DOMAIN dev : g # f /\ In(dev[g].entry, q) => ~Free(free2, q) /\ ~In(e2, q)
  BY <1>1, <1>2, Zenon
<1>5. \A g \in DOMAIN dev2 : Owned(dev2[g].entry)
  BY <1>1, <1>2, <1>3, Zenon
<1>6. \A q \in Nat, g \in DOMAIN dev2 : ~(Free(free2, q) /\ In(dev2[g].entry, q))
  BY <1>2, <1>3, <1>4, Zenon
<1>7. \A q \in Nat, g, h \in DOMAIN dev2 : In(dev2[g].entry, q) /\ In(dev2[h].entry, q) => g = h
  <2> SUFFICES ASSUME NEW q \in Nat, NEW g \in DOMAIN dev, NEW h \in DOMAIN dev,
                      In(dev2[g].entry, q), In(dev2[h].entry, q)
               PROVE  g = h
    BY <1>3, Zenon
  <2>1. CASE g = f \/ h = f
    BY <1>4, <2>1, Zenon
  <2>2. CASE g # f /\ h # f
    BY <1>1, <2>2, Zenon
  <2> QED
    BY <2>1, <2>2, Zenon
<1>8. \A q \in Nat : q < TotalQ <=> Free(free2, q) \/ \E g \in DOMAIN dev2 : In(dev2[g].entry, q)
  <2> SUFFICES ASSUME NEW q \in Nat
               PROVE  (Free(free, q) \/ \E g \in DOMAIN dev : In(dev[g].entry, q)) <=>
                      (Free(free2, q) \/ \E g \in DOMAIN dev2 : In(dev2[g].entry, q))
    BY <1>1, Zenon
  <2> DEFINE Others == \E g \in DOMAIN dev : g # f /\ In(dev[g].entry, q)
  <2>1. (\E g \in DOMAIN dev : In(dev[g].entry, q)) <=> In(e, q) \/ Others
    BY Zenon
  <2>2. (\E g \in DOMAIN dev2 : In(dev2[g].entry, q)) <=> In(e2, q) \/ Others
    BY <1>3, Zenon
  <2> HIDE DEF Others
  <2> QED
    BY <1>2, <2>1, <2>2, Zenon
<1> QED
  BY <1>2, <1>5, <1>6, <1>7, <1>8, Zenon DEF Shared

(* A new function owns nothing. *)
LEMMA SharedNew ==
  ASSUME NEW free, NEW dev, NEW f, f \notin DOMAIN dev, NEW dev2,
         DOMAIN dev2 = DOMAIN dev \cup {f}, \A g \in DOMAIN dev : dev2[g].entry = dev[g].entry,
         dev2[f].entry = NoQueues
  PROVE  /\ Shared(free, dev) => Shared(free, dev2)
         /\ Fresh(free, dev) => Fresh(free, dev2)
<1>1. \A g : g \in DOMAIN dev2 <=> g \in DOMAIN dev \/ g = f
  BY Zenon
<1>2. \A q \in Nat : ~In(dev2[f].entry, q)
  BY NoQueuesIs, Zenon
<1>3. Owned(dev2[f].entry)
  BY NoQueuesIs, Zenon DEF Owned
<1>4. ASSUME Shared(free, dev)
      PROVE  Shared(free, dev2)
  <2>1. /\ Ordered(free, 0)
        /\ \A g \in DOMAIN dev : Owned(dev[g].entry)
        /\ \A q \in Nat, g \in DOMAIN dev : ~(Free(free, q) /\ In(dev[g].entry, q))
        /\ \A q \in Nat, g, h \in DOMAIN dev : In(dev[g].entry, q) /\ In(dev[h].entry, q) => g = h
        /\ \A q \in Nat : q < TotalQ <=> Free(free, q) \/ \E g \in DOMAIN dev : In(dev[g].entry, q)
    BY <1>4, Zenon DEF Shared
  <2>2. \A g \in DOMAIN dev2 : Owned(dev2[g].entry)
    BY <1>1, <1>3, <2>1, Zenon
  <2>3. \A q \in Nat, g \in DOMAIN dev2 : ~(Free(free, q) /\ In(dev2[g].entry, q))
    BY <1>1, <1>2, <2>1, Zenon
  <2>4. \A q \in Nat, g, h \in DOMAIN dev2 : In(dev2[g].entry, q) /\ In(dev2[h].entry, q) => g = h
    BY <1>1, <1>2, <2>1, Zenon
  <2>5. \A q \in Nat : (\E g \in DOMAIN dev2 : In(dev2[g].entry, q)) <=> (\E g \in DOMAIN dev : In(dev[g].entry, q))
    BY <1>1, <1>2, Zenon
  <2>6. \A q \in Nat : q < TotalQ <=> Free(free, q) \/ \E g \in DOMAIN dev2 : In(dev2[g].entry, q)
    BY <2>1, <2>5, Zenon
  <2> QED
    BY <2>1, <2>2, <2>3, <2>4, <2>6, Zenon DEF Shared
<1>5. ASSUME Fresh(free, dev)
      PROVE  Fresh(free, dev2)
  <2>1. NoQueues.qbase < 0
    BY NoQueuesIs
  <2> QED
    BY <1>1, <1>5, <2>1, Zenon DEF Fresh
<1> QED
  BY <1>4, <1>5, Zenon

(* A function gives everything back and goes. *)
LEMMA SharedGone ==
  ASSUME NEW free, NEW dev, Shared(free, dev), NEW f \in DOMAIN dev, NEW dev2,
         DOMAIN dev2 = DOMAIN dev \ {f}, \A g \in DOMAIN dev2 : dev2[g].entry = dev[g].entry,
         NEW free2, Ordered(free2, 0), \A q \in Nat : Free(free2, q) <=> Free(free, q) \/ In(dev[f].entry, q)
  PROVE  Shared(free2, dev2)
<1>1. /\ \A g \in DOMAIN dev : Owned(dev[g].entry)
      /\ \A q \in Nat, g \in DOMAIN dev : ~(Free(free, q) /\ In(dev[g].entry, q))
      /\ \A q \in Nat, g, h \in DOMAIN dev : In(dev[g].entry, q) /\ In(dev[h].entry, q) => g = h
      /\ \A q \in Nat : q < TotalQ <=> Free(free, q) \/ \E g \in DOMAIN dev : In(dev[g].entry, q)
  BY Zenon DEF Shared
<1>2. \A g : g \in DOMAIN dev2 <=> g \in DOMAIN dev /\ g # f
  BY Zenon
<1>3. \A g \in DOMAIN dev2 : Owned(dev2[g].entry)
  BY <1>1, <1>2, Zenon
<1>4. \A q \in Nat, g \in DOMAIN dev2 : ~(Free(free2, q) /\ In(dev2[g].entry, q))
  BY <1>1, <1>2, Zenon
<1>5. \A q \in Nat, g, h \in DOMAIN dev2 : In(dev2[g].entry, q) /\ In(dev2[h].entry, q) => g = h
  BY <1>1, <1>2, Zenon
<1>6. \A q \in Nat : q < TotalQ <=> Free(free2, q) \/ \E g \in DOMAIN dev2 : In(dev2[g].entry, q)
  <2> SUFFICES ASSUME NEW q \in Nat
               PROVE  (Free(free, q) \/ \E g \in DOMAIN dev : In(dev[g].entry, q)) <=>
                      (Free(free2, q) \/ \E g \in DOMAIN dev2 : In(dev2[g].entry, q))
    BY <1>1, Zenon
  <2>1. (\E g \in DOMAIN dev : In(dev[g].entry, q)) <=>
        In(dev[f].entry, q) \/ \E g \in DOMAIN dev2 : In(dev2[g].entry, q)
    BY <1>2, Zenon
  <2> QED
    BY <2>1, Zenon
<1> QED
  BY <1>3, <1>4, <1>5, <1>6, Zenon DEF Shared

(* The whole board is free. *)
LEMMA SharedAtFirst ==
  ASSUME NEW free, free = MasterCreate.free, NEW dev, DOMAIN dev = {}
  PROVE  Shared(free, dev) /\ Fresh(free, dev)
<1> DEFINE c == [qbase |-> 0, total_q |-> TotalQ]
<1>1. free = <<c>>
  BY DEF MasterCreate
<1>2. c \in Chunk /\ c.qbase = 0 /\ End(c) = TotalQ
  BY ChunkMade, PoolAssumption
<1> HIDE DEF c
<1>3. Ordered(free, 0) /\ Ordered(free, 1) /\ \A q : Free(free, q) <=> In(c, q)
  BY <1>1, <1>2, Single
<1>4. \A q \in Nat : In(c, q) <=> q < TotalQ
  BY <1>2, PoolAssumption DEF In
<1>5. \A q \in Nat : q < TotalQ <=> Free(free, q)
  BY <1>3, <1>4, Zenon
<1>6. \A g : g \notin DOMAIN dev
  OBVIOUS
<1>7. Shared(free, dev)
  BY <1>3, <1>5, <1>6, Zenon DEF Shared
<1>8. Fresh(free, dev)
  BY <1>3, <1>6, Zenon DEF Fresh
<1> QED
  BY <1>7, <1>8

-----------------------------------------------------------------------------
(* Fields of the pool's record. *)

Pl(free, dev, active) == [free |-> free, dev |-> dev, active |-> active]
PoolShape(p) == p = Pl(p.free, p.dev, p.active)
Device == [entry : Entry, active : [QType -> Nat]]
AllDevices(p) == \A g \in DOMAIN p.dev : p.dev[g] \in Device

LEMMA PlMade ==
  ASSUME NEW a, NEW b, NEW c, NEW p, p = Pl(a, b, c)
  PROVE  PoolShape(p) /\ p.free = a /\ p.dev = b /\ p.active = c
BY DEF PoolShape, Pl

PlSetRight(p, p2, free, dev, active) == PoolShape(p2) /\ p2.free = free /\ p2.dev = dev /\ p2.active = active

LEMMA PlSet ==
  ASSUME NEW p, PoolShape(p), NEW x, NEW p2
  PROVE  /\ p2 = [p EXCEPT !.free = x] => PlSetRight(p, p2, x, p.dev, p.active)
         /\ p2 = [p EXCEPT !.dev = x] => PlSetRight(p, p2, p.free, x, p.active)
         /\ p2 = [p EXCEPT !.active = x] => PlSetRight(p, p2, p.free, p.dev, x)
<1> DEFINE a == p.free  b == p.dev  c == p.active
<1>1. p = Pl(a, b, c)
  BY Zenon DEF PoolShape
<1>2. PICK v, w, z : v = a /\ w = b /\ z = c
  OBVIOUS
<1>3. p = Pl(v, w, z)
  BY <1>1, <1>2, Zenon
<1>4. /\ p2 = [p EXCEPT !.free = x] => p2 = Pl(x, w, z)
      /\ p2 = [p EXCEPT !.dev = x] => p2 = Pl(v, x, z)
      /\ p2 = [p EXCEPT !.active = x] => p2 = Pl(v, w, x)
  <2>1. ASSUME p2 = [p EXCEPT !.free = x]
        PROVE  p2 = Pl(x, w, z)
    <3>1. p2 = [Pl(v, w, z) EXCEPT !.free = x]
      BY <1>3, <2>1, Zenon
    <3> QED
      BY <3>1 DEF Pl
  <2>2. ASSUME p2 = [p EXCEPT !.dev = x]
        PROVE  p2 = Pl(v, x, z)
    <3>1. p2 = [Pl(v, w, z) EXCEPT !.dev = x]
      BY <1>3, <2>2, Zenon
    <3> QED
      BY <3>1 DEF Pl
  <2>3. ASSUME p2 = [p EXCEPT !.active = x]
        PROVE  p2 = Pl(v, w, x)
    <3>1. p2 = [Pl(v, w, z) EXCEPT !.active = x]
      BY <1>3, <2>3, Zenon
    <3> QED
      BY <3>1 DEF Pl
  <2> QED
    BY <2>1, <2>2, <2>3, Zenon
<1>5. \A r, s, u : p2 = Pl(r, s, u) => PlSetRight(p, p2, r, s, u)
  BY PlMade DEF PlSetRight
<1> QED
  BY <1>2, <1>4, <1>5, Zenon

LEMMA DeviceIs ==
  ASSUME NEW d \in Device
  PROVE  /\ d.entry \in Entry /\ d.active \in [QType -> Nat]
         /\ \A t \in QType : d.active[t] \in Nat
         /\ \A e \in Entry : [d EXCEPT !.entry = e] \in Device
         /\ \A e \in Entry : [d EXCEPT !.entry = e].entry = e /\ [d EXCEPT !.entry = e].active = d.active
         /\ \A a \in [QType -> Nat] : [d EXCEPT !.active = a] \in Device
         /\ \A a \in [QType -> Nat] : [d EXCEPT !.active = a].entry = d.entry /\ [d EXCEPT !.active = a].active = a
BY DEF Device

(* Function f counts n queues of type t. *)
CountedRight(p, p2, f, t, n, active) ==
  /\ PoolShape(p2) /\ p2.free = p.free /\ p2.active = active /\ DOMAIN p2.dev = DOMAIN p.dev
  /\ \A g \in DOMAIN p.dev : p2.dev[g] \in Device /\ p2.dev[g].entry = p.dev[g].entry
  /\ \A g \in DOMAIN p.dev : g # f => p2.dev[g] = p.dev[g]
  /\ p2.dev[f].active[t] = n
  /\ \A u \in QType : u # t => p2.dev[f].active[u] = p.dev[f].active[u]

LEMMA CountSet ==
  ASSUME NEW p, PoolShape(p), NEW f \in DOMAIN p.dev, \A g \in DOMAIN p.dev : p.dev[g] \in Device,
         NEW t \in QType, NEW n \in Nat, NEW active, NEW p2,
         p2 = [p EXCEPT !.dev[f].active[t] = n, !.active = active]
  PROVE  CountedRight(p, p2, f, t, n, active)
<1>1. PICK p1 : p1 = [p EXCEPT !.dev[f].active[t] = n]
  OBVIOUS
<1>2. p2 = [p1 EXCEPT !.active = active]
  BY <1>1, Zenon
<1>3. PICK d : d = p.dev[f]
  OBVIOUS
<1>4. PICK a : a = [d.active EXCEPT ![t] = n]
  OBVIOUS
<1>5. PICK d2 : d2 = [d EXCEPT !.active = a]
  OBVIOUS
<1>6. PICK dev : dev = [p.dev EXCEPT ![f] = d2]
  OBVIOUS
<1>7. p1 = [p EXCEPT !.dev = dev]
  BY <1>1, <1>3, <1>4, <1>5, <1>6, Zenon
<1>8. PlSetRight(p, p1, p.free, dev, p.active)
  BY <1>7, PlSet, Zenon
<1>9. PoolShape(p1)
  BY <1>8, Zenon DEF PlSetRight
<1>10. PlSetRight(p1, p2, p1.free, p1.dev, active)
  BY <1>2, <1>9, PlSet, Zenon
<1>11. PoolShape(p2) /\ p2.free = p.free /\ p2.dev = dev /\ p2.active = active
  BY <1>8, <1>10, Zenon DEF PlSetRight
<1>12. d \in Device /\ d.active \in [QType -> Nat]
  BY <1>3, DeviceIs, Zenon
<1>13. a \in [QType -> Nat] /\ a[t] = n /\ \A u \in QType : u # t => a[u] = d.active[u]
  BY <1>4, <1>12
<1>14. d2 \in Device /\ d2.entry = d.entry /\ d2.active = a
  BY <1>5, <1>12, <1>13, DeviceIs, Zenon
<1>15. /\ DOMAIN dev = DOMAIN p.dev /\ dev[f] = d2
       /\ \A g \in DOMAIN p.dev : g # f => dev[g] = p.dev[g]
  BY <1>6, Zenon
<1>16. \A g \in DOMAIN p.dev : dev[g] \in Device /\ dev[g].entry = p.dev[g].entry
  BY <1>3, <1>14, <1>15, Zenon
<1> QED
  BY <1>3, <1>11, <1>13, <1>14, <1>15, <1>16, Zenon DEF CountedRight

LEMMA Incremented ==
  ASSUME NEW p, PoolShape(p), NEW f \in DOMAIN p.dev, \A g \in DOMAIN p.dev : p.dev[g] \in Device,
         NEW t \in QType, CanIncrement(p, f, t), NEW p2, p2 = IncrementActiveQueue(p, f, t)
  PROVE  CountedRight(p, p2, f, t, p.dev[f].active[t] + 1, (p.active + 1) % CountModulus)
<1>1. p.dev[f].active[t] \in Nat
  BY DeviceIs, Zenon
<1>2. PICK n, m : n = p.dev[f].active[t] + 1 /\ m = (p.active + 1) % CountModulus
  OBVIOUS
<1>3. n \in Nat
  BY <1>1, <1>2
<1>4. p2 = [p EXCEPT !.dev[f].active[t] = n, !.active = m]
  BY <1>2, Zenon DEF IncrementActiveQueue
<1>5. CountedRight(p, p2, f, t, n, m)
  BY <1>3, <1>4, CountSet, Zenon
<1> QED
  BY <1>2, <1>5, Zenon

LEMMA Decremented ==
  ASSUME NEW p, PoolShape(p), NEW f \in DOMAIN p.dev, \A g \in DOMAIN p.dev : p.dev[g] \in Device,
         NEW t \in QType, p.dev[f].active[t] # 0, NEW p2, p2 = DecrementActiveQueue(p, f, t)
  PROVE  CountedRight(p, p2, f, t, p.dev[f].active[t] - 1, (p.active - 1) % CountModulus)
<1>1. p.dev[f].active[t] \in Nat
  BY DeviceIs, Zenon
<1>2. PICK n, m : n = p.dev[f].active[t] - 1 /\ m = (p.active - 1) % CountModulus
  OBVIOUS
<1>3. n \in Nat
  <2>1. \A a \in Nat : a # 0 => a - 1 \in Nat
    OBVIOUS
  <2> QED
    BY <1>1, <1>2, <2>1, Zenon
<1>4. p2 = [p EXCEPT !.dev[f].active[t] = n, !.active = m]
  BY <1>2, Zenon DEF DecrementActiveQueue
<1>5. CountedRight(p, p2, f, t, n, m)
  BY <1>3, <1>4, CountSet, Zenon
<1> QED
  BY <1>2, <1>5, Zenon

-----------------------------------------------------------------------------
(* A function is known, gets another range, is forgotten. *)

UpdatedRight(p, p2, f, free, e) ==
  /\ PoolShape(p2) /\ p2.free = free /\ p2.active = p.active /\ DOMAIN p2.dev = DOMAIN p.dev
  /\ AllDevices(p2)
  /\ \A g \in DOMAIN p.dev : g # f => p2.dev[g] = p.dev[g]
  /\ p2.dev[f].entry = e /\ p2.dev[f].active = p.dev[f].active

LEMMA UpdatedIs ==
  ASSUME NEW p, PoolShape(p), AllDevices(p), NEW f \in DOMAIN p.dev, NEW e \in Entry, NEW free,
         NEW p2, p2 = [p EXCEPT !.free = free, !.dev[f].entry = e]
  PROVE  UpdatedRight(p, p2, f, free, e)
<1>1. PICK p1 : p1 = [p EXCEPT !.free = free]
  OBVIOUS
<1>2. PICK d : d = p.dev[f]
  OBVIOUS
<1>3. PICK d2 : d2 = [d EXCEPT !.entry = e]
  OBVIOUS
<1>4. PICK dev : dev = [p.dev EXCEPT ![f] = d2]
  OBVIOUS
<1>5. PlSetRight(p, p1, free, p.dev, p.active)
  BY <1>1, PlSet, Zenon
<1>6. PoolShape(p1) /\ p1.dev = p.dev /\ p1.free = free /\ p1.active = p.active
  BY <1>5, Zenon DEF PlSetRight
<1>7. p2 = [p1 EXCEPT !.dev[f].entry = e]
  BY <1>1, Zenon
<1>8. p2 = [p1 EXCEPT !.dev = dev]
  BY <1>2, <1>3, <1>4, <1>6, <1>7, Zenon
<1>9. PlSetRight(p1, p2, p1.free, dev, p1.active)
  BY <1>6, <1>8, PlSet, Zenon
<1>10. PoolShape(p2) /\ p2.free = free /\ p2.dev = dev /\ p2.active = p.active
  BY <1>6, <1>9, Zenon DEF PlSetRight
<1>11. d \in Device
  BY <1>2, Zenon DEF AllDevices
<1>12. d2 \in Device /\ d2.entry = e /\ d2.active = d.active
  BY <1>3, <1>11, DeviceIs, Zenon
<1>13. /\ DOMAIN dev = DOMAIN p.dev /\ dev[f] = d2
       /\ \A g \in DOMAIN p.dev : g # f => dev[g] = p.dev[g]
  BY <1>4, Zenon
<1>14. \A g \in DOMAIN dev : dev[g] \in Device
  BY <1>12, <1>13, Zenon DEF AllDevices
<1> QED
  BY <1>2, <1>10, <1>12, <1>13, <1>14, Zenon DEF UpdatedRight, AllDevices

(* What qdma_dev_update does with the range of f. *)
RefitRight(p, rv, p2, f, qmax) ==
  /\ UpdatedRight(p, p2, f, p2.free, p2.dev[f].entry)
  /\ Shared(p2.free, p2.dev)
  /\ Fresh(p.free, p.dev) => Ordered(p2.free, 1)
  /\ rv = 0 \/ rv = -1
  /\ rv = 0 => p2.dev[f].entry.total_q = qmax
  /\ rv # 0 => p2.dev[f].entry.total_q = p.dev[f].entry.total_q
  /\ rv # 0 /\ p.dev[f].entry.total_q # 0 => p2.dev[f].entry = p.dev[f].entry

LEMMA DevUpdateIs ==
  ASSUME NEW p, PoolShape(p), AllDevices(p), Shared(p.free, p.dev), NEW f \in DOMAIN p.dev,
         NEW qmax \in Nat, NEW qbase \in Int, NEW u, u = DevUpdate(p, f, qmax, qbase)
  PROVE  RefitRight(p, u.rv, u.pool, f, qmax)
<1>1. PICK e, s : e = p.dev[f].entry /\ s = p.free
  OBVIOUS
<1>2. PICK r : r = RequestQResource(e, qmax, qbase, s)
  OBVIOUS
<1>3. PICK p2 : p2 = [p EXCEPT !.free = r.free, !.dev[f].entry = r.entry]
  OBVIOUS
<1>4. u = [rv |-> r.rv, pool |-> p2]
  BY <1>1, <1>2, <1>3, Zenon DEF DevUpdate
<1>5. u.rv = r.rv /\ u.pool = p2
  BY <1>4
<1>6. Ordered(s, 0) /\ Owned(e) /\ \A q \in Nat : ~(Free(s, q) /\ In(e, q))
  BY <1>1, Zenon DEF Shared
<1>7. RequestRight(r, e, qmax, s, 0)
  <2>1. 0 \in Nat /\ 0 <= 1 /\ 0 = 0
    OBVIOUS
  <2> QED
    BY <1>2, <1>6, <2>1, Requested, Zenon
<1>8. Fresh(p.free, p.dev) => RequestRight(r, e, qmax, s, 1)
  <2> SUFFICES ASSUME Fresh(p.free, p.dev)
               PROVE  RequestRight(r, e, qmax, s, 1)
    BY Zenon
  <2>1. Ordered(s, 1) /\ (e.total_q = 0 => e.qbase < 0)
    BY <1>1, Zenon DEF Fresh
  <2>2. 1 \in Nat /\ 1 <= 1
    OBVIOUS
  <2>3. e.total_q # 0 \/ e.qbase < 0
    BY <2>1, Zenon
  <2> QED
    BY <1>2, <1>6, <2>1, <2>2, <2>3, Requested, Zenon
<1>9. Owned(r.entry) /\ Ordered(r.free, 0)
  BY <1>7, Zenon DEF RequestRight
<1>10. r.entry \in Entry
  BY <1>9, Zenon DEF Owned
<1>11. UpdatedRight(p, p2, f, r.free, r.entry)
  BY <1>3, <1>10, UpdatedIs, Zenon
<1>12. /\ p2.free = r.free /\ p2.dev[f].entry = r.entry /\ DOMAIN p2.dev = DOMAIN p.dev
       /\ \A g \in DOMAIN p.dev : g # f => p2.dev[g].entry = p.dev[g].entry
  BY <1>11, Zenon DEF UpdatedRight
<1>13. SwapRight(s, e, r.free, r.entry)
  BY <1>7, <1>9, Zenon DEF RequestRight, SwapRight
<1>14. Shared(p2.free, p2.dev)
  <2>1. SwapRight(p.free, p.dev[f].entry, p2.free, p2.dev[f].entry)
    BY <1>1, <1>12, <1>13, Zenon
  <2>2. PICK x, y : x = p2.free /\ y = p2.dev
    OBVIOUS
  <2>3. DOMAIN y = DOMAIN p.dev /\ \A g \in DOMAIN p.dev : g # f => y[g].entry = p.dev[g].entry
    BY <1>12, <2>2, Zenon
  <2>4. SwapRight(p.free, p.dev[f].entry, x, y[f].entry)
    BY <2>1, <2>2, Zenon
  <2>5. PICK a, b : a = p.free /\ b = p.dev
    OBVIOUS
  <2>6. Shared(a, b) /\ f \in DOMAIN b /\ SwapRight(a, b[f].entry, x, y[f].entry)
    BY <2>4, <2>5, Zenon
  <2>7. DOMAIN y = DOMAIN b /\ \A g \in DOMAIN b : g # f => y[g].entry = b[g].entry
    BY <2>3, <2>5, Zenon
  <2>8. Shared(x, y)
    BY <2>6, <2>7, SharedSwap
  <2> QED
    BY <2>2, <2>8, Zenon
<1>15. Fresh(p.free, p.dev) => Ordered(p2.free, 1)
  BY <1>8, <1>12, Zenon DEF RequestRight
<1>16. /\ r.rv = 0 \/ r.rv = -1
       /\ r.rv = 0 => r.entry.total_q = qmax
       /\ r.rv # 0 => r.entry.total_q = e.total_q
       /\ r.rv # 0 /\ e.total_q # 0 => r.entry = e
  BY <1>7, Zenon DEF RequestRight
<1> QED
  BY <1>1, <1>5, <1>11, <1>12, <1>14, <1>15, <1>16, Zenon DEF RefitRight

KnownRight(p, p2, f) ==
  /\ PoolShape(p2) /\ p2.free = p.free /\ p2.active = p.active
  /\ DOMAIN p2.dev = DOMAIN p.dev \cup {f} /\ AllDevices(p2)
  /\ \A g \in DOMAIN p.dev : p2.dev[g] = p.dev[g]
  /\ p2.dev[f].entry = NoQueues /\ \A t \in QType : p2.dev[f].active[t] = 0

LEMMA CreatedIs ==
  ASSUME NEW p, PoolShape(p), AllDevices(p), NEW f, f \notin DOMAIN p.dev,
         NEW p2, p2 = DevEntryCreate(p, f)
  PROVE  KnownRight(p, p2, f)
<1>1. PICK d : d = [entry |-> NoQueues, active |-> NoneActive]
  OBVIOUS
<1>2. NoneActive \in [QType -> Nat] /\ \A t \in QType : NoneActive[t] = 0
  BY DEF NoneActive
<1>3. NoQueues \in Entry
  BY NoQueuesIs, Zenon
<1>4. d \in Device /\ d.entry = NoQueues /\ d.active = NoneActive
  BY <1>1, <1>2, <1>3 DEF Device
<1>5. PICK dev : dev = [g \in DOMAIN p.dev \cup {f} |-> IF g = f THEN d ELSE p.dev[g]]
  OBVIOUS
<1>6. p2 = [p EXCEPT !.dev = dev]
  BY <1>1, <1>5, Zenon DEF DevEntryCreate
<1>7. PlSetRight(p, p2, p.free, dev, p.active)
  BY <1>6, PlSet, Zenon
<1>8. PoolShape(p2) /\ p2.free = p.free /\ p2.dev = dev /\ p2.active = p.active
  BY <1>7, Zenon DEF PlSetRight
<1>9. /\ DOMAIN dev = DOMAIN p.dev \cup {f} /\ dev[f] = d
      /\ \A g \in DOMAIN p.dev : dev[g] = p.dev[g]
  BY <1>5, Zenon
<1>10. \A g \in DOMAIN dev : dev[g] \in Device
  BY <1>4, <1>9, Zenon DEF AllDevices
<1> QED
  BY <1>2, <1>4, <1>8, <1>9, <1>10, Zenon DEF KnownRight, AllDevices

LEMMA OpenedIs ==
  ASSUME NEW p, PoolShape(p), AllDevices(p), NEW f, f \notin DOMAIN p.dev,
         NEW p2, p2 = DevUpdate(DevEntryCreate(p, f), f, 0, -1).pool
  PROVE  KnownRight(p, p2, f)
<1>1. PICK p1 : p1 = DevEntryCreate(p, f)
  OBVIOUS
<1>2. KnownRight(p, p1, f)
  BY <1>1, CreatedIs, Zenon
<1>3. /\ PoolShape(p1) /\ AllDevices(p1) /\ f \in DOMAIN p1.dev /\ p1.dev[f].entry = NoQueues
      /\ p1.free = p.free
  BY <1>2, Zenon DEF KnownRight
<1>4. PICK r : r = RequestQResource(NoQueues, 0, -1, p1.free)
  OBVIOUS
<1>5. NoQueues.total_q = 0 /\ NoQueues \in Entry
  BY NoQueuesIs, Zenon
<1>6. r = [rv |-> 0, entry |-> NoQueues, free |-> p1.free]
  BY <1>4, <1>5, Zenon DEF RequestQResource, SubmitToFreeList, Submitted
<1>7. r.entry = NoQueues /\ r.free = p1.free
  BY <1>6
<1>8. DevUpdate(p1, f, 0, -1)
        = [rv |-> r.rv, pool |-> [p1 EXCEPT !.free = r.free, !.dev[f].entry = r.entry]]
  BY <1>3, <1>4, Zenon DEF DevUpdate
<1>9. PICK p3 : p3 = [p1 EXCEPT !.free = r.free, !.dev[f].entry = r.entry]
  OBVIOUS
<1>10. PICK v : v = r.rv
  OBVIOUS
<1>11. [rv |-> v, pool |-> p3].pool = p3
  OBVIOUS
<1>12. p2 = [p1 EXCEPT !.free = r.free, !.dev[f].entry = r.entry]
  BY <1>1, <1>8, <1>9, <1>10, <1>11, Zenon
<1>13. p2 = [p1 EXCEPT !.free = p1.free, !.dev[f].entry = NoQueues]
  BY <1>7, <1>12, Zenon
<1>14. UpdatedRight(p1, p2, f, p1.free, NoQueues)
  BY <1>3, <1>5, <1>13, UpdatedIs, Zenon
<1>15. \A g \in DOMAIN p.dev : g # f
  BY Zenon
<1> QED
  BY <1>2, <1>14, <1>15, Zenon DEF KnownRight, UpdatedRight

ForgottenRight(p, p2, f) ==
  /\ PoolShape(p2) /\ p2.active = p.active
  /\ DOMAIN p2.dev = DOMAIN p.dev \ {f} /\ AllDevices(p2)
  /\ \A g \in DOMAIN p2.dev : p2.dev[g] = p.dev[g]
  /\ Shared(p2.free, p2.dev)
  /\ Fresh(p.free, p.dev) => Fresh(p2.free, p2.dev)

LEMMA DestroyedIs ==
  ASSUME NEW p, PoolShape(p), AllDevices(p), Shared(p.free, p.dev), NEW f \in DOMAIN p.dev,
         NEW p2, p2 = DevEntryDestroy(p, f)
  PROVE  ForgottenRight(p, p2, f)
<1>1. PICK e, s : e = p.dev[f].entry /\ s = p.free
  OBVIOUS
<1>2. PICK t : t = SubmitToFreeList(s, e)
  OBVIOUS
<1>3. PICK dev : dev = [g \in DOMAIN p.dev \ {f} |-> p.dev[g]]
  OBVIOUS
<1>4. PICK p1 : p1 = [p EXCEPT !.free = t]
  OBVIOUS
<1>5. PlSetRight(p, p1, t, p.dev, p.active)
  BY <1>4, PlSet, Zenon
<1>6. PoolShape(p1) /\ p1.dev = p.dev /\ p1.free = t /\ p1.active = p.active
  BY <1>5, Zenon DEF PlSetRight
<1>7. p2 = [p1 EXCEPT !.dev = dev]
  BY <1>1, <1>2, <1>3, <1>4, Zenon DEF DevEntryDestroy
<1>8. PlSetRight(p1, p2, p1.free, dev, p1.active)
  BY <1>6, <1>7, PlSet, Zenon
<1>9. PoolShape(p2) /\ p2.free = t /\ p2.dev = dev /\ p2.active = p.active
  BY <1>6, <1>8, Zenon DEF PlSetRight
<1>10. /\ DOMAIN dev = DOMAIN p.dev \ {f}
       /\ \A g \in DOMAIN dev : dev[g] = p.dev[g]
  BY <1>3, Zenon
<1>11. Ordered(s, 0) /\ Owned(e) /\ \A q \in Nat : ~(Free(s, q) /\ In(e, q))
  BY <1>1, Zenon DEF Shared
<1>12. BackRight(t, s, e, 0)
  <2>1. 0 \in Nat /\ 0 <= 1
    OBVIOUS
  <2> QED
    BY <1>2, <1>11, <2>1, GivenBack, Zenon
<1>13. Ordered(t, 0) /\ \A q \in Nat : Free(t, q) <=> Free(s, q) \/ In(e, q)
  BY <1>12, Zenon DEF BackRight
<1>14. Shared(p2.free, p2.dev)
  BY <1>1, <1>9, <1>10, <1>13, SharedGone, Zenon
<1>15. Fresh(p.free, p.dev) => Fresh(p2.free, p2.dev)
  <2> SUFFICES ASSUME Fresh(p.free, p.dev)
               PROVE  Fresh(p2.free, p2.dev)
    BY Zenon
  <2>1. Ordered(s, 1) /\ \A g \in DOMAIN p.dev : p.dev[g].entry.total_q = 0 => p.dev[g].entry.qbase < 0
    BY <1>1, Zenon DEF Fresh
  <2>2. 1 \in Nat /\ 1 <= 1
    OBVIOUS
  <2>3. BackRight(t, s, e, 1)
    BY <1>2, <1>11, <2>1, <2>2, GivenBack, Zenon
  <2>4. Ordered(t, 1)
    BY <2>3, Zenon DEF BackRight
  <2>5. \A g \in DOMAIN dev : dev[g].entry.total_q = 0 => dev[g].entry.qbase < 0
    BY <1>10, <2>1, Zenon
  <2> QED
    BY <1>9, <2>4, <2>5, Zenon DEF Fresh
<1>16. \A g \in DOMAIN dev : dev[g] \in Device
  BY <1>10, Zenon DEF AllDevices
<1> QED
  BY <1>9, <1>10, <1>14, <1>15, <1>16, Zenon DEF ForgottenRight, AllDevices
=============================================================================
