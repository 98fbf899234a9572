------------------------- MODULE HostLibraryProofs -------------------------
(* The parts of the host library, for every unit, size of the space, number  *)
(* of threads and order of calls: neither allocator hands out an address     *)
(* twice or loses one, and a call of h2d or d2h that has its registers to    *)
(* itself gives the board one whole command.                                 *)
EXTENDS HbmSpace, HugePages, DmaRegisters, SequenceTheorems, FiniteSetTheorems,
        WellFoundedInduction, TLAPS

-----------------------------------------------------------------------------
(* A first-fit list and the grants from it share out a space: whatever is    *)
(* granted and returned, every address stays in exactly one region or grant. *)

-----------------------------------------------------------------------------
(* Sets of numbers and sequences. *)

LEMMA LeastNat ==
  ASSUME NEW T \in SUBSET Nat, T # {}
  PROVE  \E m \in T : \A n \in T : m =< n
<1> DEFINE R == OpToRel(<, Nat)
<1>1. PICK m \in T : \A n \in T : ~(<<n, m>> \in R)
  <2>1. IsWellFoundedOn(R, Nat)
    BY NatLessThanWellFounded
  <2> HIDE DEF R
  <2> QED
    BY <2>1, WFMin
<1>2. ASSUME NEW n \in T PROVE m =< n
  <2>1. ~(<<n, m>> \in R)
    BY <1>1
  <2>2. ~(n < m)
    BY <2>1 DEF OpToRel
  <2> QED
    BY <2>2
<1> QED
  BY <1>2

LEMMA MinIsLeast ==
  ASSUME NEW T \in SUBSET Nat, T # {}
  PROVE  Min(T) \in T /\ \A n \in T : Min(T) =< n
BY LeastNat DEF Min

LEMMA RemovedAt ==
  ASSUME NEW S, NEW s \in Seq(S), NEW i \in 1 .. Len(s)
  PROVE  /\ RemoveAt(s, i) \in Seq(S)
         /\ Len(RemoveAt(s, i)) = Len(s) - 1
         /\ \A j \in 1 .. Len(s) - 1 : RemoveAt(s, i)[j] = IF j < i THEN s[j] ELSE s[j + 1]
<1> DEFINE a == SubSeq(s, 1, i - 1)
           b == SubSeq(s, i + 1, Len(s))
<1>1. /\ a \in Seq(S) /\ Len(a) = i - 1 /\ \A j \in 1 .. i - 1 : a[j] = s[j]
      /\ b \in Seq(S) /\ Len(b) = Len(s) - i /\ \A j \in 1 .. Len(s) - i : b[j] = s[j + i]
  OBVIOUS
<1> HIDE DEF a, b
<1>2. RemoveAt(s, i) = a \o b
  BY DEF RemoveAt, a, b
<1>3. /\ a \o b \in Seq(S) /\ Len(a \o b) = Len(s) - 1
      /\ \A j \in 1 .. Len(s) - 1 : (a \o b)[j] = IF j =< i - 1 THEN a[j] ELSE b[j - (i - 1)]
  <2>1. a \in Seq(S) /\ b \in Seq(S) /\ Len(a) = i - 1 /\ Len(b) = Len(s) - i
    BY <1>1
  <2>2. Len(a) + Len(b) = Len(s) - 1
    BY <2>1
  <2>3. /\ a \o b \in Seq(S) /\ Len(a \o b) = Len(a) + Len(b)
        /\ \A j \in 1 .. Len(a) + Len(b) :
             (a \o b)[j] = IF j =< Len(a) THEN a[j] ELSE b[j - Len(a)]
    BY <2>1, ConcatProperties, Zenon
  <2> QED
    BY <2>1, <2>2, <2>3, Zenon
<1> QED
  BY <1>1, <1>2, <1>3

LEMMA InsertedAt ==
  ASSUME NEW S, NEW s \in Seq(S), NEW i \in 1 .. Len(s) + 1, NEW e \in S
  PROVE  /\ InsertAt(s, i, e) \in Seq(S)
         /\ Len(InsertAt(s, i, e)) = Len(s) + 1
         /\ \A j \in 1 .. Len(s) + 1 :
              InsertAt(s, i, e)[j] = IF j < i THEN s[j] ELSE IF j = i THEN e ELSE s[j - 1]
<1> DEFINE a == SubSeq(s, 1, i - 1)
           b == SubSeq(s, i, Len(s))
<1>1. /\ a \in Seq(S) /\ Len(a) = i - 1 /\ \A j \in 1 .. i - 1 : a[j] = s[j]
      /\ b \in Seq(S) /\ Len(b) = Len(s) - i + 1
      /\ \A j \in 1 .. Len(s) - i + 1 : b[j] = s[j + i - 1]
  OBVIOUS
<1> HIDE DEF a, b
<1>2. InsertAt(s, i, e) = (a \o <<e>>) \o b
  BY DEF InsertAt, a, b
<1>3. /\ a \o <<e>> \in Seq(S) /\ Len(a \o <<e>>) = i
      /\ \A j \in 1 .. i : (a \o <<e>>)[j] = IF j < i THEN s[j] ELSE e
  BY <1>1
<1> DEFINE c == a \o <<e>>
<1> HIDE DEF c
<1>4. /\ c \o b \in Seq(S) /\ Len(c \o b) = Len(s) + 1
      /\ \A j \in 1 .. Len(s) + 1 : (c \o b)[j] = IF j =< i THEN c[j] ELSE b[j - i]
  <2>1. c \in Seq(S) /\ b \in Seq(S) /\ Len(c) = i /\ Len(b) = Len(s) - i + 1
    BY <1>1, <1>3 DEF c
  <2>2. /\ c \o b \in Seq(S) /\ Len(c \o b) = Len(c) + Len(b)
        /\ \A j \in 1 .. Len(c) + Len(b) :
             (c \o b)[j] = IF j =< Len(c) THEN c[j] ELSE b[j - Len(c)]
    BY <2>1, ConcatProperties
  <2>3. Len(c) = i /\ Len(c) + Len(b) = Len(s) + 1
    BY <2>1
  <2> QED
    BY <2>2, <2>3
<1>5. InsertAt(s, i, e) = c \o b
  BY <1>2 DEF c
<1>6. /\ Len(c) = i
      /\ \A j \in 1 .. i : c[j] = IF j < i THEN s[j] ELSE e
  BY <1>3 DEF c
<1>7. ASSUME NEW j \in 1 .. Len(s) + 1
      PROVE  (c \o b)[j] = IF j < i THEN s[j] ELSE IF j = i THEN e ELSE s[j - 1]
  <2>1. CASE j =< i
    BY <2>1, <1>4, <1>6
  <2>2. CASE ~(j =< i)
    <3>1. j - i \in 1 .. Len(s) - i + 1 /\ (j - i) + i - 1 = j - 1
      BY <2>2
    <3>2. b[j - i] = s[j - 1]
      BY <3>1, <1>1
    <3> QED
      BY <2>2, <3>2, <1>4
  <2> QED
    BY <2>1, <2>2
<1> QED
  BY <1>4, <1>5, <1>7

LEMMA Replaced ==
  ASSUME NEW S, NEW s \in Seq(S), NEW i \in DOMAIN s, NEW e \in S
  PROVE  /\ [s EXCEPT ![i] = e] \in Seq(S)
         /\ DOMAIN [s EXCEPT ![i] = e] = DOMAIN s
         /\ [s EXCEPT ![i] = e][i] = e
         /\ \A j \in DOMAIN s \ {i} : [s EXCEPT ![i] = e][j] = s[j]
OBVIOUS

-----------------------------------------------------------------------------
(* Multiples of the unit. *)

Whole(x) == \E m \in Nat : x = m * Unit

LEMMA WholeIs ==
  ASSUME NEW x \in Nat
  PROVE  Whole(x) <=> x % Unit = 0
<1>1. x = (x \div Unit) * Unit + (x % Unit) /\ x \div Unit \in Nat /\ x % Unit \in 0 .. Unit - 1
  BY UnitAssumption
<1>2. ASSUME NEW m \in Nat, x = m * Unit PROVE x % Unit = 0
  BY <1>2, UnitAssumption
<1>3. x % Unit = 0 => x = (x \div Unit) * Unit
  BY <1>1, UnitAssumption
<1> QED
  BY <1>1, <1>2, <1>3 DEF Whole

LEMMA WholeSum ==
  ASSUME NEW x \in Nat, NEW y \in Nat, Whole(x), Whole(y)
  PROVE  Whole(x + y)
<1>1. PICK m \in Nat, n \in Nat : x = m * Unit /\ y = n * Unit
  BY DEF Whole
<1>2. x + y = (m + n) * Unit /\ m + n \in Nat
  BY <1>1, UnitAssumption
<1> QED
  BY <1>2 DEF Whole

LEMMA WholeRest ==
  ASSUME NEW x \in Nat, NEW y \in Nat, Whole(x), Whole(y), y =< x
  PROVE  Whole(x - y)
<1>1. PICK m \in Nat, n \in Nat : x = m * Unit /\ y = n * Unit
  BY DEF Whole
<1>2. n =< m
  <2>1. SUFFICES ASSUME m < n PROVE FALSE
    BY <1>1
  <2>2. n - m \in Nat /\ n - m >= 1
    BY <2>1
  <2>3. (n - m) * Unit >= Unit
    BY <2>2, UnitAssumption
  <2> QED
    BY <2>3, <1>1, UnitAssumption
<1>3. x - y = (m - n) * Unit /\ m - n \in Nat
  BY <1>1, <1>2, UnitAssumption
<1> QED
  BY <1>3 DEF Whole

(* A size rounded up to the unit still fits where the size fits. *)
LEMMA RoundedUp ==
  ASSUME NEW size \in Nat
  PROVE  /\ RoundUp(size) \in Nat /\ size =< RoundUp(size) /\ Whole(RoundUp(size))
         /\ \A x \in Nat : Whole(x) /\ size =< x => RoundUp(size) =< x
<1> DEFINE y == size + Unit - 1
           q == y \div Unit
<1>1. y \in Nat /\ q \in Nat /\ y % Unit \in 0 .. Unit - 1 /\ y = q * Unit + (y % Unit)
  BY UnitAssumption
<1>2. RoundUp(size) = q * Unit
  BY DEF RoundUp
<1>3. q * Unit \in Nat /\ size =< q * Unit /\ q * Unit =< size + Unit - 1
  BY <1>1, UnitAssumption
<1>4. ASSUME NEW m \in Nat, size =< m * Unit PROVE q * Unit =< m * Unit
  <2>1. SUFFICES ASSUME m < q PROVE FALSE
    <3>1. ASSUME q =< m PROVE q * Unit =< m * Unit
      BY <3>1, <1>1, UnitAssumption
    <3> QED
      BY <3>1, <1>1
  <2>2. (q - m) * Unit >= Unit /\ q * Unit = m * Unit + (q - m) * Unit
    BY <1>1, <2>1, UnitAssumption
  <2> QED
    BY <1>3, <1>4, <2>2, UnitAssumption
<1> HIDE DEF q
<1> QED
  BY <1>1, <1>2, <1>3, <1>4 DEF Whole

-----------------------------------------------------------------------------
(* A list of free regions and the grants from it share out the addresses     *)
(* from lo up to hi: each address is in exactly one of them.  Every region   *)
(* is a multiple of the unit, so that the rounded size of a request fits     *)
(* wherever the size itself does.                                            *)
Node == [start : Int, end : Int, length : Nat]

Nodes(list, lo, hi) ==
  /\ list \in Seq(Node)
  /\ \A k \in DOMAIN list :
       /\ lo =< list[k].start /\ list[k].end =< hi
       /\ list[k].end = list[k].start + list[k].length
       /\ Whole(list[k].length)

Grants(used, lo, hi) ==
  /\ used \in [DOMAIN used -> Nat]
  /\ \A a \in DOMAIN used :
       a \in Int /\ lo =< a /\ a + used[a] =< hi /\ used[a] > 0 /\ Whole(used[a])

Sound(list, used, lo, hi) ==
  /\ Nodes(list, lo, hi) /\ Grants(used, lo, hi)
  /\ NoOverlap(list, used)
  /\ Covered(list, used, lo, hi)

(* While all sizes are multiples of the unit no region is empty, and no two  *)
(* touch: the list is in order, with gaps.                                   *)
Gapped(list) ==
  /\ \A k \in DOMAIN list : list[k].length > 0
  /\ \A j, k \in DOMAIN list : j < k => list[j].end < list[k].start

LEMMA NodeFields ==
  ASSUME NEW list \in Seq(Node)
  PROVE  /\ DOMAIN list = 1 .. Len(list) /\ Len(list) \in Nat
         /\ \A k \in DOMAIN list :
              /\ list[k] \in Node
              /\ list[k].start \in Int /\ list[k].end \in Int /\ list[k].length \in Nat
<1>1. /\ DOMAIN list = 1 .. Len(list) /\ Len(list) \in Nat
      /\ \A k \in DOMAIN list : list[k] \in Node
  OBVIOUS
<1> QED
  BY <1>1 DEF Node

LEMMA SoundFields ==
  ASSUME NEW lo \in Int, NEW hi \in Int, NEW list, NEW used, Sound(list, used, lo, hi)
  PROVE  /\ list \in Seq(Node) /\ DOMAIN list = 1 .. Len(list) /\ Len(list) \in Nat
         /\ \A k \in DOMAIN list :
              /\ list[k] \in Node
              /\ list[k].start \in Int /\ list[k].end \in Int /\ list[k].length \in Nat
              /\ lo =< list[k].start /\ list[k].end =< hi
              /\ list[k].end = list[k].start + list[k].length
              /\ Whole(list[k].length)
         /\ \A a \in DOMAIN used :
              /\ a \in Int /\ lo =< a /\ a + used[a] =< hi
              /\ used[a] \in Nat /\ used[a] > 0 /\ Whole(used[a])
<1>1. list \in Seq(Node)
  BY DEF Sound, Nodes
<1>2. \A a \in DOMAIN used : used[a] \in Nat
  BY DEF Sound, Grants
<1> QED
  BY <1>1, <1>2, NodeFields DEF Sound, Nodes, Grants

(* A region starts at no granted address. *)
LEMMA StartIsFree ==
  ASSUME NEW lo \in Int, NEW hi \in Int, NEW list, NEW used, Sound(list, used, lo, hi),
         NEW k \in DOMAIN list, list[k].length > 0
  PROVE  list[k].start \notin DOMAIN used
<1>1. \A a \in DOMAIN used : ~Overlap(list[k].start, list[k].length, a, used[a]) /\ used[a] > 0 /\ used[a] \in Nat
  BY DEF Sound, NoOverlap, Grants
<1>2. list[k].start \in Int /\ list[k].length \in Nat
  BY SoundFields
<1> QED
  BY <1>1, <1>2 DEF Overlap

(* used2 is used with n granted at addr. *)
Notes(used, addr, n, used2) ==
  /\ used2 \in [DOMAIN used \union {addr} -> Nat]
  /\ used2[addr] = n
  /\ \A a \in DOMAIN used : a # addr => used2[a] = used[a]

(* In list2 the first n of region k are gone. *)
Shrinks(list, k, n, list2) ==
  /\ list2 \in Seq(Node) /\ DOMAIN list2 = DOMAIN list
  /\ \A j \in DOMAIN list \ {k} : list2[j] = list[j]
  /\ list2[k].start = list[k].start + n /\ list2[k].end = list[k].end
  /\ list2[k].length = list[k].length - n

(* In list2 the regions of D are gone, and those of P have come; h leads     *)
(* from the places of the others in list2 to their places in list.           *)
Moves(list, D, list2, P, h) ==
  /\ list2 \in Seq(Node)
  /\ h \in [DOMAIN list2 \ P -> DOMAIN list \ D]
  /\ \A i, j \in DOMAIN list2 \ P : h[i] = h[j] => i = j
  /\ \A i \in DOMAIN list \ D : \E j \in DOMAIN list2 \ P : h[j] = i
  /\ \A j \in DOMAIN list2 \ P : list2[j] = list[h[j]]

(* The front of region k is granted, and the region shrinks to the rest.     *)
LEMMA ShrunkKeeps ==
  ASSUME NEW lo \in Int, NEW hi \in Int, NEW list, NEW used, Sound(list, used, lo, hi),
         NEW k \in DOMAIN list, NEW L \in Nat \ {0}, Whole(L), L =< list[k].length,
         NEW list2, Shrinks(list, k, L, list2),
         NEW used2, Notes(used, list[k].start, L, used2)
  PROVE  Sound(list2, used2, lo, hi)
<1> USE DEF Shrinks, Notes
<1> DEFINE s == list[k].start
           n == list[k].length
<1>1. /\ s \in Int /\ n \in Nat /\ lo =< s /\ s + n =< hi /\ Whole(n) /\ list[k].end = s + n
      /\ s \notin DOMAIN used
  <2>1. s \in Int /\ n \in Nat /\ lo =< s /\ s + n =< hi /\ Whole(n) /\ list[k].end = s + n
    BY SoundFields
  <2>2. n > 0
    BY <2>1
  <2>3. s \notin DOMAIN used
    BY <2>2, StartIsFree
  <2> QED
    BY <2>1, <2>3
<1>2. \A a \in DOMAIN used : used2[a] = used[a]
  BY <1>1
<1>3. DOMAIN used2 = DOMAIN used \union {s}
  OBVIOUS
<1>4. Nodes(list2, lo, hi)
  <2>1. Whole(n - L) /\ n - L \in Nat
    BY <1>1, WholeRest
  <2>2. \A j \in DOMAIN list \ {k} :
          /\ lo =< list[j].start /\ list[j].end =< hi
          /\ list[j].end = list[j].start + list[j].length
          /\ Whole(list[j].length)
    BY SoundFields
  <2>3. /\ lo =< list2[k].start /\ list2[k].end =< hi
        /\ list2[k].end = list2[k].start + list2[k].length
        /\ Whole(list2[k].length)
    BY <2>1, <1>1
  <2> QED
    BY <2>2, <2>3 DEF Nodes
<1>5. Grants(used2, lo, hi)
  <2>1. \A a \in DOMAIN used : a \in Int /\ lo =< a /\ a + used[a] =< hi /\ used[a] > 0 /\ Whole(used[a])
    BY SoundFields
  <2>2. s \in Int /\ lo =< s /\ s + L =< hi /\ L > 0
    BY <1>1
  <2> QED
    BY <2>1, <2>2, <1>2, <1>3 DEF Grants
<1>6. \A j \in DOMAIN list : list[j].start \in Int /\ list[j].length \in Nat
  BY SoundFields
<1>7. \A a \in DOMAIN used : a \in Int /\ used[a] \in Nat
  BY SoundFields
<1>8. NoOverlap(list, used)
  BY DEF Sound
<1> HIDE DEF s, n
<1>9. /\ \A j \in DOMAIN list \ {k} : ~Overlap(s, n, list[j].start, list[j].length)
                                     /\ ~Overlap(list[j].start, list[j].length, s, n)
      /\ \A a \in DOMAIN used : ~Overlap(s, n, a, used[a]) /\ ~Overlap(a, used[a], s, n)
  BY <1>6, <1>7, <1>8, <1>1 DEF NoOverlap, s, n, Overlap
<1>10. ASSUME NEW b \in Int, NEW m \in Nat, ~Overlap(s, n, b, m)
       PROVE  /\ ~Overlap(s, L, b, m) /\ ~Overlap(b, m, s, L)
              /\ ~Overlap(s + L, n - L, b, m) /\ ~Overlap(b, m, s + L, n - L)
  BY <1>1, <1>10 DEF Overlap, n
<1>11. NoOverlap(list2, used2)
  <2>1. ASSUME NEW i \in DOMAIN list, NEW j \in DOMAIN list, i # j
        PROVE  ~Overlap(list2[i].start, list2[i].length, list2[j].start, list2[j].length)
    <3>1. CASE i = k
      <4>1. /\ list[j].start \in Int /\ list[j].length \in Nat
            /\ ~Overlap(s, n, list[j].start, list[j].length)
        BY <2>1, <3>1, <1>6, <1>9
      <4>2. ~Overlap(s + L, n - L, list[j].start, list[j].length)
        BY <4>1, <1>10
      <4> QED
        BY <4>2, <2>1, <3>1 DEF s, n
    <3>2. CASE j = k
      <4>1. /\ list[i].start \in Int /\ list[i].length \in Nat
            /\ ~Overlap(s, n, list[i].start, list[i].length)
        BY <2>1, <3>2, <1>6, <1>9
      <4>2. ~Overlap(list[i].start, list[i].length, s + L, n - L)
        BY <4>1, <1>10
      <4> QED
        BY <4>2, <2>1, <3>2 DEF s, n
    <3>3. CASE i # k /\ j # k
      BY <2>1, <3>3, <1>8 DEF NoOverlap
    <3> QED
      BY <3>1, <3>2, <3>3
  <2>2. ASSUME NEW j \in DOMAIN list, NEW a \in DOMAIN used
        PROVE  ~Overlap(list2[j].start, list2[j].length, a, used[a])
    <3>1. CASE j = k
      BY <3>1, <1>7, <1>9, <1>10 DEF s, n
    <3>2. CASE j # k
      BY <3>2, <1>8 DEF NoOverlap
    <3> QED
      BY <3>1, <3>2
  <2>3. ASSUME NEW j \in DOMAIN list
        PROVE  ~Overlap(list2[j].start, list2[j].length, s, L)
    <3>1. CASE j = k
      BY <3>1, <1>1 DEF Overlap, s, n
    <3>2. CASE j # k
      BY <3>2, <1>6, <1>9, <1>10
    <3> QED
      BY <3>1, <3>2
  <2>4. \A a \in DOMAIN used : ~Overlap(a, used[a], s, L) /\ ~Overlap(s, L, a, used[a])
    BY <1>7, <1>9, <1>10
  <2>5. \A a, b \in DOMAIN used : a # b => ~Overlap(a, used[a], b, used[b])
    BY <1>8 DEF NoOverlap
  <2>6. used2[s] = L
    BY DEF s
  <2> QED
    BY <2>1, <2>2, <2>3, <2>4, <2>5, <2>6, <1>2, <1>3 DEF NoOverlap
<1>12. Covered(list2, used2, lo, hi)
  <2> SUFFICES ASSUME NEW x \in lo .. hi - 1
               PROVE  \/ \E j \in DOMAIN list2 : list2[j].start =< x /\ x < list2[j].start + list2[j].length
                      \/ \E a \in DOMAIN used2 : a =< x /\ x < a + used2[a]
      BY DEF Covered
  <2>1. CASE \E a \in DOMAIN used : a =< x /\ x < a + used[a]
    BY <2>1, <1>2, <1>3
  <2>2. ASSUME NEW j \in DOMAIN list, list[j].start =< x, x < list[j].start + list[j].length, j # k
        PROVE  \E i \in DOMAIN list2 : list2[i].start =< x /\ x < list2[i].start + list2[i].length
    BY <2>2
  <2>3. CASE s =< x /\ x < s + n
    <3>1. CASE x < s + L
      BY <2>3, <3>1, <1>3 DEF s
    <3>2. CASE ~(x < s + L)
      <4>1. s + L =< x /\ x < (s + L) + (n - L)
        BY <2>3, <3>2, <1>1
      <4>2. list2[k].start = s + L /\ list2[k].length = n - L /\ k \in DOMAIN list2
        BY DEF s, n
      <4> QED
        BY <4>1, <4>2
    <3> QED
      BY <3>1, <3>2
  <2> QED
    BY <2>1, <2>2, <2>3 DEF Sound, Covered, s, n
<1> QED
  BY <1>4, <1>5, <1>11, <1>12 DEF Sound

In(x, start, length) == start =< x /\ x < start + length

LEMMA OverlapIs ==
  ASSUME NEW a \in Int, NEW m \in Nat, NEW b \in Int, NEW n \in Nat
  PROVE  Overlap(a, m, b, n) <=> \E x \in Int : In(x, a, m) /\ In(x, b, n)
<1>1. ASSUME Overlap(a, m, b, n) PROVE \E x \in Int : In(x, a, m) /\ In(x, b, n)
  <2>1. CASE a =< b
    BY <1>1, <2>1 DEF Overlap, In
  <2>2. CASE b =< a
    BY <1>1, <2>2 DEF Overlap, In
  <2> QED
    BY <2>1, <2>2
<1>2. ASSUME NEW x \in Int, In(x, a, m), In(x, b, n) PROVE Overlap(a, m, b, n)
  BY <1>2 DEF Overlap, In
<1> QED
  BY <1>1, <1>2

LEMMA NothingShared ==
  ASSUME NEW a \in Int, NEW m \in Nat, NEW b \in Int, NEW n \in Nat,
         \A x \in Int : ~(In(x, a, m) /\ In(x, b, n))
  PROVE  ~Overlap(a, m, b, n) /\ ~Overlap(b, n, a, m)
BY OverlapIs

(* The regions and the grants have no address in common. *)
LEMMA ApartIs ==
  ASSUME NEW lo \in Int, NEW hi \in Int, NEW list, NEW used, Sound(list, used, lo, hi), NEW x \in Int
  PROVE  /\ \A j, k \in DOMAIN list :
              In(x, list[j].start, list[j].length) /\ In(x, list[k].start, list[k].length) => j = k
         /\ \A j \in DOMAIN list, a \in DOMAIN used :
              ~(In(x, list[j].start, list[j].length) /\ In(x, a, used[a]))
         /\ \A a, b \in DOMAIN used : In(x, a, used[a]) /\ In(x, b, used[b]) => a = b
<1>1. /\ \A j \in DOMAIN list : list[j].start \in Int /\ list[j].length \in Nat
      /\ \A a \in DOMAIN used : a \in Int /\ used[a] \in Nat
  BY SoundFields
<1>2. NoOverlap(list, used)
  BY DEF Sound
<1> QED
  BY <1>1, <1>2, OverlapIs DEF NoOverlap

(* A whole region is granted, and leaves the list. *)
LEMMA RemovedKeeps ==
  ASSUME NEW lo \in Int, NEW hi \in Int, NEW list, NEW used, Sound(list, used, lo, hi),
         NEW k \in DOMAIN list, list[k].length > 0,
         NEW list2, NEW h, Moves(list, {k}, list2, {}, h),
         NEW used2, Notes(used, list[k].start, list[k].length, used2)
  PROVE  Sound(list2, used2, lo, hi)
<1> USE DEF Moves, Notes
<1> DEFINE s == list[k].start
           n == list[k].length
<1>1. s \in Int /\ n \in Nat /\ n > 0 /\ lo =< s /\ s + n =< hi /\ Whole(n)
  <2>1. /\ list[k].start \in Int /\ list[k].length \in Nat
        /\ lo =< list[k].start /\ list[k].end =< hi
        /\ list[k].end = list[k].start + list[k].length
        /\ Whole(list[k].length)
    BY SoundFields
  <2> QED
    BY <2>1
<1>2. /\ s \notin DOMAIN used
      /\ \A a \in DOMAIN used : used2[a] = used[a]
      /\ DOMAIN used2 = DOMAIN used \union {s}
      /\ used2[s] = n
  <2>1. s \notin DOMAIN used
    BY StartIsFree
  <2> QED
    BY <2>1
<1>3. NoOverlap(list, used)
  BY DEF Sound
<1>4. Nodes(list2, lo, hi)
  <2>1. \A i \in DOMAIN list : /\ lo =< list[i].start /\ list[i].end =< hi
                               /\ list[i].end = list[i].start + list[i].length
                               /\ Whole(list[i].length)
    BY SoundFields
  <2> QED
    BY <2>1 DEF Nodes
<1>5. Grants(used2, lo, hi)
  <2>1. \A a \in DOMAIN used : a \in Int /\ lo =< a /\ a + used[a] =< hi /\ used[a] > 0 /\ Whole(used[a])
    BY SoundFields
  <2> HIDE DEF s, n
  <2> QED
    BY <2>1, <1>1, <1>2 DEF Grants
<1>6. NoOverlap(list2, used2)
  <2>1. \A i, j \in DOMAIN list2 : i # j =>
          ~Overlap(list2[i].start, list2[i].length, list2[j].start, list2[j].length)
    BY <1>3 DEF NoOverlap
  <2>2. \A j \in DOMAIN list2 : \A a \in DOMAIN used : ~Overlap(list2[j].start, list2[j].length, a, used[a])
    BY <1>3 DEF NoOverlap
  <2>3. \A j \in DOMAIN list2 : ~Overlap(list2[j].start, list2[j].length, s, n)
    BY <1>3 DEF NoOverlap
  <2>4. ASSUME NEW a \in DOMAIN used
        PROVE  ~Overlap(a, used[a], s, n) /\ ~Overlap(s, n, a, used[a])
    <3>1. ~Overlap(s, n, a, used[a]) /\ a \in Int /\ used[a] \in Nat
      BY <1>3, SoundFields DEF NoOverlap
    <3> HIDE DEF s, n
    <3> QED
      BY <3>1, <1>1 DEF Overlap
  <2>5. \A a, b \in DOMAIN used : a # b => ~Overlap(a, used[a], b, used[b])
    BY <1>3 DEF NoOverlap
  <2> HIDE DEF s, n
  <2> QED
    BY <2>1, <2>2, <2>3, <2>4, <2>5, <1>2 DEF NoOverlap
<1>7. Covered(list2, used2, lo, hi)
  <2> SUFFICES ASSUME NEW x \in lo .. hi - 1
               PROVE  \/ \E j \in DOMAIN list2 : list2[j].start =< x /\ x < list2[j].start + list2[j].length
                      \/ \E a \in DOMAIN used2 : a =< x /\ x < a + used2[a]
      BY DEF Covered
  <2>1. CASE \E a \in DOMAIN used : a =< x /\ x < a + used[a]
    BY <2>1, <1>2
  <2>2. ASSUME NEW i \in DOMAIN list, list[i].start =< x, x < list[i].start + list[i].length, i # k
        PROVE  \E j \in DOMAIN list2 : list2[j].start =< x /\ x < list2[j].start + list2[j].length
    BY <2>2
  <2>3. CASE s =< x /\ x < s + n
    <3> HIDE DEF s, n
    <3> QED
      BY <2>3, <1>2
  <2> QED
    BY <2>1, <2>2, <2>3 DEF Sound, Covered
<1> QED
  BY <1>4, <1>5, <1>6, <1>7 DEF Sound

(* A grant is returned: together with the regions of D, which it touches, it *)
(* makes up the region at p of the new list; the others are as before.       *)
LEMMA JoinedKeeps ==
  ASSUME NEW lo \in Int, NEW hi \in Int, NEW list, NEW used, Sound(list, used, lo, hi),
         NEW addr \in DOMAIN used, NEW D \in SUBSET DOMAIN list,
         NEW list2, NEW p \in DOMAIN list2, NEW h, Moves(list, D, list2, {p}, h),
         list2[p].end = list2[p].start + list2[p].length, Whole(list2[p].length),
         lo =< list2[p].start, list2[p].end =< hi,
         \A x \in Int : In(x, list2[p].start, list2[p].length) <=>
           \/ In(x, addr, used[addr])
           \/ \E i \in D : In(x, list[i].start, list[i].length)
  PROVE  Sound(list2, Forgotten(used, addr), lo, hi)
<1> USE DEF Moves
<1> DEFINE s == list2[p].start
           n == list2[p].length
           used2 == Forgotten(used, addr)
<1>1. s \in Int /\ n \in Nat
  BY NodeFields
<1>2. DOMAIN used2 = DOMAIN used \ {addr} /\ \A a \in DOMAIN used2 : used2[a] = used[a]
  BY DEF Forgotten
<1>3. /\ \A i \in DOMAIN list : list[i].start \in Int /\ list[i].length \in Nat
      /\ \A a \in DOMAIN used : a \in Int /\ used[a] \in Nat
  BY SoundFields
<1>4. Nodes(list2, lo, hi)
  <2>1. \A i \in DOMAIN list : /\ lo =< list[i].start /\ list[i].end =< hi
                               /\ list[i].end = list[i].start + list[i].length
                               /\ Whole(list[i].length)
    BY SoundFields
  <2> QED
    BY <2>1 DEF Nodes
<1>5. Grants(used2, lo, hi)
  <2>1. \A a \in DOMAIN used :
          /\ a \in Int /\ lo =< a /\ a + used[a] =< hi
          /\ used[a] \in Nat /\ used[a] > 0 /\ Whole(used[a])
    BY SoundFields
  <2>2. used2 \in [DOMAIN used2 -> Nat]
    BY <2>1 DEF Forgotten
  <2> HIDE DEF used2
  <2> QED
    BY <2>1, <2>2, <1>2 DEF Grants
<1>6. ASSUME NEW j \in DOMAIN list2 \ {p}
      PROVE  ~Overlap(list2[j].start, list2[j].length, s, n) /\ ~Overlap(s, n, list2[j].start, list2[j].length)
  <2>1. h[j] \in DOMAIN list \ D /\ list2[j] = list[h[j]]
    OBVIOUS
  <2>2. ASSUME NEW x \in Int, In(x, list[h[j]].start, list[h[j]].length), In(x, s, n)
        PROVE  FALSE
    BY <2>1, <2>2, ApartIs
  <2> DEFINE b == list2[j].start
             m == list2[j].length
  <2>3. b \in Int /\ m \in Nat
    BY <2>1, <1>3
  <2>4. \A x \in Int : ~(In(x, b, m) /\ In(x, s, n))
    BY <2>1, <2>2
  <2> HIDE DEF s, n, b, m
  <2>5. ~Overlap(b, m, s, n) /\ ~Overlap(s, n, b, m)
    BY <2>3, <2>4, <1>1, NothingShared
  <2> QED
    BY <2>5 DEF b, m
<1>7. ASSUME NEW a \in DOMAIN used \ {addr}
      PROVE  ~Overlap(s, n, a, used[a])
  <2>1. ASSUME NEW x \in Int, In(x, a, used[a]), In(x, s, n)
        PROVE  FALSE
    BY <2>1, ApartIs
  <2>2. a \in Int /\ used[a] \in Nat
    BY <1>3
  <2> DEFINE m == used[a]
  <2> HIDE DEF s, n, m
  <2>3. \A x \in Int : ~(In(x, s, n) /\ In(x, a, m))
    BY <2>1 DEF m
  <2>4. ~Overlap(s, n, a, m)
    BY <2>2, <2>3, <1>1, NothingShared DEF m
  <2> QED
    BY <2>4 DEF m
<1>8. NoOverlap(list2, used2)
  <2>1. NoOverlap(list, used)
    BY DEF Sound
  <2>2. \A i, j \in DOMAIN list2 \ {p} : i # j =>
          ~Overlap(list2[i].start, list2[i].length, list2[j].start, list2[j].length)
    BY <2>1 DEF NoOverlap
  <2>3. \A j \in DOMAIN list2 \ {p} : \A a \in DOMAIN used :
          ~Overlap(list2[j].start, list2[j].length, a, used[a])
    BY <2>1 DEF NoOverlap
  <2>4. \A a, b \in DOMAIN used : a # b => ~Overlap(a, used[a], b, used[b])
    BY <2>1 DEF NoOverlap
  <2> HIDE DEF used2
  <2> QED
    BY <2>2, <2>3, <2>4, <1>2, <1>6, <1>7 DEF NoOverlap
<1>9. Covered(list2, used2, lo, hi)
  <2> SUFFICES ASSUME NEW x \in lo .. hi - 1
               PROVE  \/ \E j \in DOMAIN list2 : In(x, list2[j].start, list2[j].length)
                      \/ \E a \in DOMAIN used2 : In(x, a, used2[a])
      BY DEF Covered, In
  <2>1. x \in Int
    OBVIOUS
  <2>2. \/ \E i \in DOMAIN list : In(x, list[i].start, list[i].length)
        \/ \E a \in DOMAIN used : In(x, a, used[a])
    BY DEF Sound, Covered, In
  <2>3. \A i \in D : In(x, list[i].start, list[i].length) => In(x, s, n)
    BY <2>1
  <2>4. In(x, addr, used[addr]) => In(x, s, n)
    BY <2>1
  <2>5. \A i \in DOMAIN list \ D : In(x, list[i].start, list[i].length) =>
          \E j \in DOMAIN list2 : In(x, list2[j].start, list2[j].length)
    OBVIOUS
  <2> HIDE DEF used2
  <2> QED
    BY <2>2, <2>3, <2>4, <2>5, <1>2
<1> QED
  BY <1>4, <1>5, <1>8, <1>9 DEF Sound

-----------------------------------------------------------------------------
(* The two walks over the list. *)

LEMMA FirstFitFits ==
  ASSUME NEW list \in Seq(Node), NEW size, Fits(list, size)
  PROVE  FirstFit(list, size) \in DOMAIN list /\ list[FirstFit(list, size)].length >= size
<1>1. Fitting(list, size) \in SUBSET Nat /\ Fitting(list, size) # {}
  BY DEF Fits, Fitting
<1>2. Min(Fitting(list, size)) \in Fitting(list, size)
  BY <1>1, MinIsLeast
<1> QED
  BY <1>2 DEF FirstFit, Fitting

LEMMA BeforeIs ==
  ASSUME NEW list \in Seq(Node), NEW addr \in Int, ~RunsOff(list, addr)
  PROVE  /\ Before(list, addr) \in 0 .. Len(list) - 1
         /\ list[Before(list, addr) + 1].start >= addr
         /\ \A j \in 1 .. Before(list, addr) : list[j].start < addr
<1>1. NotBelow(list, addr) \in SUBSET Nat /\ NotBelow(list, addr) # {}
  BY DEF RunsOff, NotBelow
<1>2. PICK m \in NotBelow(list, addr) :
        m = Min(NotBelow(list, addr)) /\ \A n \in NotBelow(list, addr) : m =< n
  BY <1>1, MinIsLeast
<1>3. m \in 1 .. Len(list) /\ list[m].start >= addr
  BY <1>2 DEF NotBelow
<1>4. ASSUME NEW j \in 1 .. Len(list), j < m PROVE list[j].start < addr
  <2>1. j \notin NotBelow(list, addr)
    BY <1>2, <1>3, <1>4
  <2>2. list[j].start \in Int /\ j \in DOMAIN list
    BY NodeFields
  <2> QED
    BY <2>1, <2>2 DEF NotBelow
<1>5. Before(list, addr) = m - 1
  BY <1>2 DEF Before
<1>6. m - 1 \in 0 .. Len(list) - 1 /\ (m - 1) + 1 = m
  BY <1>3
<1> QED
  BY <1>3, <1>4, <1>5, <1>6

(* A region of just the size asked for leaves the list. *)
LEMMA GrantingWhole ==
  ASSUME NEW lo \in Int, NEW hi \in Int, NEW list, NEW used, Sound(list, used, lo, hi),
         NEW k \in DOMAIN list, list[k].length > 0,
         NEW used2, Notes(used, list[k].start, list[k].length, used2)
  PROVE  /\ Sound(RemoveAt(list, k), used2, lo, hi)
         /\ Gapped(list) => Gapped(RemoveAt(list, k))
<1> DEFINE h == [j \in 1 .. Len(list) - 1 |-> IF j < k THEN j ELSE j + 1]
           list2 == RemoveAt(list, k)
<1>1. list \in Seq(Node) /\ DOMAIN list = 1 .. Len(list) /\ Len(list) \in Nat
  BY SoundFields
<1>2. /\ list2 \in Seq(Node) /\ Len(list2) = Len(list) - 1
      /\ \A j \in 1 .. Len(list) - 1 : list2[j] = IF j < k THEN list[j] ELSE list[j + 1]
  <2>1. list \in Seq(Node) /\ k \in 1 .. Len(list)
    BY <1>1
  <2> QED
    BY <2>1, RemovedAt, Zenon
<1> HIDE DEF list2
<1>3. DOMAIN list2 = 1 .. Len(list) - 1 /\ \A j \in DOMAIN list2 : list2[j] = list[h[j]]
  BY <1>1, <1>2
<1>4. /\ h \in [DOMAIN list2 -> DOMAIN list \ {k}]
      /\ \A i, j \in DOMAIN list2 : h[i] = h[j] => i = j
      /\ \A i, j \in DOMAIN list2 : i < j => h[i] < h[j]
  BY <1>1, <1>3
<1>5. ASSUME NEW i \in DOMAIN list \ {k} PROVE \E j \in DOMAIN list2 : h[j] = i
  <2>1. CASE i < k
    <3>1. i \in 1 .. Len(list) - 1 /\ h[i] = i
      BY <2>1, <1>1
    <3> QED
      BY <3>1, <1>3
  <2>2. CASE i > k
    <3>1. i - 1 \in 1 .. Len(list) - 1 /\ h[i - 1] = i
      BY <2>2, <1>1
    <3> QED
      BY <3>1, <1>3
  <2> HIDE DEF h
  <2> QED
    BY <2>1, <2>2, <1>1
<1> HIDE DEF h
<1>6. Sound(list2, used2, lo, hi)
  <2>1. Moves(list, {k}, list2, {}, h)
    BY <1>2, <1>3, <1>4, <1>5 DEF Moves
  <2> QED
    BY <2>1, RemovedKeeps
<1>7. ASSUME Gapped(list) PROVE Gapped(list2)
  <2>1. \A j \in DOMAIN list2 : list2[j].length > 0
    BY <1>3, <1>4, <1>7 DEF Gapped
  <2>2. ASSUME NEW i \in DOMAIN list2, NEW j \in DOMAIN list2, i < j
        PROVE  list2[i].end < list2[j].start
    <3>1. h[i] \in DOMAIN list /\ h[j] \in DOMAIN list /\ h[i] < h[j]
      BY <2>2, <1>4
    <3>2. list[h[i]].end < list[h[j]].start
      BY <3>1, <1>7 DEF Gapped
    <3> QED
      BY <3>2, <1>3
  <2> QED
    BY <2>1, <2>2 DEF Gapped
<1> QED
  BY <1>6, <1>7 DEF list2

(* In list2 the fields of region k have other values. *)
Updates(list, k, start, end, length, list2) ==
  /\ list2 \in Seq(Node) /\ DOMAIN list2 = DOMAIN list
  /\ \A j \in DOMAIN list \ {k} : list2[j] = list[j]
  /\ list2[k].start = start /\ list2[k].end = end /\ list2[k].length = length

LEMMA StartUpdated ==
  ASSUME NEW list \in Seq(Node), NEW k \in DOMAIN list, NEW s \in Int, NEW n \in Nat
  PROVE  Updates(list, k, s, list[k].end, n, [list EXCEPT ![k].start = s, ![k].length = n])
<1> DEFINE r == [list[k] EXCEPT !.start = s, !.length = n]
           list2 == [list EXCEPT ![k].start = s, ![k].length = n]
<1>1. list2 = [list EXCEPT ![k] = r]
  OBVIOUS
<1> HIDE DEF list2
<1>2. r \in Node /\ r.start = s /\ r.end = list[k].end /\ r.length = n
  BY NodeFields DEF Node
<1> HIDE DEF r
<1>3. /\ list2 \in Seq(Node) /\ DOMAIN list2 = DOMAIN list
      /\ list2[k] = r /\ \A j \in DOMAIN list \ {k} : list2[j] = list[j]
  <2> HIDE DEF Node
  <2>1. list2 = [list EXCEPT ![k] = r] /\ r \in Node
    BY <1>1, <1>2
  <2>2. /\ [list EXCEPT ![k] = r] \in Seq(Node) /\ DOMAIN [list EXCEPT ![k] = r] = DOMAIN list
        /\ [list EXCEPT ![k] = r][k] = r
        /\ \A j \in DOMAIN list \ {k} : [list EXCEPT ![k] = r][j] = list[j]
    BY <2>1, Replaced, Zenon
  <2> QED
    BY <2>1, <2>2, Zenon
<1> QED
  BY <1>2, <1>3 DEF Updates, list2

(* From a larger one the rounded size is cut off the front. *)
LEMMA GrantingPart ==
  ASSUME NEW lo \in Int, NEW hi \in Int, NEW list, NEW used, Sound(list, used, lo, hi),
         NEW k \in DOMAIN list, NEW L \in Nat \ {0}, Whole(L), L =< list[k].length,
         NEW used2, Notes(used, list[k].start, L, used2),
         NEW list2, Shrinks(list, k, L, list2)
  PROVE  /\ Sound(list2, used2, lo, hi)
         /\ L < list[k].length /\ Gapped(list) => Gapped(list2)
<1>1. /\ list \in Seq(Node) /\ DOMAIN list = 1 .. Len(list) /\ Len(list) \in Nat
      /\ \A j \in DOMAIN list : /\ list[j] \in Node /\ list[j].start \in Int /\ list[j].end \in Int
                                /\ list[j].length \in Nat
  BY SoundFields
<1>2. /\ list2 \in Seq(Node) /\ DOMAIN list2 = DOMAIN list
      /\ \A j \in DOMAIN list \ {k} : list2[j] = list[j]
      /\ list2[k].start = list[k].start + L /\ list2[k].end = list[k].end
      /\ list2[k].length = list[k].length - L
  BY DEF Shrinks
<1>3. Sound(list2, used2, lo, hi)
  BY ShrunkKeeps
<1>4. ASSUME L < list[k].length, Gapped(list) PROVE Gapped(list2)
  <2>1. list2[k].length > 0 /\ list2[k].start > list[k].start
        /\ list[k].start \in Int /\ list2[k].start \in Int
    BY <1>1, <1>2, <1>4
  <2>2. \A j \in DOMAIN list2 : list2[j].length > 0
    BY <2>1, <1>2, <1>4 DEF Gapped
  <2>3. ASSUME NEW i \in DOMAIN list, NEW j \in DOMAIN list, i < j
        PROVE  list2[i].end < list2[j].start
    <3>1. list[i].end < list[j].start /\ list[i].end \in Int /\ list[j].start \in Int
      BY <2>3, <1>1, <1>4 DEF Gapped
    <3>2. list2[i].end = list[i].end
      BY <1>2
    <3>3. list2[j].start = list[j].start \/ (j = k /\ list2[j].start > list[j].start)
      BY <2>1, <1>2
    <3> QED
      BY <3>1, <3>2, <3>3, <2>1
  <2> QED
    BY <2>2, <2>3, <1>2 DEF Gapped
<1> QED
  BY <1>3, <1>4

(* What the walk finds is free, large enough, and leaves the rest in order. *)
LEMMA Granting ==
  ASSUME NEW lo \in Int, NEW hi \in Int, NEW list, NEW used, Sound(list, used, lo, hi),
         NEW size \in Nat \ {0}, Fits(list, size)
  PROVE  /\ Granted(list, size).addr \in Int \ DOMAIN used
         /\ lo =< Granted(list, size).addr
         /\ Granted(list, size).length \in Nat /\ size =< Granted(list, size).length
         /\ Granted(list, size).addr + Granted(list, size).length =< hi
         /\ Sound(Taken(list, size), Noted(used, Granted(list, size)), lo, hi)
         /\ Whole(size) /\ Gapped(list) => Gapped(Taken(list, size))
<1> DEFINE g == Granted(list, size)
           used2 == Noted(used, g)
<1>1. list \in Seq(Node)
  BY SoundFields
<1>2. PICK k \in DOMAIN list : k = FirstFit(list, size) /\ list[k].length >= size
  BY <1>1, FirstFitFits
<1>3. /\ list[k].start \in Int /\ list[k].length \in Nat
      /\ lo =< list[k].start /\ list[k].end =< hi /\ list[k].end \in Int
      /\ list[k].end = list[k].start + list[k].length
      /\ Whole(list[k].length)
  BY <1>2, SoundFields
<1>4. list[k].length > 0
  BY <1>2, <1>3
<1>5. list[k].start \notin DOMAIN used
  BY <1>2, <1>4, StartIsFree
<1>6. RoundUp(size) \in Nat /\ size =< RoundUp(size) /\ Whole(RoundUp(size)) /\ RoundUp(size) =< list[k].length
  BY <1>2, <1>3, RoundedUp
<1>7. g.addr = list[k].start /\ g.length = IF list[k].length = size THEN size ELSE RoundUp(size)
  BY <1>2 DEF Granted
<1>8. Taken(list, size) =
        IF list[k].length = size THEN RemoveAt(list, k)
        ELSE [list EXCEPT ![k].start = list[k].start + RoundUp(size),
                          ![k].length = list[k].length - RoundUp(size)]
  BY <1>2 DEF Taken
<1> HIDE DEF g
<1>9. g.length \in Nat \ {0} /\ size =< g.length /\ g.length =< list[k].length
  BY <1>2, <1>3, <1>6, <1>7
<1>10. Notes(used, list[k].start, g.length, used2)
  <2>1. \A a \in DOMAIN used : used[a] \in Nat
    BY SoundFields
  <2>2. used2 = [a \in DOMAIN used \union {list[k].start} |->
                   IF a = list[k].start THEN g.length ELSE used[a]]
    BY <1>7 DEF Noted
  <2> HIDE DEF used2
  <2> QED
    BY <2>1, <2>2, <1>9 DEF Notes
<1> HIDE DEF used2
<1>11. CASE list[k].length = size
  <2>1. Notes(used, list[k].start, list[k].length, used2)
    BY <1>7, <1>10, <1>11
  <2>2. /\ Sound(RemoveAt(list, k), used2, lo, hi)
        /\ Gapped(list) => Gapped(RemoveAt(list, k))
    BY <2>1, <1>4, <1>10, GrantingWhole
  <2> QED
    BY <2>2, <1>3, <1>5, <1>7, <1>8, <1>9, <1>11 DEF g, used2
<1>12. CASE list[k].length # size
  <2>1. Notes(used, list[k].start, RoundUp(size), used2) /\ RoundUp(size) \in Nat \ {0}
    BY <1>6, <1>7, <1>10, <1>12
  <2>2. Shrinks(list, k, RoundUp(size), Taken(list, size))
    <3> DEFINE s2 == list[k].start + RoundUp(size)
               n2 == list[k].length - RoundUp(size)
               list2 == Taken(list, size)
    <3>1. s2 \in Int /\ n2 \in Nat
      BY <1>3, <1>6
    <3>2. list2 = [list EXCEPT ![k].start = s2, ![k].length = n2]
      BY <1>8, <1>12
    <3> HIDE DEF s2, n2, list2
    <3>3. Updates(list, k, s2, list[k].end, n2, list2)
      BY <1>1, <3>1, <3>2, StartUpdated, Zenon
    <3> QED
      BY <3>3 DEF Updates, Shrinks, s2, n2, list2
  <2>3. /\ Sound(Taken(list, size), used2, lo, hi)
        /\ RoundUp(size) < list[k].length /\ Gapped(list) => Gapped(Taken(list, size))
    BY <2>1, <2>2, <1>6, <1>10, GrantingPart
  <2>4. Whole(size) => RoundUp(size) < list[k].length
    <3>1. Whole(size) => RoundUp(size) =< size
      BY RoundedUp
    <3> QED
      BY <3>1, <1>2, <1>3, <1>6, <1>12
  <2> QED
    BY <2>3, <2>4, <1>3, <1>5, <1>6, <1>7, <1>8, <1>9, <1>12 DEF g, used2
<1> QED
  BY <1>11, <1>12

LEMMA EndUpdated ==
  ASSUME NEW list \in Seq(Node), NEW k \in DOMAIN list, NEW e \in Int, NEW n \in Nat
  PROVE  Updates(list, k, list[k].start, e, n, [list EXCEPT ![k].end = e, ![k].length = n])
<1> DEFINE r == [list[k] EXCEPT !.end = e, !.length = n]
           list2 == [list EXCEPT ![k].end = e, ![k].length = n]
<1>1. list2 = [list EXCEPT ![k] = r]
  OBVIOUS
<1> HIDE DEF list2
<1>2. r \in Node /\ r.start = list[k].start /\ r.end = e /\ r.length = n
  BY NodeFields DEF Node
<1> HIDE DEF r
<1>3. /\ list2 \in Seq(Node) /\ DOMAIN list2 = DOMAIN list
      /\ list2[k] = r /\ \A j \in DOMAIN list \ {k} : list2[j] = list[j]
  <2> HIDE DEF Node
  <2>1. list2 = [list EXCEPT ![k] = r] /\ r \in Node
    BY <1>1, <1>2
  <2>2. /\ [list EXCEPT ![k] = r] \in Seq(Node) /\ DOMAIN [list EXCEPT ![k] = r] = DOMAIN list
        /\ [list EXCEPT ![k] = r][k] = r
        /\ \A j \in DOMAIN list \ {k} : [list EXCEPT ![k] = r][j] = list[j]
    BY <2>1, Replaced, Zenon
  <2> QED
    BY <2>1, <2>2, Zenon
<1> QED
  BY <1>2, <1>3 DEF Updates, list2

LEMMA GrownIs ==
  ASSUME NEW list \in Seq(Node), NEW k \in DOMAIN list, NEW e \in Int, NEW more \in Nat
  PROVE  Updates(list, k, list[k].start, e, list[k].length + more, Grown(list, k, e, more))
<1> DEFINE n == list[k].length + more
<1>1. n \in Nat
  BY NodeFields
<1>2. Grown(list, k, e, more) = [list EXCEPT ![k].end = e, ![k].length = n]
  BY DEF Grown
<1> HIDE DEF n
<1>3. Updates(list, k, list[k].start, e, n, Grown(list, k, e, more))
  <2>1. Updates(list, k, list[k].start, e, n, [list EXCEPT ![k].end = e, ![k].length = n])
    BY <1>1, EndUpdated
  <2> QED
    BY <2>1, <1>2, Zenon
<1> QED
  BY <1>3 DEF n

(* A list in order stays so if its regions move without passing one another, *)
(* and the new one leaves gaps on both sides.                                *)
LEMMA MovedGapped ==
  ASSUME NEW list, Gapped(list), NEW D, NEW list2, NEW p \in DOMAIN list2, NEW h,
         Moves(list, D, list2, {p}, h),
         \A i, j \in DOMAIN list2 \ {p} : i < j => h[i] < h[j],
         list2[p].length > 0,
         \A j \in DOMAIN list2 : j < p => list2[j].end < list2[p].start,
         \A j \in DOMAIN list2 : p < j => list2[p].end < list2[j].start
  PROVE  Gapped(list2)
<1>1. \A j \in DOMAIN list2 \ {p} : h[j] \in DOMAIN list /\ list2[j] = list[h[j]]
  BY DEF Moves
<1>2. \A j \in DOMAIN list2 : list2[j].length > 0
  BY <1>1 DEF Gapped
<1>3. ASSUME NEW i \in DOMAIN list2, NEW j \in DOMAIN list2, i < j
      PROVE  list2[i].end < list2[j].start
  <2>1. CASE i = p
    BY <1>3, <2>1
  <2>2. CASE j = p
    BY <1>3, <2>2
  <2>3. CASE i # p /\ j # p
    <3>1. list[h[i]].end < list[h[j]].start
      BY <1>1, <1>3, <2>3 DEF Gapped
    <3> QED
      BY <1>1, <2>3, <3>1
  <2> QED
    BY <2>1, <2>2, <2>3
<1> QED
  BY <1>2, <1>3 DEF Gapped

(* The returned grant lies between the regions that the walk stops between.  *)
Between(list, addr, k) ==
  /\ k \in 0 .. Len(list) - 1
  /\ list[k + 1].start >= addr
  /\ \A j \in 1 .. k : list[j].start < addr

LEMMA Apart ==
  ASSUME NEW a \in Int, NEW m \in Nat, NEW b \in Int, NEW n \in Nat, m > 0, n > 0,
         ~Overlap(a, m, b, n)
  PROVE  (a < b => a + m =< b) /\ (b =< a => b + n =< a)
BY DEF Overlap

LEMMA GapsAround ==
  ASSUME NEW lo \in Int, NEW hi \in Int, NEW list, NEW used, Sound(list, used, lo, hi),
         NEW addr \in DOMAIN used, NEW k, Between(list, addr, k), Gapped(list)
  PROVE  /\ \A j \in 1 .. k : list[j].end =< addr /\ (j < k => list[j].end < addr)
         /\ \A j \in k + 1 .. Len(list) :
              /\ addr + used[addr] =< list[j].start
              /\ j > k + 1 => addr + used[addr] < list[j].start
<1>1. /\ list \in Seq(Node) /\ DOMAIN list = 1 .. Len(list) /\ Len(list) \in Nat
      /\ \A j \in DOMAIN list : /\ list[j].start \in Int /\ list[j].end \in Int /\ list[j].length \in Nat
                                /\ list[j].end = list[j].start + list[j].length
      /\ addr \in Int /\ used[addr] \in Nat /\ used[addr] > 0
  BY SoundFields
<1>2. /\ \A j \in DOMAIN list : list[j].length > 0
      /\ \A i, j \in DOMAIN list : i < j => list[i].end < list[j].start
      /\ \A j \in DOMAIN list : ~Overlap(list[j].start, list[j].length, addr, used[addr])
  BY DEF Gapped, Sound, NoOverlap
<1>3. k \in 0 .. Len(list) - 1 /\ list[k + 1].start >= addr /\ \A j \in 1 .. k : list[j].start < addr
  BY DEF Between
<1>4. ASSUME NEW j \in 1 .. k PROVE list[j].end =< addr /\ (j < k => list[j].end < addr)
  <2>1. j \in DOMAIN list /\ list[j].start < addr
    BY <1>1, <1>3
  <2>2. list[j].end =< addr
    <3>1. list[j].start + list[j].length =< addr
      BY <2>1, <1>1, <1>2, Apart
    <3> QED
      BY <3>1, <2>1, <1>1
  <2>3. ASSUME j < k PROVE list[j].end < addr
    <3>1. k \in DOMAIN list /\ list[k].start < addr
      BY <1>1, <1>3
    <3>2. list[j].end < list[k].start
      BY <3>1, <2>1, <2>3, <1>2
    <3>3. list[j].end \in Int /\ list[k].start \in Int /\ addr \in Int
      BY <3>1, <2>1, <1>1
    <3> QED
      BY <3>1, <3>2, <3>3
  <2> QED
    BY <2>2, <2>3
<1>5. k + 1 \in DOMAIN list /\ addr + used[addr] =< list[k + 1].start
  <2>1. k + 1 \in DOMAIN list
    BY <1>1, <1>3
  <2> DEFINE t == list[k + 1]
  <2>2. /\ t.start \in Int /\ t.length \in Nat /\ t.length > 0 /\ t.start >= addr
        /\ ~Overlap(t.start, t.length, addr, used[addr])
    BY <2>1, <1>1, <1>2, <1>3
  <2> HIDE DEF t
  <2>3. addr + used[addr] =< t.start
    BY <2>2, <1>1, Apart
  <2> QED
    BY <2>1, <2>3 DEF t
<1>6. ASSUME NEW j \in k + 1 .. Len(list), j > k + 1 PROVE addr + used[addr] < list[j].start
  <2>1. j \in DOMAIN list
    BY <1>1, <1>3
  <2>2. list[k + 1].end < list[j].start
    <3>1. k + 1 < j
      BY <1>3, <1>6
    <3> QED
      BY <3>1, <2>1, <1>2, <1>5
  <2>3. list[k + 1].start =< list[k + 1].end /\ list[k + 1].start \in Int /\ list[k + 1].end \in Int
    <3> DEFINE t == list[k + 1]
    <3>1. t.start \in Int /\ t.end \in Int /\ t.length \in Nat /\ t.end = t.start + t.length
      BY <1>1, <1>5, Zenon
    <3> HIDE DEF t
    <3>2. t.start =< t.end
      BY <3>1
    <3> QED
      BY <3>1, <3>2 DEF t
  <2>4. addr + used[addr] =< list[k + 1].start /\ addr + used[addr] \in Int /\ list[j].start \in Int
    BY <2>1, <1>1, <1>5
  <2> QED
    BY <2>2, <2>3, <2>4
<1>7. ASSUME NEW j \in k + 1 .. Len(list) PROVE addr + used[addr] =< list[j].start
  <2>1. CASE j = k + 1
    BY <2>1, <1>5
  <2>2. CASE j > k + 1
    <3>1. j \in DOMAIN list
      BY <1>1, <1>3
    <3> QED
      BY <2>2, <3>1, <1>1, <1>6
  <2> QED
    BY <2>1, <2>2, <1>3
<1> QED
  BY <1>4, <1>6, <1>7

(* The facts about the place of a returned grant that the four cases share.  *)
LEMMA Place ==
  ASSUME NEW lo \in Int, NEW hi \in Int, NEW list, NEW used, Sound(list, used, lo, hi),
         NEW addr \in DOMAIN used, NEW k, Between(list, addr, k)
  PROVE  /\ list \in Seq(Node) /\ DOMAIN list = 1 .. Len(list) /\ Len(list) \in Nat
         /\ k \in 0 .. Len(list) - 1 /\ k + 1 \in DOMAIN list /\ (k > 0 => k \in DOMAIN list)
         /\ \A j \in DOMAIN list : /\ list[j].start \in Int /\ list[j].end \in Int
                                   /\ list[j].length \in Nat /\ Whole(list[j].length)
                                   /\ list[j].end = list[j].start + list[j].length
                                   /\ lo =< list[j].start /\ list[j].end =< hi
         /\ addr \in Int /\ used[addr] \in Nat /\ used[addr] > 0 /\ Whole(used[addr])
         /\ lo =< addr /\ addr + used[addr] =< hi
<1>1. k \in 0 .. Len(list) - 1
  BY DEF Between
<1> QED
  BY <1>1, SoundFields

LEMMA PlaceAt ==
  ASSUME NEW lo \in Int, NEW hi \in Int, NEW list, NEW used, Sound(list, used, lo, hi),
         NEW addr \in DOMAIN used, NEW k, Between(list, addr, k), NEW j \in DOMAIN list
  PROVE  /\ list[j].start \in Int /\ list[j].length \in Nat /\ Whole(list[j].length)
         /\ list[j].end = list[j].start + list[j].length /\ list[j].end =< hi
<1>1. Nodes(list, lo, hi)
  BY Zenon DEF Sound
<1>2. list \in Seq(Node)
  BY <1>1, Zenon DEF Nodes
<1>3. list[j].start \in Int /\ list[j].length \in Nat
  BY <1>2, NodeFields, Zenon
<1>4. /\ Whole(list[j].length) /\ list[j].end = list[j].start + list[j].length
      /\ list[j].end =< hi
  BY <1>1, Zenon DEF Nodes
<1> QED
  BY <1>3, <1>4, Zenon

(* In list2 one region from start to end stands in place of those of list    *)
(* after i and before j.                                                     *)
Replaces(list, i, j, start, end, list2) ==
  /\ list2 \in Seq(Node)
  /\ Len(list2) = Len(list) + (i + 2 - j)
  /\ \A m \in 1 .. i : list2[m] = list[m]
  /\ \A m \in j .. Len(list) : list2[m + (i + 2 - j)] = list[m]
  /\ list2[i + 1].start = start /\ list2[i + 1].end = end
  /\ list2[i + 1].length = end - start

LEMMA ReplacedMoves ==
  ASSUME NEW list \in Seq(Node), NEW i \in 0 .. Len(list), NEW j \in i + 1 .. Len(list) + 1,
         NEW start, NEW end, NEW list2, Replaces(list, i, j, start, end, list2)
  PROVE  \E h : /\ Moves(list, (i + 1) .. (j - 1), list2, {i + 1}, h)
                /\ \A m, n \in DOMAIN list2 \ {i + 1} : m < n => h[m] < h[n]
                /\ \A m \in DOMAIN list2 : m < i + 1 => h[m] = m
                /\ \A m \in DOMAIN list2 : m > i + 1 => h[m] >= j
<1> DEFINE N  == Len(list)
           N2 == Len(list2)
           d  == j - (i + 2)
           D  == (i + 1) .. (j - 1)
           h  == [m \in (1 .. N2) \ {i + 1} |-> IF m =< i THEN m ELSE m + d]
<1>1. /\ N \in Nat /\ N2 \in Nat /\ DOMAIN list = 1 .. N /\ DOMAIN list2 = 1 .. N2
      /\ list2 \in Seq(Node) /\ d \in Int /\ N2 = N - d /\ i \in Nat /\ j \in Nat /\ d + i + 2 = j
      /\ i =< N /\ i + 1 =< j /\ j =< N + 1
  <2>1. list2 \in Seq(Node) /\ N2 = N + (i + 2 - j)
    BY Zenon DEF Replaces
  <2>2. N \in Nat /\ N2 \in Nat /\ DOMAIN list = 1 .. N /\ DOMAIN list2 = 1 .. N2
    BY <2>1
  <2>3. i \in Nat /\ j \in Nat /\ i =< N /\ i + 1 =< j /\ j =< N + 1
    BY <2>2
  <2> HIDE DEF N, N2
  <2>4. d \in Int /\ N2 = N - d /\ d + i + 2 = j
    BY <2>1, <2>2, <2>3
  <2> QED
    BY <2>1, <2>2, <2>3, <2>4, Zenon
<1>2. /\ \A m \in 1 .. i : list2[m] = list[m]
      /\ \A m \in j .. N : list2[m - d] = list[m]
  <2>1. /\ \A m \in 1 .. i : list2[m] = list[m]
        /\ \A m \in j .. N : list2[m + (i + 2 - j)] = list[m]
    BY Zenon DEF Replaces
  <2> HIDE DEF N, d
  <2>2. ASSUME NEW m \in j .. N PROVE list2[m - d] = list[m]
    <3>1. m + (i + 2 - j) = m - d
      BY <1>1
    <3>2. list2[m + (i + 2 - j)] = list[m]
      BY <2>1, Zenon
    <3> QED
      BY <3>1, <3>2, Zenon
  <2> QED
    BY <2>1, <2>2
<1> HIDE DEF N, N2, d, D
<1>3. \A m \in (1 .. N2) \ {i + 1} : h[m] = IF m =< i THEN m ELSE m + d
  OBVIOUS
<1>4. ASSUME NEW m \in (1 .. N2) \ {i + 1}
      PROVE  /\ h[m] \in (1 .. N) \ D
             /\ m < i + 1 => h[m] = m
             /\ m > i + 1 => h[m] >= j
  BY <1>1, <1>3 DEF D
<1>5. ASSUME NEW m \in (1 .. N2) \ {i + 1}, NEW n \in (1 .. N2) \ {i + 1}
      PROVE  (m < n => h[m] < h[n]) /\ (h[m] = h[n] => m = n)
  BY <1>1, <1>3
<1>6. ASSUME NEW n \in (1 .. N) \ D PROVE \E m \in (1 .. N2) \ {i + 1} : h[m] = n
  <2>1. CASE n =< i
    <3>1. n \in (1 .. N2) \ {i + 1}
      BY <2>1, <1>1
    <3> QED
      BY <2>1, <3>1, <1>3
  <2>2. CASE n >= j
    <3>1. n - d \in (1 .. N2) \ {i + 1} /\ ~(n - d =< i) /\ (n - d) + d = n
      BY <2>2, <1>1
    <3> QED
      BY <3>1, <1>3
  <2>3. n =< i \/ n >= j
    BY <1>1 DEF D
  <2> QED
    BY <2>1, <2>2, <2>3
<1>7. ASSUME NEW m \in (1 .. N2) \ {i + 1} PROVE list2[m] = list[h[m]]
  <2>1. CASE m =< i
    BY <2>1, <1>1, <1>2, <1>3
  <2>2. CASE ~(m =< i)
    <3>1. m + d \in j .. N /\ (m + d) - d = m
      BY <2>2, <1>1
    <3>2. list2[(m + d) - d] = list[m + d]
      BY <3>1, <1>2
    <3> QED
      BY <2>2, <3>1, <3>2, <1>3
  <2> QED
    BY <2>1, <2>2
<1>8. h \in [(1 .. N2) \ {i + 1} -> (1 .. N) \ D]
  <2>1. h = [m \in (1 .. N2) \ {i + 1} |-> h[m]]
    OBVIOUS
  <2> HIDE DEF h
  <2> QED
    BY <2>1, <1>4
<1> HIDE DEF h
<1>9. Moves(list, D, list2, {i + 1}, h)
  BY <1>1, <1>5, <1>6, <1>7, <1>8 DEF Moves
<1>10. /\ \A m \in DOMAIN list2 : m < i + 1 => h[m] = m
       /\ \A m \in DOMAIN list2 : m > i + 1 => h[m] >= j
  <2>1. \A m \in 1 .. N2 : m < i + 1 \/ m > i + 1 => m # i + 1
    BY <1>1
  <2> QED
    BY <2>1, <1>1, <1>4
<1>11. \A m, n \in DOMAIN list2 \ {i + 1} : m < n => h[m] < h[n]
  BY <1>1, <1>5
<1> QED
  BY <1>9, <1>10, <1>11 DEF D
(* The region that a grant of n at addr, returned between k and k + 1, makes *)
(* up: alone, or with the neighbours that it touches.                        *)
Meets(list, addr, n, k, i, j, start, end) ==
  /\ \/ i = k /\ start = addr /\ (k > 0 => list[k].end # addr)
     \/ i = k - 1 /\ k > 0 /\ list[k].end = addr /\ start = list[k].start
  /\ \/ j = k + 1 /\ end = addr + n /\ list[k + 1].start # addr + n
     \/ j = k + 2 /\ list[k + 1].start = addr + n /\ end = list[k + 1].end

LEMMA MeetsIs ==
  ASSUME NEW lo \in Int, NEW hi \in Int, NEW list, NEW used, Sound(list, used, lo, hi),
         NEW addr \in DOMAIN used, NEW k, Between(list, addr, k),
         NEW i, NEW j, NEW start, NEW end, Meets(list, addr, used[addr], k, i, j, start, end)
  PROVE  /\ i \in 0 .. Len(list) /\ j \in i + 1 .. Len(list) + 1
         /\ start \in Int /\ end \in Int /\ end - start \in Nat \ {0} /\ Whole(end - start)
         /\ lo =< start /\ end =< hi
         /\ \A x \in Int : In(x, start, end - start) <=>
              \/ In(x, addr, used[addr])
              \/ \E m \in (i + 1) .. (j - 1) : In(x, list[m].start, list[m].length)
<1> DEFINE N == Len(list)
           n == used[addr]
           s == list[k].start
           l == list[k].length
           t == list[k + 1].start
           r == list[k + 1].length
<1>1. /\ DOMAIN list = 1 .. N /\ N \in Nat /\ k \in 0 .. N - 1
      /\ k + 1 \in DOMAIN list /\ (k > 0 => k \in DOMAIN list)
  BY Place
<1>2. addr \in Int /\ n \in Nat /\ n > 0 /\ Whole(n) /\ lo =< addr /\ addr + n =< hi
  BY Place
<1>3. t \in Int /\ r \in Nat /\ Whole(r) /\ list[k + 1].end = t + r /\ t + r =< hi
  <2>0. \A m \in DOMAIN list :
          /\ list[m].start \in Int /\ list[m].length \in Nat /\ Whole(list[m].length)
          /\ list[m].end = list[m].start + list[m].length /\ list[m].end =< hi
    BY PlaceAt, ZenonT(60)
  <2>1. /\ t \in Int /\ r \in Nat /\ Whole(r) /\ list[k + 1].end = t + r
        /\ list[k + 1].end =< hi
    BY <1>1, <2>0, Zenon
  <2> QED
    BY <2>1
<1>4. k > 0 => s \in Int /\ l \in Nat /\ Whole(l) /\ list[k].end = s + l /\ lo =< s
  BY <1>1, Place
<1>5. /\ \/ i = k /\ start = addr
         \/ i = k - 1 /\ k > 0 /\ s + l = addr /\ start = s
      /\ \/ j = k + 1 /\ end = addr + n
         \/ j = k + 2 /\ t = addr + n /\ end = t + r
  <2>1. /\ \/ i = k /\ start = addr
           \/ i = k - 1 /\ k > 0 /\ list[k].end = addr /\ start = s
        /\ \/ j = k + 1 /\ end = addr + n
           \/ j = k + 2 /\ t = addr + n /\ end = list[k + 1].end
    BY Zenon DEF Meets
  <2> QED
    BY <2>1, <1>3, <1>4
<1>6. /\ i + 1 = k + 1 \/ (i + 1 = k /\ k > 0)
      /\ j - 1 = k \/ j - 1 = k + 1
  BY <1>1, <1>5
<1> HIDE DEF N, n, s, l, t, r
<1>7. i \in 0 .. N /\ j \in i + 1 .. N + 1
  BY <1>1, <1>5
<1>8. start \in Int /\ end \in Int /\ end - start \in Nat \ {0} /\ lo =< start /\ end =< hi
  <2>1. start \in Int /\ lo =< start /\ start =< addr
    BY <1>2, <1>4, <1>5
  <2>2. end \in Int /\ end =< hi /\ addr + n =< end
    BY <1>2, <1>3, <1>5
  <2> QED
    BY <2>1, <2>2, <1>2
<1>9. Whole(end - start)
  <2>1. k > 0 => Whole(l + n)
    BY <1>2, <1>4, WholeSum
  <2>2. Whole(n + r)
    BY <1>2, <1>3, WholeSum
  <2>3. k > 0 => Whole((l + n) + r)
    BY <1>2, <1>3, <1>4, <2>1, WholeSum
  <2>4. \/ end - start = n
        \/ k > 0 /\ end - start = l + n
        \/ end - start = n + r
        \/ k > 0 /\ end - start = (l + n) + r
    BY <1>2, <1>3, <1>4, <1>5
  <2> QED
    BY <2>1, <2>2, <2>3, <2>4, <1>2
<1>10. ASSUME NEW x \in Int
       PROVE  In(x, start, end - start) <=>
                \/ In(x, addr, n)
                \/ i = k - 1 /\ k > 0 /\ In(x, s, l)
                \/ j = k + 2 /\ In(x, t, r)
  <2>1. CASE i = k /\ j = k + 1
    <3>1. start = addr /\ end = addr + n /\ i # k - 1 /\ j # k + 2
      BY <2>1, <1>1, <1>5
    <3>2. In(x, start, end - start) <=> In(x, addr, n)
      BY <3>1, <1>2 DEF In
    <3> QED
      BY <3>1, <3>2, Zenon
  <2>2. CASE i = k - 1 /\ j = k + 1
    <3>1. /\ k > 0 /\ start = s /\ s + l = addr /\ s \in Int /\ l \in Nat
          /\ end = addr + n /\ j # k + 2
      BY <2>2, <1>1, <1>4, <1>5
    <3>2. In(x, start, end - start) <=> In(x, addr, n) \/ In(x, s, l)
      BY <3>1, <1>2 DEF In
    <3> QED
      BY <2>2, <3>1, <3>2, Zenon
  <2>3. CASE i = k /\ j = k + 2
    <3>1. start = addr /\ t = addr + n /\ end = t + r /\ i # k - 1
      BY <2>3, <1>1, <1>5
    <3>2. In(x, start, end - start) <=> In(x, addr, n) \/ In(x, t, r)
      BY <3>1, <1>2, <1>3 DEF In
    <3> QED
      BY <2>3, <3>1, <3>2, Zenon
  <2>4. CASE i = k - 1 /\ j = k + 2
    <3>1. /\ k > 0 /\ start = s /\ s + l = addr /\ s \in Int /\ l \in Nat
          /\ t = addr + n /\ end = t + r
      BY <2>4, <1>1, <1>4, <1>5
    <3>2. In(x, start, end - start) <=> In(x, addr, n) \/ In(x, s, l) \/ In(x, t, r)
      BY <3>1, <1>2, <1>3 DEF In
    <3> QED
      BY <2>4, <3>1, <3>2, Zenon
  <2>5. i = k \/ i = k - 1
    BY <1>5
  <2>6. j = k + 1 \/ j = k + 2
    BY <1>5
  <2> QED
    BY <2>1, <2>2, <2>3, <2>4, <2>5, <2>6, Zenon
<1>11. ASSUME NEW x \in Int
       PROVE  (\E m \in (i + 1) .. (j - 1) : In(x, list[m].start, list[m].length)) <=>
                \/ i = k - 1 /\ k > 0 /\ In(x, s, l)
                \/ j = k + 2 /\ In(x, t, r)
  <2>1. \A m \in Int : m \in (i + 1) .. (j - 1) <=> (i = k - 1 /\ k > 0 /\ m = k) \/ (j = k + 2 /\ m = k + 1)
    BY <1>1, <1>5
  <2>2. (i + 1) .. (j - 1) \in SUBSET Int
    OBVIOUS
  <2>3. k \in Int /\ k + 1 \in Int
    BY <1>1
  <2>4. \A m : m \in (i + 1) .. (j - 1) <=> (i = k - 1 /\ k > 0 /\ m = k) \/ (j = k + 2 /\ m = k + 1)
    BY <2>1, <2>2, <2>3, Zenon
  <2> QED
    BY <2>4, Zenon DEF s, l, t, r
<1> QED
  BY <1>7, <1>8, <1>9, <1>10, <1>11 DEF N, n
LEMMA Rejoining ==
  ASSUME NEW lo \in Int, NEW hi \in Int, NEW list, NEW used, Sound(list, used, lo, hi),
         NEW addr \in DOMAIN used, NEW k, Between(list, addr, k),
         NEW i, NEW j, NEW start, NEW end, Meets(list, addr, used[addr], k, i, j, start, end),
         NEW list2, Replaces(list, i, j, start, end, list2)
  PROVE  Sound(list2, Forgotten(used, addr), lo, hi) /\ (Gapped(list) => Gapped(list2))
<1> DEFINE p == i + 1
           D == (i + 1) .. (j - 1)
<1>1. /\ i \in 0 .. Len(list) /\ j \in i + 1 .. Len(list) + 1
      /\ start \in Int /\ end \in Int /\ end - start \in Nat \ {0} /\ Whole(end - start)
      /\ lo =< start /\ end =< hi
      /\ \A x \in Int : In(x, start, end - start) <=>
           \/ In(x, addr, used[addr])
           \/ \E m \in D : In(x, list[m].start, list[m].length)
  BY MeetsIs
<1>2. list \in Seq(Node) /\ DOMAIN list = 1 .. Len(list) /\ Len(list) \in Nat /\ k \in 0 .. Len(list) - 1
  BY Place
<1>3. /\ list2 \in Seq(Node) /\ DOMAIN list2 = 1 .. Len(list2)
      /\ Len(list2) = Len(list) + (i + 2 - j)
      /\ list2[p].start = start /\ list2[p].end = end /\ list2[p].length = end - start
  BY DEF Replaces
<1>4. p \in DOMAIN list2 /\ D \in SUBSET DOMAIN list
  <2>1. i \in Nat /\ j \in Nat /\ i + 1 =< j /\ j =< Len(list) + 1
    BY <1>1, <1>2
  <2>2. p \in 1 .. Len(list2)
    BY <2>1, <1>2, <1>3
  <2>3. \A m \in D : m \in 1 .. Len(list)
    BY <2>1, <1>2
  <2> QED
    BY <2>2, <2>3, <1>2, <1>3
<1>5. PICK h : /\ Moves(list, D, list2, {p}, h)
               /\ \A m, n \in DOMAIN list2 \ {p} : m < n => h[m] < h[n]
               /\ \A m \in DOMAIN list2 : m < p => h[m] = m
               /\ \A m \in DOMAIN list2 : m > p => h[m] >= j
  <2>1. i \in 0 .. Len(list) /\ j \in i + 1 .. Len(list) + 1 /\ list \in Seq(Node)
    BY <1>1, <1>2
  <2> QED
    BY <2>1, ReplacedMoves, Zenon
<1> HIDE DEF p, D
<1>6. Sound(list2, Forgotten(used, addr), lo, hi)
  <2>1. /\ list2[p].end = list2[p].start + list2[p].length /\ Whole(list2[p].length)
        /\ lo =< list2[p].start /\ list2[p].end =< hi
    BY <1>1, <1>3
  <2>2. \A x \in Int : In(x, list2[p].start, list2[p].length) <=>
          \/ In(x, addr, used[addr])
          \/ \E m \in D : In(x, list[m].start, list[m].length)
    BY <1>1, <1>3
  <2> QED
    BY <2>1, <2>2, <1>4, <1>5, JoinedKeeps
<1>7. ASSUME Gapped(list) PROVE Gapped(list2)
  <2>1. /\ \A m \in 1 .. k : list[m].end =< addr /\ (m < k => list[m].end < addr)
        /\ \A m \in k + 1 .. Len(list) :
             /\ addr + used[addr] =< list[m].start
             /\ m > k + 1 => addr + used[addr] < list[m].start
    BY <1>7, GapsAround
  <2>2. \A m, n \in DOMAIN list : m < n => list[m].end < list[n].start
    BY <1>7 DEF Gapped
  <2>3. \A m \in DOMAIN list : list[m].start \in Int /\ list[m].end \in Int
    BY Place
  <2>4. addr \in Int /\ used[addr] \in Nat
    BY Place
  <2>5. ASSUME NEW m \in 1 .. i PROVE list[m].end < start
    <3>1. CASE i = k /\ start = addr /\ (k > 0 => list[k].end # addr)
      <4>1. m \in 1 .. k /\ m \in DOMAIN list /\ k > 0
        BY <3>1, <1>1, <1>2
      <4>2. CASE m < k
        BY <4>1, <4>2, <3>1, <2>1
      <4>3. CASE m = k
        BY <4>1, <4>3, <3>1, <2>1, <2>3, <2>4
      <4> QED
        BY <4>1, <4>2, <4>3, <1>2
    <3>2. CASE i = k - 1 /\ k > 0 /\ start = list[k].start
      <4>1. m \in DOMAIN list /\ k \in DOMAIN list /\ m < k
        BY <3>2, <1>1, <1>2
      <4> QED
        BY <4>1, <3>2, <2>2
    <3> QED
      BY <3>1, <3>2 DEF Meets
  <2>6. ASSUME NEW m \in j .. Len(list) PROVE end < list[m].start
    <3>1. CASE j = k + 1 /\ end = addr + used[addr] /\ list[k + 1].start # addr + used[addr]
      <4>1. m \in k + 1 .. Len(list) /\ m \in DOMAIN list /\ k + 1 \in k + 1 .. Len(list)
        BY <3>1, <1>1, <1>2
      <4>2. CASE m > k + 1
        BY <4>1, <4>2, <3>1, <2>1
      <4>3. CASE m = k + 1
        BY <4>1, <4>3, <3>1, <2>1, <2>3, <2>4
      <4> QED
        BY <4>1, <4>2, <4>3, <1>2
    <3>2. CASE j = k + 2 /\ end = list[k + 1].end
      <4>1. m \in DOMAIN list /\ k + 1 \in DOMAIN list /\ k + 1 < m
        BY <3>2, <1>1, <1>2
      <4> QED
        BY <4>1, <3>2, <2>2
    <3> QED
      BY <3>1, <3>2 DEF Meets
  <2>7. list2[p].length > 0
    BY <1>1, <1>3
  <2>8. ASSUME NEW m \in DOMAIN list2, m < p PROVE list2[m].end < list2[p].start
    <3>1. list2[m] = list[m]
      <4>1. m \in DOMAIN list2 \ {p} /\ h[m] = m
        BY <2>8, <1>4, <1>5, <1>3, <1>1 DEF p
      <4>2. list2[m] = list[h[m]]
        BY <4>1, <1>5, Zenon DEF Moves
      <4> QED
        BY <4>1, <4>2
    <3>2. m \in 1 .. i
      <4>1. i \in Nat /\ p = i + 1
        BY <1>1, <1>2 DEF p
      <4>2. m \in Nat /\ m >= 1
        BY <1>3
      <4> QED
        BY <4>1, <4>2, <2>8
    <3> QED
      BY <3>1, <3>2, <2>5, <1>3
  <2>9. ASSUME NEW m \in DOMAIN list2, p < m PROVE list2[p].end < list2[m].start
    <3>1. m # p /\ m > p
      BY <2>9, <1>1, <1>3 DEF p
    <3>2. list2[m] = list[h[m]] /\ h[m] \in DOMAIN list /\ h[m] >= j
      BY <3>1, <1>5 DEF Moves
    <3>3. h[m] \in j .. Len(list)
      BY <3>2, <1>1, <1>2
    <3> QED
      BY <3>2, <3>3, <2>6, <1>3
  <2> QED
    BY <2>7, <2>8, <2>9, <1>4, <1>5, <1>7, MovedGapped
<1> QED
  BY <1>6, <1>7
(* The four cases of the join. *)
LEMMA UpdateReplaces ==
  ASSUME NEW list \in Seq(Node), NEW q \in DOMAIN list,
         NEW start \in Int, NEW end \in Int, NEW length, length = end - start,
         NEW list2, Updates(list, q, start, end, length, list2)
  PROVE  Replaces(list, q - 1, q + 1, start, end, list2)
<1>1. q \in 1 .. Len(list) /\ Len(list) \in Nat /\ DOMAIN list = 1 .. Len(list)
  BY NodeFields
<1>2. list2 \in Seq(Node) /\ Len(list2) = Len(list)
  BY DEF Updates
<1>3. \A m \in DOMAIN list \ {q} : list2[m] = list[m]
  BY DEF Updates
<1>4. Len(list2) = Len(list) + ((q - 1) + 2 - (q + 1)) /\ (q - 1) + 1 = q
  BY <1>1, <1>2
<1>5. \A m \in 1 .. q - 1 : list2[m] = list[m]
  BY <1>1, <1>3
<1>6. ASSUME NEW m \in q + 1 .. Len(list) PROVE list2[m + ((q - 1) + 2 - (q + 1))] = list[m]
  <2>1. m + ((q - 1) + 2 - (q + 1)) = m /\ m \in DOMAIN list \ {q}
    BY <1>1
  <2> QED
    BY <2>1, <1>3
<1>7. list2[q].start = start /\ list2[q].end = end /\ list2[q].length = end - start
  BY DEF Updates
<1> QED
  BY <1>2, <1>4, <1>5, <1>6, <1>7 DEF Replaces

LEMMA JoinLeft ==
  ASSUME NEW list \in Seq(Node), NEW k \in DOMAIN list, NEW addr \in Int, NEW n \in Nat,
         list[k].end = list[k].start + list[k].length, list[k].end = addr
  PROVE  Replaces(list, k - 1, k + 1, list[k].start, addr + n, Grown(list, k, addr + n, n))
<1>1. list[k].start \in Int /\ list[k].length \in Nat
  BY NodeFields
<1>2. addr + n \in Int /\ list[k].length + n = (addr + n) - list[k].start
  BY <1>1
<1>3. Updates(list, k, list[k].start, addr + n, list[k].length + n, Grown(list, k, addr + n, n))
  BY <1>2, GrownIs
<1> QED
  BY <1>1, <1>2, <1>3, UpdateReplaces

LEMMA JoinRight ==
  ASSUME NEW list \in Seq(Node), NEW q \in DOMAIN list, NEW addr \in Int, NEW n \in Nat,
         list[q].end = list[q].start + list[q].length, list[q].start = addr + n
  PROVE  Replaces(list, q - 1, q + 1, addr, list[q].end,
                  [list EXCEPT ![q].start = addr, ![q].length = @ + n])
<1> DEFINE m == list[q].length + n
<1>1. list[q].start \in Int /\ list[q].length \in Nat /\ list[q].end \in Int
  BY NodeFields
<1>2. m \in Nat /\ m = list[q].end - addr
  BY <1>1
<1>3. [list EXCEPT ![q].start = addr, ![q].length = @ + n]
        = [list EXCEPT ![q].start = addr, ![q].length = m]
  OBVIOUS
<1> HIDE DEF m
<1>4. Updates(list, q, addr, list[q].end, m, [list EXCEPT ![q].start = addr, ![q].length = m])
  BY <1>2, StartUpdated
<1>5. Replaces(list, q - 1, q + 1, addr, list[q].end, [list EXCEPT ![q].start = addr, ![q].length = m])
  BY <1>1, <1>2, <1>4, UpdateReplaces
<1> QED
  BY <1>3, <1>5, Zenon

LEMMA JoinNeither ==
  ASSUME NEW list \in Seq(Node), NEW k \in 0 .. Len(list), NEW addr \in Int, NEW n \in Nat
  PROVE  Replaces(list, k, k + 1, addr, addr + n, InsertAt(list, k + 1, Region(addr, n)))
<1> DEFINE r == Region(addr, n)
           list2 == InsertAt(list, k + 1, r)
<1>1. r \in Node /\ r.start = addr /\ r.end = addr + n /\ r.length = (addr + n) - addr
  BY DEF Region, Node
<1> HIDE DEF r
<1>2. k + 1 \in 1 .. Len(list) + 1 /\ Len(list) \in Nat
  BY NodeFields
<1>3. /\ list2 \in Seq(Node) /\ Len(list2) = Len(list) + 1
      /\ \A j \in 1 .. Len(list) + 1 :
           list2[j] = IF j < k + 1 THEN list[j] ELSE IF j = k + 1 THEN r ELSE list[j - 1]
  <2>1. r \in Node /\ k + 1 \in 1 .. Len(list) + 1
    BY <1>1, <1>2
  <2> DEFINE q == k + 1
  <2>2. r \in Node /\ q \in 1 .. Len(list) + 1
    BY <2>1
  <2> HIDE DEF q
  <2>3. /\ InsertAt(list, q, r) \in Seq(Node)
        /\ Len(InsertAt(list, q, r)) = Len(list) + 1
        /\ \A j \in 1 .. Len(list) + 1 :
             InsertAt(list, q, r)[j] = IF j < q THEN list[j] ELSE IF j = q THEN r ELSE list[j - 1]
    BY <2>2, InsertedAt
  <2> QED
    BY <2>3 DEF q
<1> HIDE DEF list2
<1>4. Len(list2) = Len(list) + (k + 2 - (k + 1))
  BY <1>2, <1>3
<1>5. \A m \in 1 .. k : list2[m] = list[m]
  BY <1>2, <1>3
<1>6. ASSUME NEW m \in k + 1 .. Len(list) PROVE list2[m + (k + 2 - (k + 1))] = list[m]
  <2>1. /\ m + (k + 2 - (k + 1)) = m + 1 /\ m + 1 \in 1 .. Len(list) + 1
        /\ ~(m + 1 < k + 1) /\ m + 1 # k + 1 /\ (m + 1) - 1 = m
    BY <1>2
  <2>2. list2[m + 1] = list[(m + 1) - 1]
    BY <2>1, <1>3
  <2> QED
    BY <2>1, <2>2
<1>7. list2[k + 1] = r
  BY <1>2, <1>3
<1> QED
  BY <1>1, <1>3, <1>4, <1>5, <1>6, <1>7 DEF Replaces, list2, r

(* A grant of n at addr fills the gap from region r to region t. *)
TouchesBoth(r, addr, n, t) ==
  /\ r.end = r.start + r.length /\ r.end = addr
  /\ t.end = t.start + t.length /\ t.start = addr + n

LEMMA SumBetween ==
  ASSUME NEW r, NEW t, NEW addr \in Int, NEW n \in Nat,
         r.start \in Int, r.length \in Nat, t.end \in Int, t.length \in Nat,
         TouchesBoth(r, addr, n, t)
  PROVE  /\ n + t.length \in Nat
         /\ r.length + (n + t.length) = t.end - r.start
BY DEF TouchesBoth

LEMMA JoinBoth ==
  ASSUME NEW list \in Seq(Node), NEW k \in DOMAIN list, k + 1 \in DOMAIN list, NEW addr \in Int, NEW n \in Nat,
         TouchesBoth(list[k], addr, n, list[k + 1])
  PROVE  Replaces(list, k - 1, k + 2, list[k].start, list[k + 1].end,
                  RemoveAt(Grown(list, k, list[k + 1].end, n + list[k + 1].length), k + 1))
<1> DEFINE more == n + list[k + 1].length
           g == Grown(list, k, list[k + 1].end, more)
           list2 == RemoveAt(g, k + 1)
<1>1. /\ DOMAIN list = 1 .. Len(list) /\ Len(list) \in Nat /\ k \in DOMAIN list /\ k + 1 \in DOMAIN list
      /\ list[k].start \in Int /\ list[k].length \in Nat
      /\ list[k + 1].end \in Int /\ list[k + 1].length \in Nat
  BY NodeFields
<1>2. more \in Nat /\ list[k].length + more = list[k + 1].end - list[k].start
  <2>1. /\ list[k].start \in Int /\ list[k].length \in Nat
        /\ list[k + 1].end \in Int /\ list[k + 1].length \in Nat
    BY <1>1
  <2> QED
    BY <2>1, SumBetween
<1> HIDE DEF more
<1>3. Updates(list, k, list[k].start, list[k + 1].end, list[k].length + more, g)
  BY <1>1, <1>2, GrownIs
<1> HIDE DEF g
<1>4. /\ g \in Seq(Node) /\ Len(g) = Len(list)
      /\ \A m \in DOMAIN list \ {k} : g[m] = list[m]
      /\ g[k].start = list[k].start /\ g[k].end = list[k + 1].end
      /\ g[k].length = list[k + 1].end - list[k].start
  BY <1>1, <1>2, <1>3 DEF Updates
<1>5. /\ list2 \in Seq(Node) /\ Len(list2) = Len(list) - 1
      /\ \A j \in 1 .. Len(list) - 1 : list2[j] = IF j < k + 1 THEN g[j] ELSE g[j + 1]
  <2>1. g \in Seq(Node) /\ k + 1 \in 1 .. Len(g) /\ Len(g) = Len(list)
    BY <1>1, <1>4
  <2> QED
    BY <2>1, RemovedAt, Zenon
<1> HIDE DEF list2
<1>6. Len(list2) = Len(list) + ((k - 1) + 2 - (k + 2)) /\ (k - 1) + 1 = k
  <2> DEFINE N == Len(list)
             N2 == Len(list2)
  <2>1. N \in Nat /\ k \in Nat /\ N2 = N - 1
    BY <1>1, <1>5
  <2> HIDE DEF N, N2
  <2>2. N2 = N + ((k - 1) + 2 - (k + 2)) /\ (k - 1) + 1 = k
    BY <2>1
  <2> QED
    BY <2>2 DEF N, N2
<1>7. ASSUME NEW m \in 1 .. k - 1 PROVE list2[m] = list[m]
  <2>1. m \in 1 .. Len(list) - 1 /\ m < k + 1 /\ m \in DOMAIN list \ {k}
    BY <1>1
  <2>2. list2[m] = g[m]
    BY <2>1, <1>5
  <2>3. g[m] = list[m]
    BY <2>1, <1>4
  <2> QED
    BY <2>2, <2>3, Zenon
<1>8. ASSUME NEW m \in k + 2 .. Len(list) PROVE list2[m + ((k - 1) + 2 - (k + 2))] = list[m]
  <2> DEFINE N == Len(list)
  <2>5. N \in Nat /\ k \in Nat /\ k >= 1 /\ m \in k + 2 .. N
    BY <1>1
  <2>6. DOMAIN list = 1 .. N
    BY <1>1
  <2> HIDE DEF N
  <2>7. /\ m + ((k - 1) + 2 - (k + 2)) = m - 1 /\ m - 1 \in 1 .. N - 1
        /\ ~(m - 1 < k + 1) /\ (m - 1) + 1 = m /\ m \in (1 .. N) \ {k}
    BY <2>5
  <2>1. /\ m + ((k - 1) + 2 - (k + 2)) = m - 1 /\ m - 1 \in 1 .. Len(list) - 1
        /\ ~(m - 1 < k + 1) /\ (m - 1) + 1 = m /\ m \in DOMAIN list \ {k}
    BY <2>6, <2>7 DEF N
  <2>2. list2[m - 1] = g[(m - 1) + 1]
    BY <2>1, <1>5
  <2> QED
    BY <2>1, <2>2, <1>4
<1>9. list2[k] = g[k]
  <2>1. k \in 1 .. Len(list) - 1 /\ k < k + 1
    BY <1>1
  <2> QED
    BY <2>1, <1>5
<1>10. Replaces(list, k - 1, k + 2, list[k].start, list[k + 1].end, list2)
  BY <1>4, <1>5, <1>6, <1>7, <1>8, <1>9 DEF Replaces
<1> QED
  BY <1>10 DEF list2, g, more
LEMMA JoinedReplaces ==
  ASSUME NEW lo \in Int, NEW hi \in Int, NEW list, NEW used, Sound(list, used, lo, hi),
         NEW addr \in DOMAIN used, NEW k, Between(list, addr, k), k = Before(list, addr)
  PROVE  \E i, j, start, end :
           /\ Meets(list, addr, used[addr], k, i, j, start, end)
           /\ Replaces(list, i, j, start, end, Joined(list, addr, used[addr]))
<1> DEFINE n == used[addr]
           list2 == Joined(list, addr, n)
           q == k + 1
           left == k > 0 /\ list[k].end = addr
           right == addr + n = list[q].start
<1>1. /\ list \in Seq(Node) /\ Len(list) \in Nat
      /\ k \in 0 .. Len(list) - 1 /\ q \in DOMAIN list /\ (k > 0 => k \in DOMAIN list)
      /\ \A j \in DOMAIN list : list[j].end = list[j].start + list[j].length
      /\ addr \in Int /\ n \in Nat
  <2>1. list \in Seq(Node) /\ Len(list) \in Nat
        /\ k \in 0 .. Len(list) - 1 /\ k + 1 \in DOMAIN list /\ (k > 0 => k \in DOMAIN list)
    BY Place
  <2>2. \A j \in DOMAIN list : list[j].end = list[j].start + list[j].length
    <3> SUFFICES ASSUME NEW j \in DOMAIN list PROVE list[j].end = list[j].start + list[j].length
      OBVIOUS
    <3> QED
      BY PlaceAt
  <2>3. addr \in Int /\ used[addr] \in Nat
    BY Place
  <2> QED
    BY <2>1, <2>2, <2>3, Zenon
<1>2. list2 =
        CASE left /\ right ->
               RemoveAt(Grown(list, k, list[q].end, n + list[q].length), q)
          [] left /\ ~right -> Grown(list, k, addr + n, n)
          [] ~left /\ right -> [list EXCEPT ![q].start = addr, ![q].length = @ + n]
          [] OTHER -> InsertAt(list, q, Region(addr, n))
  BY Zenon DEF Joined, JoinsLeft, JoinsRight
<1>3. /\ k \in 0 .. Len(list) /\ q - 1 = k /\ q + 1 = k + 2
  BY <1>1
<1>4. CASE left /\ right
  <2>1. list2 = RemoveAt(Grown(list, k, list[q].end, n + list[q].length), q)
    BY <1>2, <1>4, Zenon
  <2>2. k \in DOMAIN list /\ TouchesBoth(list[k], addr, n, list[q])
    BY <1>1, <1>4 DEF TouchesBoth
  <2>3. Replaces(list, k - 1, k + 2, list[k].start, list[q].end, list2)
    BY <1>1, <2>1, <2>2, JoinBoth
  <2>4. Meets(list, addr, n, k, k - 1, k + 2, list[k].start, list[q].end)
    BY <1>4 DEF Meets
  <2> QED
    BY <2>3, <2>4
<1>5. CASE left /\ ~right
  <2>1. list2 = Grown(list, k, addr + n, n)
    BY <1>2, <1>5, Zenon
  <2>2. k \in DOMAIN list /\ list[k].end = list[k].start + list[k].length /\ list[k].end = addr
    BY <1>1, <1>5
  <2>3. Replaces(list, k - 1, k + 1, list[k].start, addr + n, list2)
    BY <1>1, <2>1, <2>2, JoinLeft
  <2>4. Meets(list, addr, n, k, k - 1, k + 1, list[k].start, addr + n)
    BY <1>5 DEF Meets
  <2> QED
    BY <2>3, <2>4
<1>6. CASE ~left /\ right
  <2>1. list2 = [list EXCEPT ![q].start = addr, ![q].length = @ + n]
    BY <1>2, <1>6, Zenon
  <2>2. list[q].end = list[q].start + list[q].length /\ list[q].start = addr + n
    BY <1>1, <1>6
  <2>3. Replaces(list, q - 1, q + 1, addr, list[q].end, list2)
    <3> HIDE DEF q, n, list2
    <3>1. Replaces(list, q - 1, q + 1, addr, list[q].end,
                   [list EXCEPT ![q].start = addr, ![q].length = @ + n])
      BY <1>1, <2>2, JoinRight, Zenon
    <3> QED
      BY <2>1, <3>1, Zenon
  <2>4. Replaces(list, k, k + 2, addr, list[q].end, list2)
    BY <1>3, <2>3, Zenon
  <2>5. Meets(list, addr, n, k, k, k + 2, addr, list[q].end)
    BY <1>6 DEF Meets
  <2> QED
    BY <2>4, <2>5
<1>7. CASE ~left /\ ~right
  <2>1. list2 = InsertAt(list, q, Region(addr, n))
    BY <1>2, <1>7, Zenon
  <2>2. Replaces(list, k, k + 1, addr, addr + n, list2)
    BY <1>1, <1>3, <2>1, JoinNeither
  <2>3. Meets(list, addr, n, k, k, k + 1, addr, addr + n)
    BY <1>7 DEF Meets
  <2> QED
    BY <2>2, <2>3
<1> HIDE DEF left, right, list2, n
<1> QED
  BY <1>4, <1>5, <1>6, <1>7 DEF list2, n

(* The whole of a return. *)
LEMMA Returning ==
  ASSUME NEW lo \in Int, NEW hi \in Int, NEW list, NEW used, Sound(list, used, lo, hi),
         NEW addr \in DOMAIN used, ~RunsOff(list, addr)
  PROVE  /\ Sound(Joined(list, addr, used[addr]), Forgotten(used, addr), lo, hi)
         /\ Gapped(list) => Gapped(Joined(list, addr, used[addr]))
<1>1. list \in Seq(Node) /\ addr \in Int
  BY SoundFields
<1>2. PICK k : k = Before(list, addr)
  OBVIOUS
<1>3. Between(list, addr, k)
  BY <1>1, <1>2, BeforeIs DEF Between
<1>4. PICK i, j, start, end :
        /\ Meets(list, addr, used[addr], k, i, j, start, end)
        /\ Replaces(list, i, j, start, end, Joined(list, addr, used[addr]))
  BY <1>2, <1>3, JoinedReplaces
<1> QED
  BY <1>3, <1>4, Rejoining

(* With a node that ends at the top, the walk stops. *)
LEMMA TopStops ==
  ASSUME NEW lo \in Int, NEW hi \in Int, NEW list, NEW used, Sound(list, used, lo, hi),
         NEW k \in DOMAIN list, list[k].end = hi, NEW addr \in DOMAIN used
  PROVE  ~RunsOff(list, addr)
<1>1. /\ list[k].start \in Int /\ list[k].length \in Nat /\ list[k].end = list[k].start + list[k].length
      /\ addr \in Int /\ used[addr] \in Nat /\ used[addr] > 0 /\ addr + used[addr] =< hi
  BY SoundFields
<1>2. ~Overlap(list[k].start, list[k].length, addr, used[addr])
  BY DEF Sound, NoOverlap
<1>3. list[k].start >= addr
  BY <1>1, <1>2 DEF Overlap
<1> QED
  BY <1>3 DEF RunsOff, NotBelow

(* With nothing granted, a list with gaps is the one region of the space.    *)
LEMMA OneRegion ==
  ASSUME NEW lo \in Int, NEW hi \in Int, lo < hi, NEW list, NEW used, Sound(list, used, lo, hi),
         DOMAIN used = {}, Gapped(list)
  PROVE  list = <<Region(lo, hi - lo)>>
<1>1. /\ list \in Seq(Node) /\ DOMAIN list = 1 .. Len(list) /\ Len(list) \in Nat
      /\ \A k \in DOMAIN list :
           /\ list[k] \in Node
           /\ list[k].start \in Int /\ list[k].end \in Int /\ list[k].length \in Nat
           /\ lo =< list[k].start /\ list[k].end =< hi
           /\ list[k].end = list[k].start + list[k].length
  BY SoundFields
<1>2. \A x \in lo .. hi - 1 : \E k \in DOMAIN list :
        list[k].start =< x /\ x < list[k].start + list[k].length
  BY DEF Sound, Covered
<1>3. \A j, k \in DOMAIN list : j < k => list[j].end < list[k].start
  BY DEF Gapped
<1>4. PICK k \in DOMAIN list : list[k].start = lo
  <2>1. lo \in lo .. hi - 1
    OBVIOUS
  <2>2. PICK k \in DOMAIN list : list[k].start =< lo
    BY <2>1, <1>2
  <2>3. list[k].start \in Int /\ lo =< list[k].start
    BY <1>1
  <2> QED
    BY <2>2, <2>3
<1>5. ASSUME NEW j \in DOMAIN list, j < k PROVE FALSE
  <2>1. list[j].end < lo
    BY <1>3, <1>4, <1>5
  <2>2. /\ list[j].start \in Int /\ list[j].end \in Int /\ list[j].length \in Nat
        /\ lo =< list[j].start /\ list[j].end = list[j].start + list[j].length
    BY <1>1
  <2> QED
    BY <2>1, <2>2
<1>6. k = 1
  BY <1>1, <1>5
<1>7. list[1].end = hi
  <2> SUFFICES ASSUME list[1].end # hi PROVE FALSE
    OBVIOUS
  <2>1. 1 \in DOMAIN list /\ list[1].end \in lo .. hi - 1
    BY <1>1, <1>4, <1>6
  <2>2. PICK j \in DOMAIN list : list[j].start =< list[1].end /\ list[1].end < list[j].start + list[j].length
    BY <2>1, <1>2
  <2>3. j # 1
    BY <2>1, <2>2, <1>1
  <2>4. 1 < j
    BY <2>3, <1>1
  <2> QED
    BY <2>1, <2>2, <2>4, <1>1, <1>3
<1>8. Len(list) = 1
  <2> SUFFICES ASSUME Len(list) # 1 PROVE FALSE
    OBVIOUS
  <2>1. 1 \in DOMAIN list /\ 2 \in DOMAIN list
    BY <1>1, <1>6
  <2>2. list[1].end < list[2].start
    BY <2>1, <1>3
  <2> QED
    BY <2>1, <2>2, <1>1, <1>7
<1>9. list[1] = Region(lo, hi - lo)
  <2>1. /\ list[1] \in Node /\ list[1].start = lo /\ list[1].end = hi
        /\ list[1].length = hi - lo /\ lo + (hi - lo) = hi
    BY <1>1, <1>4, <1>6, <1>7
  <2> QED
    BY <2>1, Zenon DEF Node, Region
<1> QED
  BY <1>1, <1>8, <1>9

-----------------------------------------------------------------------------
(* The host library's allocator of HBM addresses. *)
HbmSpec == HbmInit /\ [][HbmNext]_hbmVars

(* Every buffer that callers have was cut from one grant, and every grant is *)
(* the one of a buffer.                                                      *)
HeldIsGranted ==
  /\ IsFiniteSet(hbmheld) /\ IsFiniteSet(DOMAIN hbmu)
  /\ Cardinality(hbmheld) = Cardinality(DOMAIN hbmu)
  /\ \A b \in hbmheld : b.addr \in DOMAIN hbmu /\ b.size =< hbmu[b.addr]
  /\ \A b, c \in hbmheld : b.addr = c.addr => b = c
  /\ \A a \in DOMAIN hbmu : \E b \in hbmheld : b.addr = a

(* The walk that goes through the null pointer is the last step.             *)
HbmInv ==
  /\ HbmTypeOK
  /\ ~crashed => Sound(hbmlist, hbmu, Base, EndOfCard) /\ HeldIsGranted
  /\ ~crashed /\ ~ragged => Gapped(hbmlist)

LEMMA Space ==
  /\ Base \in Int /\ EndOfCard \in Int /\ Base < EndOfCard /\ EndOfCard - Base = Total /\ Total \in Nat /\ Whole(Total)
  /\ \A size \in HbmSizes : size \in Nat \ {0} /\ (Whole(size) <=> size % Unit = 0)
<1>1. /\ Base \in Int /\ EndOfCard \in Int /\ Base < EndOfCard /\ EndOfCard - Base = Total /\ Total \in Nat
      /\ \A size \in HbmSizes : size \in Nat \ {0}
  BY SpaceAssumption DEF EndOfCard
<1>2. Whole(Total)
  BY <1>1, SpaceAssumption, WholeIs
<1> QED
  BY <1>1, <1>2, WholeIs

(* What the list and the grants are, their types follow from.                *)
LEMMA SoundIsTyped ==
  ASSUME NEW list, NEW used, Sound(list, used, Base, EndOfCard)
  PROVE  /\ \A k \in DOMAIN list : list[k].start \in Base .. EndOfCard /\ list[k].end \in Base .. EndOfCard
         /\ \A a \in DOMAIN used : a \in Base .. EndOfCard - 1 /\ a + used[a] =< EndOfCard
<1>1. Base \in Int /\ EndOfCard \in Int
  BY Space
<1>2. /\ \A k \in DOMAIN list :
           /\ list[k].start \in Int /\ list[k].end \in Int /\ list[k].length \in Nat
           /\ Base =< list[k].start /\ list[k].end =< EndOfCard
           /\ list[k].end = list[k].start + list[k].length
      /\ \A a \in DOMAIN used :
           a \in Int /\ Base =< a /\ a + used[a] =< EndOfCard /\ used[a] \in Nat /\ used[a] > 0
  BY <1>1, SoundFields
<1> QED
  BY <1>1, <1>2

LEMMA HbmInvInit == HbmInit => HbmInv
<1> SUFFICES ASSUME HbmInit PROVE HbmInv
  OBVIOUS
<1>1. /\ Base \in Int /\ EndOfCard \in Int /\ Base < EndOfCard /\ Base + Total = EndOfCard /\ Total \in Nat /\ Total > 0
      /\ Whole(Total)
  BY Space
<1> DEFINE r == Region(Base, Total)
<1>2. r \in Node /\ r.start = Base /\ r.end = EndOfCard /\ r.length = Total
  BY <1>1 DEF Region, Node
<1> HIDE DEF r
<1>3. hbmlist = <<r>> /\ hbmu = <<>> /\ hbmheld = {} /\ crashed = FALSE /\ ragged = FALSE
  BY DEF HbmInit, r
<1>4. /\ hbmlist \in Seq(Node) /\ DOMAIN hbmlist = {1} /\ hbmlist[1] = r
      /\ DOMAIN hbmu = {} /\ hbmu \in [DOMAIN hbmu -> Nat]
  BY <1>2, <1>3
<1>5. Sound(hbmlist, hbmu, Base, EndOfCard)
  <2>1. Nodes(hbmlist, Base, EndOfCard)
    BY <1>1, <1>2, <1>4 DEF Nodes
  <2>2. Grants(hbmu, Base, EndOfCard)
    BY <1>4 DEF Grants
  <2>3. NoOverlap(hbmlist, hbmu)
    BY <1>4 DEF NoOverlap
  <2>4. Covered(hbmlist, hbmu, Base, EndOfCard)
    BY <1>1, <1>2, <1>4 DEF Covered
  <2> QED
    BY <2>1, <2>2, <2>3, <2>4 DEF Sound
<1>6. Gapped(hbmlist)
  BY <1>1, <1>2, <1>4 DEF Gapped
<1>7. HeldIsGranted
  BY <1>3, <1>4, FS_EmptySet DEF HeldIsGranted
<1>8. HbmTypeOK
  <2>1. hbmheld \subseteq [addr : Base .. EndOfCard - 1, size : HbmSizes]
    BY <1>3
  <2>2. crashed \in BOOLEAN /\ ragged \in BOOLEAN
    BY <1>3
  <2> QED
    BY <2>1, <2>2, <1>5, SoundIsTyped DEF HbmTypeOK
<1> QED
  BY <1>5, <1>6, <1>7, <1>8 DEF HbmInv

LEMMA GetaddrKeeps ==
  ASSUME HbmInv, NEW size \in HbmSizes, Hbm_getaddr(size)
  PROVE  HbmInv'
<1> DEFINE g == Granted(hbmlist, size)
           b == [addr |-> g.addr, size |-> size]
<1>1. /\ ~crashed /\ Fits(hbmlist, size) /\ crashed' = crashed
      /\ hbmu' = Noted(hbmu, g) /\ hbmheld' = hbmheld \union {b}
      /\ hbmlist' = Taken(hbmlist, size)
      /\ ragged' = (ragged \/ size % Unit # 0)
  BY DEF Hbm_getaddr
<1>2. Sound(hbmlist, hbmu, Base, EndOfCard) /\ HeldIsGranted /\ HbmTypeOK /\ (~ragged => Gapped(hbmlist))
  BY <1>1 DEF HbmInv
<1>3. Base \in Int /\ EndOfCard \in Int /\ size \in Nat \ {0} /\ (Whole(size) <=> size % Unit = 0)
  BY Space
<1>4. /\ g.addr \in Int \ DOMAIN hbmu /\ g.length \in Nat \ {0} /\ size =< g.length
      /\ Base =< g.addr /\ g.addr + g.length =< EndOfCard
      /\ Sound(Taken(hbmlist, size), Noted(hbmu, g), Base, EndOfCard)
      /\ Whole(size) /\ Gapped(hbmlist) => Gapped(Taken(hbmlist, size))
  BY <1>1, <1>2, <1>3, Granting
<1> HIDE DEF g
<1>5. Sound(hbmlist', hbmu', Base, EndOfCard)
  BY <1>1, <1>4
<1>6. ~ragged' => Gapped(hbmlist')
  BY <1>1, <1>2, <1>3, <1>4
<1>7. /\ DOMAIN hbmu' = DOMAIN hbmu \union {g.addr} /\ hbmu'[g.addr] = g.length
      /\ \A a \in DOMAIN hbmu : a # g.addr => hbmu'[a] = hbmu[a]
  BY <1>1 DEF Noted
<1>8. b.addr = g.addr /\ b.size = size
  OBVIOUS
<1>9. b \in [addr : Base .. EndOfCard - 1, size : HbmSizes]
  <2>1. g.addr \in Base .. EndOfCard - 1
    BY <1>3, <1>4
  <2> QED
    BY <2>1
<1> HIDE DEF b
<1>10. HbmTypeOK'
  BY <1>1, <1>2, <1>5, <1>9, SoundIsTyped DEF HbmTypeOK
<1>11. HeldIsGranted'
  <2>1. /\ IsFiniteSet(hbmheld) /\ IsFiniteSet(DOMAIN hbmu)
        /\ Cardinality(hbmheld) = Cardinality(DOMAIN hbmu)
        /\ \A c \in hbmheld : c.addr \in DOMAIN hbmu /\ c.size =< hbmu[c.addr]
        /\ \A c, d \in hbmheld : c.addr = d.addr => c = d
        /\ \A a \in DOMAIN hbmu : \E c \in hbmheld : c.addr = a
    BY <1>2 DEF HeldIsGranted
  <2>2. b \notin hbmheld /\ g.addr \notin DOMAIN hbmu
    BY <2>1, <1>4, <1>8
  <2>3. /\ IsFiniteSet(hbmheld') /\ Cardinality(hbmheld') = Cardinality(hbmheld) + 1
    BY <1>1, <2>1, <2>2, FS_AddElement
  <2>4. /\ IsFiniteSet(DOMAIN hbmu') /\ Cardinality(DOMAIN hbmu') = Cardinality(DOMAIN hbmu) + 1
    BY <1>7, <2>1, <2>2, FS_AddElement
  <2>5. \A c \in hbmheld' : c.addr \in DOMAIN hbmu' /\ c.size =< hbmu'[c.addr]
    BY <1>1, <1>4, <1>7, <1>8, <2>1, <2>2
  <2>6. \A c, d \in hbmheld' : c.addr = d.addr => c = d
    BY <1>1, <1>8, <2>1, <2>2
  <2>7. \A a \in DOMAIN hbmu' : \E c \in hbmheld' : c.addr = a
    BY <1>1, <1>7, <1>8, <2>1
  <2> QED
    BY <2>1, <2>3, <2>4, <2>5, <2>6, <2>7 DEF HeldIsGranted
<1> QED
  BY <1>1, <1>5, <1>6, <1>10, <1>11 DEF HbmInv

LEMMA FreeKeeps ==
  ASSUME HbmInv, NEW b \in hbmheld, Hbm_free(b)
  PROVE  HbmInv'
<1>1. /\ ~crashed /\ ragged' = ragged
      /\ hbmu' = Forgotten(hbmu, b.addr) /\ hbmheld' = hbmheld \ {b}
  BY DEF Hbm_free
<1>2. Sound(hbmlist, hbmu, Base, EndOfCard) /\ HeldIsGranted /\ HbmTypeOK /\ (~ragged => Gapped(hbmlist))
  BY <1>1 DEF HbmInv
<1>3. Base \in Int /\ EndOfCard \in Int
  BY Space
<1>4. b.addr \in DOMAIN hbmu
  BY <1>2 DEF HeldIsGranted
<1>5. DOMAIN hbmu' = DOMAIN hbmu \ {b.addr} /\ \A a \in DOMAIN hbmu' : hbmu'[a] = hbmu[a]
  BY <1>1 DEF Forgotten
<1>6. HeldIsGranted'
  <2>1. /\ IsFiniteSet(hbmheld) /\ IsFiniteSet(DOMAIN hbmu)
        /\ Cardinality(hbmheld) = Cardinality(DOMAIN hbmu)
        /\ \A c \in hbmheld : c.addr \in DOMAIN hbmu /\ c.size =< hbmu[c.addr]
        /\ \A c, d \in hbmheld : c.addr = d.addr => c = d
        /\ \A a \in DOMAIN hbmu : \E c \in hbmheld : c.addr = a
    BY <1>2 DEF HeldIsGranted
  <2>2. /\ IsFiniteSet(hbmheld') /\ Cardinality(hbmheld') = Cardinality(hbmheld) - 1
    BY <1>1, <2>1, FS_RemoveElement
  <2>3. /\ IsFiniteSet(DOMAIN hbmu') /\ Cardinality(DOMAIN hbmu') = Cardinality(DOMAIN hbmu) - 1
    BY <1>4, <1>5, <2>1, FS_RemoveElement
  <2>4. \A c \in hbmheld' : c.addr \in DOMAIN hbmu' /\ c.size =< hbmu'[c.addr]
    BY <1>1, <1>5, <2>1
  <2>5. \A c, d \in hbmheld' : c.addr = d.addr => c = d
    BY <1>1, <2>1
  <2>6. \A a \in DOMAIN hbmu' : \E c \in hbmheld' : c.addr = a
    BY <1>1, <1>5, <2>1
  <2> QED
    BY <2>1, <2>2, <2>3, <2>4, <2>5, <2>6 DEF HeldIsGranted
<1>7. hbmheld' \subseteq [addr : Base .. EndOfCard - 1, size : HbmSizes] /\ ragged' \in BOOLEAN
  BY <1>1, <1>2 DEF HbmTypeOK
<1>8. CASE RunsOff(hbmlist, b.addr)
  <2>1. crashed' = TRUE /\ hbmlist' = hbmlist
    BY <1>8 DEF Hbm_free
  <2>2. HbmTypeOK'
    BY <1>2, <1>5, <1>7, <2>1 DEF HbmTypeOK
  <2> QED
    BY <2>1, <2>2 DEF HbmInv
<1>9. CASE ~RunsOff(hbmlist, b.addr)
  <2>1. crashed' = crashed /\ hbmlist' = Joined(hbmlist, b.addr, hbmu[b.addr])
    BY <1>9 DEF Hbm_free
  <2>2. /\ Sound(Joined(hbmlist, b.addr, hbmu[b.addr]), Forgotten(hbmu, b.addr), Base, EndOfCard)
        /\ Gapped(hbmlist) => Gapped(Joined(hbmlist, b.addr, hbmu[b.addr]))
    BY <1>2, <1>3, <1>4, <1>9, Returning
  <2>3. Sound(hbmlist', hbmu', Base, EndOfCard) /\ (~ragged' => Gapped(hbmlist'))
    BY <1>1, <1>2, <2>1, <2>2
  <2>4. HbmTypeOK'
    BY <1>1, <1>7, <2>1, <2>3, SoundIsTyped, <1>2 DEF HbmTypeOK
  <2> QED
    BY <1>6, <2>3, <2>4 DEF HbmInv
<1> QED
  BY <1>8, <1>9

LEMMA HbmInvNext == HbmInv /\ [HbmNext]_hbmVars => HbmInv'
<1> SUFFICES ASSUME HbmInv, [HbmNext]_hbmVars PROVE HbmInv'
  OBVIOUS
<1>1. ASSUME NEW size \in HbmSizes, Hbm_getaddr(size) PROVE HbmInv'
  BY <1>1, GetaddrKeeps
<1>2. ASSUME NEW b \in hbmheld, Hbm_free(b) PROVE HbmInv'
  BY <1>2, FreeKeeps
<1>3. CASE UNCHANGED hbmVars
  BY <1>3 DEF hbmVars, HbmInv, HbmTypeOK, HeldIsGranted
<1> QED
  BY <1>1, <1>2, <1>3 DEF HbmNext

LEMMA HbmInvSpace == HbmInv => SpaceKept
<1> SUFFICES ASSUME HbmInv PROVE SpaceKept
  OBVIOUS
<1>1. HbmTypeOK
  BY DEF HbmInv
<1>2. Disjoint
  BY DEF HbmInv, Disjoint, Sound, HeldIsGranted
<1>3. NothingLost
  <2> SUFFICES ASSUME ~crashed PROVE Covered(hbmlist, hbmu, Base, EndOfCard) /\ Consistent(hbmlist)
    BY DEF NothingLost
  <2>1. Sound(hbmlist, hbmu, Base, EndOfCard) /\ Base \in Int /\ EndOfCard \in Int
    BY Space DEF HbmInv
  <2>2. Consistent(hbmlist)
    BY <2>1, SoundFields DEF Consistent
  <2> QED
    BY <2>1, <2>2 DEF Sound
<1>4. Rejoined
  <2> SUFFICES ASSUME ~crashed, ~ragged, hbmheld = {} PROVE hbmlist = <<Region(Base, Total)>>
    BY DEF Rejoined
  <2>1. Sound(hbmlist, hbmu, Base, EndOfCard) /\ HeldIsGranted /\ Gapped(hbmlist)
    BY DEF HbmInv
  <2>2. DOMAIN hbmu = {}
    BY <2>1 DEF HeldIsGranted
  <2>3. Base \in Int /\ EndOfCard \in Int /\ Base < EndOfCard /\ EndOfCard - Base = Total
    BY Space
  <2>4. hbmlist = <<Region(Base, EndOfCard - Base)>>
    BY <2>1, <2>2, <2>3, OneRegion
  <2> QED
    BY <2>3, <2>4
<1> QED
  BY <1>1, <1>2, <1>3, <1>4 DEF SpaceKept

LEMMA HbmInvTop == HbmInv => SafeWhileTopListed
<1> SUFFICES ASSUME HbmInv, ~crashed, NEW k \in DOMAIN hbmlist, hbmlist[k].end = EndOfCard,
                    NEW b \in hbmheld
             PROVE  ~RunsOff(hbmlist, b.addr)
  BY DEF SafeWhileTopListed
<1>1. Sound(hbmlist, hbmu, Base, EndOfCard) /\ b.addr \in DOMAIN hbmu /\ Base \in Int /\ EndOfCard \in Int
  BY Space DEF HbmInv, HeldIsGranted
<1> QED
  BY <1>1, TopStops

(* Whatever callers ask for and return, in any order: no address of the HBM  *)
(* is handed out twice or lost, and the list is one region again when        *)
(* everything is back and all sizes were multiples of the unit (hbm_getaddr, *)
(* hbm_free).                                                                *)
THEOREM SpaceCorrect == HbmSpec => []SpaceKept
  BY HbmInvInit, HbmInvNext, HbmInvSpace, PTL DEF HbmSpec

(* A return is safe as long as a node of the list ends at the top of the     *)
(* space: the walk of hbm_free, which has no test for its end, stops there.  *)
THEOREM ReturnsCorrect == HbmSpec => []SafeWhileTopListed
  BY HbmInvInit, HbmInvNext, HbmInvTop, PTL DEF HbmSpec
-----------------------------------------------------------------------------
(* The host library's allocator of huge-page memory: the layout of the slots *)
(* that the function ListStart gives.                                        *)
Width(c) == Slots * SlotSize[c]

LEMMA WidthIs ==
  ASSUME NEW c \in Lists
  PROVE  Width(c) \in Nat /\ SlotSize[c] \in Nat \ {0} /\ Slots \in Nat \ {0}
<1>1. SlotSize[c] \in Nat \ {0} /\ Slots \in Nat \ {0}
  BY HugePagesAssumption
<1> QED
  BY <1>1 DEF Width

(* The recursion of ListStart over the first n lists. *)
StartsOf(n, f) == f = [c \in 1 .. n |-> IF c = 1 THEN hpstart ELSE f[c - 1] + Width(c - 1)]

LEMMA StartsExist ==
  ASSUME NEW n \in Nat
  PROVE  \E f : StartsOf(n, f)
<1> DEFINE T == {m \in Nat : ~ \E f : StartsOf(m, f)}
<1> SUFFICES T = {}
  OBVIOUS
<1> SUFFICES ASSUME T # {} PROVE FALSE
  OBVIOUS
<1>1. PICK m \in T : \A k \in T : m =< k
  <2>1. T \in SUBSET Nat
    OBVIOUS
  <2> HIDE DEF T
  <2> QED
    BY <2>1, LeastNat
<1>2. m # 0
  <2>1. StartsOf(0, [c \in 1 .. 0 |-> 0])
    BY DEF StartsOf
  <2> QED
    BY <2>1
<1>3. m - 1 \in Nat /\ m - 1 \notin T /\ m \in Nat
  <2>1. m \in Nat /\ m - 1 \in Nat /\ ~(m =< m - 1)
    BY <1>2
  <2> HIDE DEF T
  <2> QED
    BY <2>1, <1>1
<1>4. PICK f : StartsOf(m - 1, f)
  BY <1>3
<1> DEFINE last == IF m = 1 THEN hpstart ELSE f[m - 1] + Width(m - 1)
           g == [c \in 1 .. m |-> IF c = m THEN last ELSE f[c]]
           step(c) == IF c = 1 THEN hpstart ELSE g[c - 1] + Width(c - 1)
<1>5. \A c \in 1 .. m : g[c] = IF c = m THEN last ELSE f[c]
  OBVIOUS
<1>6. \A c \in 1 .. m - 1 : f[c] = IF c = 1 THEN hpstart ELSE f[c - 1] + Width(c - 1)
  BY <1>4, Zenon DEF StartsOf
<1>7. ASSUME NEW c \in 1 .. m PROVE g[c] = step(c)
  <2>1. CASE c = m
    <3>1. c # 1 => c - 1 \in 1 .. m /\ c - 1 # m
      BY <2>1, <1>3
    <3> HIDE DEF g
    <3>2. c # 1 => g[c - 1] = f[c - 1]
      BY <3>1, <1>5, Zenon
    <3>3. g[c] = last
      BY <2>1, <1>5, Zenon
    <3> QED
      BY <3>2, <3>3, <2>1, Zenon
  <2>2. CASE c # m
    <3>1. c \in 1 .. m - 1 /\ (c # 1 => c - 1 \in 1 .. m /\ c - 1 # m)
      BY <2>2, <1>3
    <3> HIDE DEF g, last
    <3>2. c # 1 => g[c - 1] = f[c - 1]
      BY <3>1, <1>5, Zenon
    <3>3. g[c] = f[c]
      BY <2>2, <1>5, Zenon
    <3>4. f[c] = IF c = 1 THEN hpstart ELSE f[c - 1] + Width(c - 1)
      BY <3>1, <1>6, Zenon
    <3> QED
      BY <3>2, <3>3, <3>4, Zenon
  <2> QED
    BY <2>1, <2>2
<1>8. g = [c \in 1 .. m |-> g[c]]
  OBVIOUS
<1> HIDE DEF g
<1>9. StartsOf(m, g)
  BY <1>7, <1>8, Zenon DEF StartsOf
<1> QED
  BY <1>9

LEMMA ListStartIs ==
  /\ ListStart[1] = hpstart
  /\ \A c \in Lists : ListStart[c + 1] = ListStart[c] + Width(c)
<1> DEFINE S == 1 .. NumLists + 1
<1>1. NumLists \in Nat /\ NumLists + 1 \in Nat
  BY HugePagesAssumption
<1>2. PICK f : StartsOf(NumLists + 1, f)
  BY <1>1, StartsExist
<1>3. ListStart = CHOOSE g : StartsOf(NumLists + 1, g)
  BY Zenon DEF ListStart, StartsOf, Width
<1>4. StartsOf(NumLists + 1, ListStart)
  BY <1>2, <1>3, Zenon
<1>5. \A c \in S : ListStart[c] = IF c = 1 THEN hpstart ELSE ListStart[c - 1] + Width(c - 1)
  BY <1>4, Zenon DEF StartsOf
<1>6. 1 \in S /\ \A c \in Lists : c + 1 \in S /\ c + 1 # 1 /\ (c + 1) - 1 = c
  BY <1>1 DEF Lists
<1> HIDE DEF S
<1> QED
  BY <1>5, <1>6, Zenon
LEMMA StartIsNat ==
  ASSUME NEW c \in 1 .. NumLists + 1
  PROVE  ListStart[c] \in Nat
<1> DEFINE T == {m \in 1 .. NumLists + 1 : ListStart[m] \notin Nat}
<1> SUFFICES ASSUME T # {} PROVE FALSE
  OBVIOUS
<1>1. PICK m \in T : \A k \in T : m =< k
  <2>1. T \in SUBSET Nat
    OBVIOUS
  <2> HIDE DEF T
  <2> QED
    BY <2>1, LeastNat
<1>2. m \in 1 .. NumLists + 1 /\ ListStart[m] \notin Nat /\ NumLists \in Nat
  BY HugePagesAssumption
<1>3. m # 1
  BY <1>2, ListStartIs DEF hpstart
<1>4. m - 1 \in Lists /\ m - 1 \in 1 .. NumLists + 1 /\ (m - 1) + 1 = m /\ ~(m =< m - 1)
  BY <1>2, <1>3 DEF Lists
<1>5. ListStart[m - 1] \in Nat
  <2>1. m - 1 \notin T
    <3> HIDE DEF T
    <3> QED
      BY <1>1, <1>4
  <2> QED
    BY <2>1, <1>4
<1>6. ListStart[(m - 1) + 1] = ListStart[m - 1] + Width(m - 1) /\ Width(m - 1) \in Nat
  BY <1>4, ListStartIs, WidthIs
<1> QED
  BY <1>2, <1>4, <1>5, <1>6

(* The lists lie one above the other. *)
LEMMA StartsAscend ==
  ASSUME NEW c \in Lists, NEW d \in c + 1 .. NumLists + 1
  PROVE  ListStart[c + 1] =< ListStart[d]
<1> DEFINE T == {m \in c + 1 .. NumLists + 1 : ~(ListStart[c + 1] =< ListStart[m])}
<1> SUFFICES ASSUME T # {} PROVE FALSE
  OBVIOUS
<1>1. NumLists \in Nat /\ c \in 1 .. NumLists
  BY HugePagesAssumption DEF Lists
<1>2. PICK m \in T : \A k \in T : m =< k
  <2>1. T \in SUBSET Nat
    BY <1>1
  <2> HIDE DEF T
  <2> QED
    BY <2>1, LeastNat
<1>3. m \in c + 1 .. NumLists + 1 /\ ~(ListStart[c + 1] =< ListStart[m])
  OBVIOUS
<1>4. c + 1 \in 1 .. NumLists + 1 /\ ListStart[c + 1] \in Nat
  BY <1>1, StartIsNat
<1>5. m # c + 1
  BY <1>3, <1>4
<1>6. /\ m - 1 \in c + 1 .. NumLists + 1 /\ m - 1 \in Lists /\ (m - 1) + 1 = m /\ ~(m =< m - 1)
      /\ m - 1 \in 1 .. NumLists + 1
  BY <1>1, <1>3, <1>5 DEF Lists
<1>7. ListStart[c + 1] =< ListStart[m - 1]
  <2>1. m - 1 \notin T
    <3> HIDE DEF T
    <3> QED
      BY <1>2, <1>6
  <2> QED
    BY <2>1, <1>6
<1>8. ListStart[(m - 1) + 1] = ListStart[m - 1] + Width(m - 1) /\ Width(m - 1) \in Nat
      /\ ListStart[m - 1] \in Nat
  BY <1>6, ListStartIs, WidthIs, StartIsNat
<1> QED
  BY <1>3, <1>4, <1>6, <1>7, <1>8

LEMMA Product ==
  ASSUME NEW i \in Nat, NEW n \in Nat, NEW s \in Nat \ {0}, i < n
  PROVE  /\ i * s \in Nat /\ n * s \in Nat /\ i * s + s =< n * s
         /\ (i * s) \div s = i
<1>1. (i + 1) * s =< n * s /\ (i + 1) * s = i * s + s
  <2>1. (n - (i + 1)) \in Nat /\ (n - (i + 1)) * s \in Nat
    OBVIOUS
  <2>2. (n - (i + 1)) * s = n * s - (i + 1) * s
    OBVIOUS
  <2> QED
    BY <2>1, <2>2
<1>2. (i * s) \div s = i
  OBVIOUS
<1> QED
  BY <1>1, <1>2

LEMMA SlotIn ==
  ASSUME NEW c \in Lists, NEW i \in 0 .. Slots - 1
  PROVE  /\ Slot(c, i) \in Nat /\ SlotSize[c] \in Nat \ {0} /\ ListStart[c] \in Nat
         /\ c + 1 \in 1 .. NumLists + 1 /\ ListStart[c + 1] \in Nat /\ LargeStart \in Nat
         /\ ListStart[c] =< Slot(c, i)
         /\ Slot(c, i) + SlotSize[c] =< ListStart[c + 1]
         /\ ListStart[c + 1] =< LargeStart
         /\ (Slot(c, i) - ListStart[c]) \div SlotSize[c] = i
<1>1. /\ NumLists \in Nat /\ c \in 1 .. NumLists + 1 /\ c + 1 \in 1 .. NumLists + 1
      /\ NumLists + 1 \in 1 .. NumLists + 1 /\ NumLists + 1 \in c + 1 .. NumLists + 1
  BY HugePagesAssumption DEF Lists
<1>2. ListStart[c] \in Nat /\ ListStart[c + 1] \in Nat /\ LargeStart \in Nat
  BY <1>1, StartIsNat DEF LargeStart
<1>3. ListStart[c + 1] =< LargeStart
  BY <1>1, StartsAscend DEF LargeStart
<1> DEFINE s == SlotSize[c]
           t == ListStart[c]
<1>4. s \in Nat \ {0} /\ Slots \in Nat \ {0} /\ ListStart[c + 1] = t + Slots * s
  BY WidthIs, ListStartIs DEF Width
<1>5. Slot(c, i) = t + i * s
  BY DEF Slot
<1> HIDE DEF s, t
<1>6. i * s \in Nat /\ i * s + s =< Slots * s /\ (i * s) \div s = i /\ Slots * s \in Nat
  <2>1. i \in Nat /\ Slots \in Nat /\ i < Slots
    BY <1>4
  <2> QED
    BY <2>1, <1>4, Product
<1>7. t \in Nat
  BY <1>2 DEF t
<1> DEFINE x == i * s
           w == Slots * s
<1>8. x \in Nat /\ w \in Nat /\ x + s =< w /\ x \div s = i /\ Slot(c, i) = t + x /\ ListStart[c + 1] = t + w
  BY <1>4, <1>5, <1>6
<1> HIDE DEF x, w
<1>9. (t + x) - t = x
  BY <1>7, <1>8
<1>10. Slot(c, i) \in Nat /\ t =< Slot(c, i) /\ Slot(c, i) + s =< ListStart[c + 1]
  BY <1>4, <1>7, <1>8
<1>11. (Slot(c, i) - t) \div s = i
  BY <1>8, <1>9
<1> QED
  BY <1>1, <1>2, <1>3, <1>4, <1>10, <1>11 DEF s, t

LEMMA SlotsApart ==
  ASSUME NEW c \in Lists, NEW i \in 0 .. Slots - 1, NEW d \in Lists, NEW j \in 0 .. Slots - 1,
         <<c, i>> # <<d, j>>
  PROVE  /\ Slot(c, i) # Slot(d, j)
         /\ ~Overlap(Slot(c, i), SlotSize[c], Slot(d, j), SlotSize[d])
<1>1. /\ Slot(c, i) \in Nat /\ SlotSize[c] \in Nat \ {0} /\ ListStart[c] =< Slot(c, i)
      /\ ListStart[c] \in Nat
      /\ Slot(c, i) + SlotSize[c] =< ListStart[c + 1] /\ ListStart[c + 1] \in Nat
      /\ Slot(d, j) \in Nat /\ SlotSize[d] \in Nat \ {0} /\ ListStart[d] =< Slot(d, j)
      /\ ListStart[d] \in Nat
      /\ Slot(d, j) + SlotSize[d] =< ListStart[d + 1] /\ ListStart[d + 1] \in Nat
  BY SlotIn
<1>2. CASE c < d
  <2>1. d \in c + 1 .. NumLists + 1
    BY <1>2, HugePagesAssumption DEF Lists
  <2>2. ListStart[c + 1] =< ListStart[d]
    BY <2>1, StartsAscend
  <2> QED
    BY <2>2, <1>1 DEF Overlap
<1>3. CASE d < c
  <2>1. c \in d + 1 .. NumLists + 1
    BY <1>3, HugePagesAssumption DEF Lists
  <2>2. ListStart[d + 1] =< ListStart[c]
    BY <2>1, StartsAscend
  <2> QED
    BY <2>2, <1>1 DEF Overlap
<1>4. CASE c = d
  <2> DEFINE s == SlotSize[c]
             t == ListStart[c]
  <2>1. Slot(c, i) = t + i * s /\ Slot(d, j) = t + j * s
    BY <1>4 DEF Slot
  <2>2. s \in Nat \ {0} /\ t \in Nat
    BY <1>1
  <2> HIDE DEF s, t
  <2>3. i \in Nat /\ j \in Nat /\ i # j
    BY <1>4
  <2>4. i * s \in Nat /\ j * s \in Nat
    BY <2>2, <2>3
  <2>5. CASE i < j
    <3>1. i * s + s =< j * s
      BY <2>2, <2>3, <2>5, Product
    <3> DEFINE x == i * s
               y == j * s
    <3>2. x \in Nat /\ y \in Nat /\ x + s =< y /\ Slot(c, i) = t + x /\ Slot(d, j) = t + y
      BY <2>1, <2>4, <3>1
    <3> HIDE DEF x, y
    <3>3. Slot(c, i) # Slot(d, j) /\ ~Overlap(Slot(c, i), s, Slot(d, j), s)
      BY <2>2, <3>2 DEF Overlap
    <3> QED
      BY <3>3, <1>4 DEF s
  <2>6. CASE j < i
    <3>1. j * s + s =< i * s
      BY <2>2, <2>3, <2>6, Product
    <3> DEFINE x == i * s
               y == j * s
    <3>2. x \in Nat /\ y \in Nat /\ y + s =< x /\ Slot(c, i) = t + x /\ Slot(d, j) = t + y
      BY <2>1, <2>4, <3>1
    <3> HIDE DEF x, y
    <3>3. Slot(c, i) # Slot(d, j) /\ ~Overlap(Slot(c, i), s, Slot(d, j), s)
      BY <2>2, <3>2 DEF Overlap
    <3> QED
      BY <3>3, <1>4 DEF s
  <2> QED
    BY <2>3, <2>5, <2>6
<1> QED
  BY <1>2, <1>3, <1>4, HugePagesAssumption DEF Lists

(* A slot's address tells its list. *)
LEMMA HomeIs ==
  ASSUME NEW c \in Lists, NEW i \in 0 .. Slots - 1
  PROVE  Home(Slot(c, i)) = c
<1> DEFINE a == Slot(c, i)
           P(d) == ListStart[d] =< a /\ a < ListStart[d + 1]
<1>1. /\ a \in Nat /\ SlotSize[c] \in Nat \ {0} /\ ListStart[c] \in Nat /\ ListStart[c + 1] \in Nat
      /\ ListStart[c] =< a /\ a + SlotSize[c] =< ListStart[c + 1]
  BY SlotIn
<1> HIDE DEF a
<1>2. P(c)
  BY <1>1
<1>3. ASSUME NEW d \in Lists, P(d) PROVE d = c
  <2>1. d \in 1 .. NumLists + 1 /\ d + 1 \in 1 .. NumLists + 1
    BY HugePagesAssumption DEF Lists
  <2>2. ListStart[d] \in Nat /\ ListStart[d + 1] \in Nat
    BY <2>1, StartIsNat
  <2>3. ~(c < d)
    <3> SUFFICES ASSUME c < d PROVE FALSE
      OBVIOUS
    <3>1. d \in c + 1 .. NumLists + 1
      BY HugePagesAssumption DEF Lists
    <3>2. ListStart[c + 1] =< ListStart[d]
      BY <3>1, StartsAscend
    <3> QED
      BY <3>2, <1>1, <1>3, <2>2
  <2>4. ~(d < c)
    <3> SUFFICES ASSUME d < c PROVE FALSE
      OBVIOUS
    <3>1. c \in d + 1 .. NumLists + 1
      BY HugePagesAssumption DEF Lists
    <3>2. ListStart[d + 1] =< ListStart[c]
      BY <3>1, StartsAscend
    <3> QED
      BY <3>2, <1>1, <1>3, <2>2
  <2> QED
    BY <2>3, <2>4, HugePagesAssumption DEF Lists
<1>4. Home(a) = CHOOSE d \in Lists : P(d)
  BY DEF Home
<1> HIDE DEF P
<1>5. Home(a) = c
  BY <1>2, <1>3, <1>4
<1> QED
  BY <1>5 DEF a

LEMMA ListForIs ==
  ASSUME NEW size \in Nat
  PROVE  /\ ListFor(size) \in 1 .. NumLists + 1
         /\ ListFor(size) =< NumLists => size =< SlotSize[ListFor(size)]
<1> DEFINE P(c) == /\ c =< NumLists => size =< SlotSize[c]
                   /\ \A d \in 1 .. c - 1 : size > SlotSize[d]
           T == {c \in 1 .. NumLists + 1 : c =< NumLists => size =< SlotSize[c]}
<1>1. NumLists \in Nat
  BY HugePagesAssumption
<1>2. T \in SUBSET Nat /\ NumLists + 1 \in T
  BY <1>1
<1>3. PICK m \in T : \A k \in T : m =< k
  <2> HIDE DEF T
  <2> QED
    BY <1>2, LeastNat
<1>4. m \in 1 .. NumLists + 1 /\ (m =< NumLists => size =< SlotSize[m])
  OBVIOUS
<1>5. ASSUME NEW d \in 1 .. m - 1 PROVE size > SlotSize[d]
  <2>1. d \in 1 .. NumLists + 1 /\ d =< NumLists /\ ~(m =< d) /\ d \in Lists
    BY <1>1, <1>4 DEF Lists
  <2>2. d \notin T
    <3> HIDE DEF T
    <3> QED
      BY <2>1, <1>3
  <2>3. SlotSize[d] \in Nat
    BY <2>1, WidthIs
  <2> QED
    BY <2>1, <2>2, <2>3
<1>6. P(m)
  BY <1>4, <1>5
<1>7. ListFor(size) = CHOOSE c \in 1 .. NumLists + 1 : P(c)
  BY Zenon DEF ListFor
<1>8. ListFor(size) \in 1 .. NumLists + 1 /\ P(ListFor(size))
  <2> HIDE DEF P
  <2> QED
    BY <1>4, <1>6, <1>7
<1> QED
  BY <1>8
-----------------------------------------------------------------------------
HugeSpec == HugeInit /\ [][HugeNext]_hugeVars

Indices == 0 .. Slots - 1

Free(c, i) == \E k \in DOMAIN slots[c] : slots[c][k] = i
Lent(c, i) == \E b \in buffers : b.addr = Slot(c, i)

(* A list has each of its slots at most once, and those that no caller has.  *)
SlotsKept ==
  /\ slots \in [Lists -> Seq(Indices)]
  /\ \A c \in Lists : \A j, k \in DOMAIN slots[c] : slots[c][j] = slots[c][k] => j = k
  /\ \A c \in Lists, i \in Indices : Free(c, i) <=> ~Lent(c, i)

(* What remains of Sound when a walk has gone through the null pointer.      *)
LargeKept ==
  /\ Nodes(o5fl, LargeStart, hpend) /\ Grants(o5flu, LargeStart, hpend)
  /\ NoOverlap(o5fl, o5flu)
  /\ ~o5crashed => Covered(o5fl, o5flu, LargeStart, hpend)

InGrant(b) == b.addr \in DOMAIN o5flu /\ b.size =< o5flu[b.addr]
InSlot(b)  == \E c \in Lists, i \in Indices : b.addr = Slot(c, i) /\ b.size =< SlotSize[c]

(* A buffer lies in a grant or in a slot, and no two start at one address.   *)
BuffersPlaced ==
  /\ \A b \in buffers : InGrant(b) \/ InSlot(b)
  /\ \A a, b \in buffers : a.addr = b.addr => a = b
  /\ buffers \subseteq [addr : hpstart .. hpend - 1, size : HugeSizes]

HugeInv == SlotsKept /\ LargeKept /\ BuffersPlaced /\ o5crashed \in BOOLEAN

LEMMA LargeSpace ==
  /\ LargeStart \in Nat /\ hpend \in Nat /\ LargeStart < hpend /\ hpend = LargeStart + Large
  /\ Large \in Nat \ {0} /\ Whole(Large)
  /\ \A size \in HugeSizes : size \in Nat \ {0}
<1>1. Large \in Nat \ {0} /\ Large % Unit = 0 /\ NumLists \in Nat
      /\ \A size \in HugeSizes : size \in Nat \ {0}
  BY HugePagesAssumption
<1>2. LargeStart \in Nat
  BY <1>1, StartIsNat DEF LargeStart
<1>3. Whole(Large)
  BY <1>1, WholeIs
<1>4. hpend = LargeStart + Large
  BY DEF hpend
<1> QED
  BY <1>1, <1>2, <1>3, <1>4

LEMMA LargeSound ==
  ASSUME LargeKept, ~o5crashed
  PROVE  Sound(o5fl, o5flu, LargeStart, hpend)
BY DEF LargeKept, Sound

LEMMA HugeInvInit == HugeInit => HugeInv
<1> SUFFICES ASSUME HugeInit PROVE HugeInv
  OBVIOUS
<1>1. /\ LargeStart \in Nat /\ hpend \in Nat /\ LargeStart < hpend /\ hpend = LargeStart + Large
      /\ Large \in Nat \ {0} /\ Whole(Large)
  BY LargeSpace
<1> DEFINE r == Region(LargeStart, Large)
<1>2. r \in Node /\ r.start = LargeStart /\ r.end = hpend /\ r.length = Large
  BY <1>1 DEF Region, Node
<1> HIDE DEF r
<1>3. o5fl = <<r>> /\ o5flu = <<>> /\ buffers = {} /\ o5crashed = FALSE
  BY DEF HugeInit, r
<1>4. /\ o5fl \in Seq(Node) /\ DOMAIN o5fl = {1} /\ o5fl[1] = r
      /\ DOMAIN o5flu = {} /\ o5flu \in [DOMAIN o5flu -> Nat]
  BY <1>2, <1>3
<1>5. LargeKept
  <2>1. Nodes(o5fl, LargeStart, hpend)
    BY <1>1, <1>2, <1>4 DEF Nodes
  <2>2. Grants(o5flu, LargeStart, hpend)
    BY <1>4 DEF Grants
  <2>3. NoOverlap(o5fl, o5flu)
    BY <1>4 DEF NoOverlap
  <2>4. Covered(o5fl, o5flu, LargeStart, hpend)
    BY <1>1, <1>2, <1>4 DEF Covered
  <2> QED
    BY <2>1, <2>2, <2>3, <2>4 DEF LargeKept
<1>6. BuffersPlaced
  BY <1>3 DEF BuffersPlaced
<1>7. SlotsKept
  <2>1. slots = [c \in Lists |-> [i \in 1 .. Slots |-> i - 1]] /\ Slots \in Nat \ {0}
    BY HugePagesAssumption DEF HugeInit
  <2>2. ASSUME NEW c \in Lists
        PROVE  /\ slots[c] \in Seq(Indices) /\ DOMAIN slots[c] = 1 .. Slots
               /\ \A k \in 1 .. Slots : slots[c][k] = k - 1
    BY <2>1 DEF Indices
  <2>3. slots \in [Lists -> Seq(Indices)]
    BY <2>1, <2>2
  <2>4. ASSUME NEW c \in Lists, NEW i \in Indices PROVE Free(c, i)
    <3>1. i + 1 \in 1 .. Slots /\ (i + 1) - 1 = i
      BY <2>1 DEF Indices
    <3> QED
      BY <2>2, <3>1 DEF Free
  <2>5. \A c \in Lists, i \in Indices : ~Lent(c, i)
    BY <1>3 DEF Lent
  <2>6. \A c \in Lists : \A j, k \in DOMAIN slots[c] : slots[c][j] = slots[c][k] => j = k
    BY <2>1, <2>2
  <2> QED
    BY <2>3, <2>4, <2>5, <2>6 DEF SlotsKept
<1> QED
  BY <1>3, <1>5, <1>6, <1>7 DEF HugeInv

LEMMA SlotAllocKeeps ==
  ASSUME HugeInv, NEW size \in HugeSizes, NEW c \in Lists, size =< SlotSize[c], SlotAlloc(c, size)
  PROVE  HugeInv'
<1> DEFINE s == slots[c]
           i == Head(s)
           b == [addr |-> Slot(c, i), size |-> size]
<1>1. /\ s # <<>> /\ slots' = [slots EXCEPT ![c] = Tail(s)]
      /\ buffers' = buffers \union {b}
      /\ o5fl' = o5fl /\ o5flu' = o5flu /\ o5crashed' = o5crashed
  BY DEF SlotAlloc
<1>2. /\ slots \in [Lists -> Seq(Indices)]
      /\ \A d \in Lists : \A j, k \in DOMAIN slots[d] : slots[d][j] = slots[d][k] => j = k
      /\ \A d \in Lists, j \in Indices : Free(d, j) <=> ~Lent(d, j)
  BY DEF HugeInv, SlotsKept
<1>3. /\ s \in Seq(Indices) /\ DOMAIN s = 1 .. Len(s) /\ Len(s) \in Nat \ {0}
      /\ i = s[1] /\ 1 \in DOMAIN s /\ i \in Indices
      /\ Tail(s) \in Seq(Indices) /\ DOMAIN Tail(s) = 1 .. Len(s) - 1
      /\ \A k \in 1 .. Len(s) - 1 : Tail(s)[k] = s[k + 1]
  BY <1>1, <1>2
<1>4. Free(c, i) /\ ~Lent(c, i)
  BY <1>2, <1>3 DEF Free
<1> HIDE DEF s, i
<1>5. b.addr = Slot(c, i) /\ b.size = size
  OBVIOUS
<1>6. /\ Slot(c, i) \in Nat /\ Slot(c, i) < LargeStart /\ LargeStart \in Nat /\ hpend \in Nat
      /\ LargeStart < hpend
  <2>1. /\ Slot(c, i) \in Nat /\ SlotSize[c] \in Nat \ {0}
        /\ Slot(c, i) + SlotSize[c] =< ListStart[c + 1]
        /\ ListStart[c + 1] =< LargeStart /\ ListStart[c + 1] \in Nat
    BY <1>3, SlotIn DEF Indices
  <2> QED
    BY <2>1, LargeSpace
<1>7. b \in [addr : hpstart .. hpend - 1, size : HugeSizes]
  <2>1. Slot(c, i) \in hpstart .. hpend - 1
    BY <1>6 DEF hpstart
  <2> QED
    BY <2>1
<1> HIDE DEF b
<1>8. BuffersPlaced'
  <2>1. InSlot(b)
    BY <1>3, <1>5 DEF InSlot
  <2>2. \A a \in buffers : (InGrant(a) \/ InSlot(a)) /\ a.addr # b.addr
    BY <1>4, <1>5 DEF HugeInv, BuffersPlaced, Lent
  <2>3. \A a \in buffers' : InGrant(a)' \/ InSlot(a)
    BY <1>1, <2>1, <2>2 DEF InGrant
  <2>4. \A a, d \in buffers' : a.addr = d.addr => a = d
    BY <1>1, <2>2 DEF HugeInv, BuffersPlaced
  <2>5. buffers' \subseteq [addr : hpstart .. hpend - 1, size : HugeSizes]
    BY <1>1, <1>7 DEF HugeInv, BuffersPlaced
  <2> QED
    BY <2>3, <2>4, <2>5 DEF BuffersPlaced, InSlot
<1>9. LargeKept'
  BY <1>1 DEF HugeInv, LargeKept
<1>10. /\ slots' \in [Lists -> Seq(Indices)]
       /\ slots'[c] = Tail(s) /\ \A d \in Lists \ {c} : slots'[d] = slots[d]
  BY <1>1, <1>2, <1>3
<1>11. \A d \in Lists : \A j, k \in DOMAIN slots'[d] : slots'[d][j] = slots'[d][k] => j = k
  <2>1. ASSUME NEW j \in 1 .. Len(s) - 1, NEW k \in 1 .. Len(s) - 1, Tail(s)[j] = Tail(s)[k]
        PROVE  j = k
    <3>1. j + 1 \in DOMAIN s /\ k + 1 \in DOMAIN s /\ s[j + 1] = s[k + 1]
      BY <1>3, <2>1
    <3>2. j + 1 = k + 1
      BY <1>2, <3>1 DEF s
    <3> QED
      BY <3>2
  <2> QED
    BY <1>2, <1>3, <1>10, <2>1
<1>12. ASSUME NEW d \in Lists, NEW j \in Indices PROVE Free(d, j)' <=> ~Lent(d, j)'
  <2>1. Free(d, j) <=> ~Lent(d, j)
    BY <1>2
  <2>2. CASE d = c /\ j = i
    <3>1. Lent(d, j)'
      BY <1>1, <1>5, <2>2 DEF Lent
    <3>2. ASSUME Free(d, j)' PROVE FALSE
      <4>1. PICK k \in 1 .. Len(s) - 1 : Tail(s)[k] = i
        BY <1>3, <1>10, <2>2, <3>2 DEF Free
      <4>2. k + 1 \in DOMAIN s /\ s[k + 1] = s[1] /\ k + 1 # 1
        BY <1>3, <4>1
      <4> QED
        BY <1>2, <1>3, <4>2 DEF s
    <3> QED
      BY <3>1, <3>2
  <2>3. CASE <<d, j>> # <<c, i>>
    <3>1. Slot(d, j) # b.addr
      BY <1>3, <1>5, <2>3, SlotsApart DEF Indices
    <3>2. Lent(d, j)' <=> Lent(d, j)
      BY <1>1, <3>1 DEF Lent
    <3>3. Free(d, j)' <=> Free(d, j)
      <4>1. CASE d # c
        BY <1>10, <4>1 DEF Free
      <4>2. CASE d = c
        <5>1. j # i
          BY <2>3, <4>2
        <5>2. ASSUME Free(d, j)' PROVE Free(d, j)
          <6>1. PICK k \in 1 .. Len(s) - 1 : Tail(s)[k] = j
            BY <1>3, <1>10, <4>2, <5>2 DEF Free
          <6>2. k + 1 \in DOMAIN s /\ s[k + 1] = j
            BY <1>3, <6>1
          <6> QED
            BY <4>2, <6>2 DEF Free, s
        <5>3. ASSUME Free(d, j) PROVE Free(d, j)'
          <6>1. PICK k \in DOMAIN s : s[k] = j
            BY <4>2, <5>3 DEF Free, s
          <6>2. k # 1
            BY <1>3, <5>1, <6>1
          <6>3. k - 1 \in 1 .. Len(s) - 1 /\ (k - 1) + 1 = k
            BY <1>3, <6>2
          <6>4. Tail(s)[k - 1] = j /\ k - 1 \in DOMAIN Tail(s)
            BY <1>3, <6>1, <6>3
          <6> QED
            BY <1>10, <4>2, <6>4 DEF Free
        <5> QED
          BY <5>2, <5>3
      <4> QED
        BY <4>1, <4>2
    <3> QED
      BY <2>1, <3>2, <3>3
  <2> QED
    BY <2>2, <2>3
<1> QED
  BY <1>1, <1>8, <1>9, <1>10, <1>11, <1>12 DEF HugeInv, SlotsKept
(* A slot is below every address of the large memory. *)
LEMMA SlotBelow ==
  ASSUME NEW c \in Lists, NEW i \in Indices
  PROVE  /\ Slot(c, i) \in Nat /\ SlotSize[c] \in Nat \ {0} /\ LargeStart \in Nat
         /\ Slot(c, i) + SlotSize[c] =< LargeStart
<1>1. /\ Slot(c, i) \in Nat /\ SlotSize[c] \in Nat \ {0} /\ LargeStart \in Nat
      /\ Slot(c, i) + SlotSize[c] =< ListStart[c + 1]
      /\ ListStart[c + 1] =< LargeStart /\ ListStart[c + 1] \in Nat
  BY SlotIn DEF Indices
<1> QED
  BY <1>1

LEMMA LargeAllocKeeps ==
  ASSUME HugeInv, ~o5crashed, NEW size \in HugeSizes, O5fl_alloc(size)
  PROVE  HugeInv'
<1>0. PICK g, b : g = Granted(o5fl, size) /\ b = [addr |-> g.addr, size |-> size]
  OBVIOUS
<1>1. /\ Fits(o5fl, size) /\ o5crashed' = o5crashed /\ slots' = slots
      /\ o5flu' = Noted(o5flu, g) /\ buffers' = buffers \union {b}
      /\ o5fl' = Taken(o5fl, size)
  BY <1>0 DEF O5fl_alloc
<1>2. Sound(o5fl, o5flu, LargeStart, hpend)
  BY LargeSound DEF HugeInv
<1>3. LargeStart \in Nat /\ hpend \in Nat /\ size \in Nat \ {0}
  BY LargeSpace
<1>4. /\ g.addr \in Int \ DOMAIN o5flu /\ g.length \in Nat \ {0} /\ size =< g.length
      /\ LargeStart =< g.addr /\ g.addr + g.length =< hpend
      /\ Sound(Taken(o5fl, size), Noted(o5flu, g), LargeStart, hpend)
  BY <1>0, <1>1, <1>2, <1>3, Granting
<1>5. LargeKept'
  <2>1. Sound(o5fl', o5flu', LargeStart, hpend)
    BY <1>1, <1>4
  <2> QED
    BY <2>1 DEF LargeKept, Sound
<1>6. /\ DOMAIN o5flu' = DOMAIN o5flu \union {g.addr} /\ o5flu'[g.addr] = g.length
      /\ \A a \in DOMAIN o5flu : o5flu'[a] = o5flu[a]
  BY <1>1, <1>4 DEF Noted
<1>7. b.addr = g.addr /\ b.size = size
  BY <1>0
<1>8. b \in [addr : hpstart .. hpend - 1, size : HugeSizes]
  <2>1. g.addr \in hpstart .. hpend - 1
    BY <1>3, <1>4 DEF hpstart
  <2> QED
    BY <1>0, <2>1
<1>9. \A c \in Lists, i \in Indices : Slot(c, i) # g.addr
  <2> SUFFICES ASSUME NEW c \in Lists, NEW i \in Indices PROVE Slot(c, i) < LargeStart
    BY <1>3, <1>4, SlotBelow
  <2> QED
    BY SlotBelow
<1>10. BuffersPlaced'
  <2>1. InGrant(b)'
    <3>1. g.addr \in DOMAIN o5flu' /\ size =< o5flu'[g.addr]
      BY <1>4, <1>6
    <3> QED
      BY <1>7, <3>1 DEF InGrant
  <2>2. \A a \in buffers : InGrant(a) \/ InSlot(a)
    BY DEF HugeInv, BuffersPlaced
  <2>3. \A a \in buffers : a.addr # b.addr
    BY <2>2, <1>4, <1>7, <1>9 DEF InGrant, InSlot
  <2>4. ASSUME NEW a \in buffers PROVE InGrant(a)' \/ InSlot(a)
    BY <2>2, <1>6 DEF InGrant
  <2>5. ASSUME NEW a \in buffers' PROVE InGrant(a)' \/ InSlot(a)
    BY <1>1, <2>1, <2>4 DEF InGrant
  <2>6. \A a, d \in buffers' : a.addr = d.addr => a = d
    BY <1>1, <2>3 DEF HugeInv, BuffersPlaced
  <2>7. buffers' \subseteq [addr : hpstart .. hpend - 1, size : HugeSizes]
    BY <1>1, <1>8 DEF HugeInv, BuffersPlaced
  <2> QED
    BY <2>5, <2>6, <2>7 DEF BuffersPlaced, InSlot, InGrant
<1>11. SlotsKept'
  <2>1. ASSUME NEW c \in Lists, NEW i \in Indices
        PROVE  (Free(c, i)' <=> Free(c, i)) /\ (Lent(c, i)' <=> Lent(c, i))
    BY <1>1, <1>7, <1>9 DEF Free, Lent
  <2> QED
    BY <1>1, <2>1 DEF HugeInv, SlotsKept
<1> QED
  BY <1>1, <1>5, <1>10, <1>11 DEF HugeInv

LEMMA SlotFreeKeeps ==
  ASSUME HugeInv, NEW b \in buffers, b.addr \notin DOMAIN o5flu, buffers' = buffers \ {b},
         SlotFree(Home(b.addr), b.addr)
  PROVE  HugeInv'
<1>1. PICK c \in Lists, i \in Indices : b.addr = Slot(c, i) /\ b.size =< SlotSize[c]
  BY DEF HugeInv, BuffersPlaced, InGrant, InSlot
<1> DEFINE s == slots[c]
           t == Append(s, i)
<1>2. /\ slots' = [slots EXCEPT ![c] = t]
      /\ o5fl' = o5fl /\ o5flu' = o5flu /\ o5crashed' = o5crashed
  <2>1. Home(b.addr) = c /\ (b.addr - ListStart[c]) \div SlotSize[c] = i
    BY <1>1, HomeIs, SlotIn DEF Indices
  <2> QED
    BY <2>1 DEF SlotFree
<1>3. /\ slots \in [Lists -> Seq(Indices)]
      /\ \A d \in Lists : \A j, k \in DOMAIN slots[d] : slots[d][j] = slots[d][k] => j = k
      /\ \A d \in Lists, j \in Indices : Free(d, j) <=> ~Lent(d, j)
  BY DEF HugeInv, SlotsKept
<1>4. /\ s \in Seq(Indices) /\ DOMAIN s = 1 .. Len(s) /\ Len(s) \in Nat
      /\ t \in Seq(Indices) /\ DOMAIN t = 1 .. Len(s) + 1
      /\ t[Len(s) + 1] = i /\ \A k \in DOMAIN s : t[k] = s[k] /\ k \in DOMAIN t
  BY <1>3
<1>5. ~Free(c, i)
  BY <1>1, <1>3 DEF Lent
<1>6. \A k \in DOMAIN s : s[k] # i
  BY <1>5 DEF Free
<1> HIDE DEF t
<1>7. /\ slots' \in [Lists -> Seq(Indices)]
      /\ slots'[c] = t /\ \A d \in Lists \ {c} : slots'[d] = slots[d]
  BY <1>2, <1>3, <1>4
<1>8. \A d \in Lists : \A j, k \in DOMAIN slots'[d] : slots'[d][j] = slots'[d][k] => j = k
  <2>1. \A j, k \in DOMAIN s : s[j] = s[k] => j = k
    BY <1>3
  <2> HIDE DEF s
  <2>2. \A k \in DOMAIN t : k \in DOMAIN s \/ k = Len(s) + 1
    BY <1>4
  <2>3. \A j, k \in DOMAIN t : t[j] = t[k] => j = k
    BY <2>1, <2>2, <1>4, <1>6
  <2> QED
    BY <2>3, <1>3, <1>7
<1>9. ASSUME NEW d \in Lists, NEW j \in Indices PROVE Free(d, j)' <=> ~Lent(d, j)'
  <2>1. Free(d, j) <=> ~Lent(d, j)
    BY <1>3
  <2>2. CASE d = c /\ j = i
    <3>1. Free(d, j)'
      <4>1. Len(s) + 1 \in DOMAIN t
        BY <1>4
      <4> QED
        BY <4>1, <1>4, <1>7, <2>2 DEF Free
    <3>2. ~Lent(d, j)'
      BY <1>1, <2>2 DEF Lent, HugeInv, BuffersPlaced
    <3> QED
      BY <3>1, <3>2
  <2>3. CASE <<d, j>> # <<c, i>>
    <3>1. Slot(d, j) # b.addr
      BY <1>1, <2>3, SlotsApart DEF Indices
    <3>2. Lent(d, j)' <=> Lent(d, j)
      BY <3>1 DEF Lent
    <3>3. Free(d, j)' <=> Free(d, j)
      <4>1. CASE d # c
        BY <1>7, <4>1 DEF Free
      <4>2. CASE d = c
        <5>1. j # i
          BY <2>3, <4>2
        <5>2. (\E k \in DOMAIN t : t[k] = j) <=> (\E k \in DOMAIN s : s[k] = j)
          <6> HIDE DEF s
          <6>1. \A k \in DOMAIN t : k \in DOMAIN s \/ k = Len(s) + 1
            BY <1>4
          <6> QED
            BY <6>1, <1>4, <5>1
        <5> QED
          BY <5>2, <4>2, <1>7 DEF Free
      <4> QED
        BY <4>1, <4>2
    <3> QED
      BY <2>1, <3>2, <3>3
  <2> QED
    BY <2>2, <2>3
<1>10. SlotsKept'
  BY <1>7, <1>8, <1>9 DEF SlotsKept
<1>11. LargeKept'
  BY <1>2 DEF HugeInv, LargeKept
<1>12. BuffersPlaced'
  BY <1>2 DEF HugeInv, BuffersPlaced, InGrant, InSlot
<1> QED
  BY <1>2, <1>10, <1>11, <1>12 DEF HugeInv

LEMMA LargeFreeKeeps ==
  ASSUME HugeInv, ~o5crashed, NEW b \in buffers, b.addr \in DOMAIN o5flu,
         buffers' = buffers \ {b}, O5fl_free(b.addr)
  PROVE  HugeInv'
<1>1. o5flu' = Forgotten(o5flu, b.addr) /\ slots' = slots
  BY DEF O5fl_free
<1>2. Sound(o5fl, o5flu, LargeStart, hpend)
  BY LargeSound DEF HugeInv
<1>3. LargeStart \in Int /\ hpend \in Int /\ LargeStart =< b.addr /\ b.addr \in Int
  BY <1>2, LargeSpace, SoundFields
<1>4. DOMAIN o5flu' = DOMAIN o5flu \ {b.addr} /\ \A a \in DOMAIN o5flu' : o5flu'[a] = o5flu[a]
  BY <1>1 DEF Forgotten
<1>5. SlotsKept'
  <2>1. ASSUME NEW c \in Lists, NEW i \in Indices PROVE Lent(c, i)' <=> Lent(c, i)
    <3>1. Slot(c, i) # b.addr
      BY <1>3, SlotBelow
    <3> QED
      BY <3>1 DEF Lent
  <2>2. \A c \in Lists, i \in Indices : Free(c, i)' <=> Free(c, i)
    BY <1>1 DEF Free
  <2> QED
    BY <1>1, <2>1, <2>2 DEF HugeInv, SlotsKept
<1>6. BuffersPlaced'
  <2>1. \A a \in buffers' : a \in buffers /\ a.addr # b.addr
    BY DEF HugeInv, BuffersPlaced
  <2>2. ASSUME NEW a \in buffers' PROVE InGrant(a)' \/ InSlot(a)
    <3>1. InGrant(a) \/ InSlot(a)
      BY <2>1 DEF HugeInv, BuffersPlaced
    <3> QED
      BY <3>1, <2>1, <1>4 DEF InGrant
  <2> QED
    BY <2>1, <2>2 DEF HugeInv, BuffersPlaced, InGrant, InSlot
<1>7. CASE RunsOff(o5fl, b.addr)
  <2>1. o5crashed' = TRUE /\ o5fl' = o5fl
    BY <1>7 DEF O5fl_free
  <2>2. Nodes(o5fl', LargeStart, hpend)
    BY <2>1, <1>2 DEF Sound
  <2>3. Grants(o5flu', LargeStart, hpend)
    <3>1. \A a \in DOMAIN o5flu : o5flu[a] \in Nat
      BY <1>2, <1>3, SoundFields
    <3>2. o5flu' \in [DOMAIN o5flu' -> Nat]
      BY <3>1, <1>1, <1>4 DEF Forgotten
    <3> QED
      BY <3>2, <1>2, <1>4 DEF Sound, Grants
  <2>4. NoOverlap(o5fl', o5flu')
    BY <2>1, <1>2, <1>4 DEF Sound, NoOverlap
  <2>5. LargeKept'
    BY <2>1, <2>2, <2>3, <2>4 DEF LargeKept
  <2> QED
    BY <2>1, <2>5, <1>5, <1>6 DEF HugeInv
<1>8. CASE ~RunsOff(o5fl, b.addr)
  <2>1. o5crashed' = o5crashed /\ o5fl' = Joined(o5fl, b.addr, o5flu[b.addr])
    BY <1>8 DEF O5fl_free
  <2>2. Sound(o5fl', o5flu', LargeStart, hpend)
    BY <1>1, <1>2, <1>3, <1>8, <2>1, Returning
  <2>3. LargeKept'
    BY <2>2 DEF LargeKept, Sound
  <2> QED
    BY <2>1, <2>3, <1>5, <1>6 DEF HugeInv
<1> QED
  BY <1>7, <1>8

LEMMA HugeInvNext == HugeInv /\ [HugeNext]_hugeVars => HugeInv'
<1> SUFFICES ASSUME HugeInv, [HugeNext]_hugeVars PROVE HugeInv'
  OBVIOUS
<1>1. ASSUME NEW size \in HugeSizes, Hpalloc(size) PROVE HugeInv'
  <2>1. size \in Nat
    BY LargeSpace
  <2> DEFINE c == ListFor(size)
  <2>2. c \in 1 .. NumLists + 1 /\ (c =< NumLists => size =< SlotSize[c])
    BY <2>1, ListForIs
  <2>3. ~o5crashed /\ ((c =< NumLists /\ SlotAlloc(c, size)) \/ O5fl_alloc(size))
    BY <1>1 DEF Hpalloc
  <2> HIDE DEF c
  <2>4. CASE c =< NumLists /\ SlotAlloc(c, size)
    <3>1. c \in Lists
      BY <2>2, <2>4, HugePagesAssumption DEF Lists
    <3> QED
      BY <2>2, <2>4, <3>1, SlotAllocKeeps
  <2>5. CASE O5fl_alloc(size)
    BY <2>3, <2>5, LargeAllocKeeps
  <2> QED
    BY <2>3, <2>4, <2>5
<1>2. ASSUME NEW b \in buffers, Hpfree(b) PROVE HugeInv'
  <2>1. /\ ~o5crashed /\ buffers' = buffers \ {b}
        /\ IF b.addr \in DOMAIN o5flu
           THEN O5fl_free(b.addr)
           ELSE SlotFree(Home(b.addr), b.addr)
    BY <1>2 DEF Hpfree
  <2>2. CASE b.addr \in DOMAIN o5flu
    BY <2>1, <2>2, LargeFreeKeeps
  <2>3. CASE b.addr \notin DOMAIN o5flu
    BY <2>1, <2>3, SlotFreeKeeps
  <2> QED
    BY <2>2, <2>3
<1>3. CASE UNCHANGED hugeVars
  BY <1>3 DEF hugeVars, HugeInv, SlotsKept, LargeKept, BuffersPlaced, InGrant, InSlot, Free, Lent
<1> QED
  BY <1>1, <1>2, <1>3 DEF HugeNext
LEMMA Smaller ==
  ASSUME NEW a \in Int, NEW m \in Nat, NEW b \in Int, NEW n \in Nat,
         NEW k \in Nat, NEW l \in Nat, k =< m, l =< n, ~Overlap(a, m, b, n)
  PROVE  ~Overlap(a, k, b, l)
BY DEF Overlap

LEMMA HugeInvTyped == HugeInv => HugeTypeOK
<1> SUFFICES ASSUME HugeInv PROVE HugeTypeOK
  OBVIOUS
<1>1. LargeStart \in Nat /\ hpend \in Nat
  BY LargeSpace
<1>2. \A c \in Lists : \A k \in DOMAIN slots[c] : slots[c][k] \in 0 .. Slots - 1
  <2>1. \A c \in Lists : slots[c] \in Seq(Indices)
    BY DEF HugeInv, SlotsKept
  <2>2. \A c \in Lists : \A k \in DOMAIN slots[c] : slots[c][k] \in Indices
    BY <2>1
  <2> QED
    BY <2>2 DEF Indices
<1>3. ASSUME NEW k \in DOMAIN o5fl
      PROVE  o5fl[k].start \in LargeStart .. hpend /\ o5fl[k].end \in LargeStart .. hpend
  <2>1. o5fl[k].start \in Int /\ o5fl[k].end \in Int /\ o5fl[k].length \in Nat
    BY NodeFields DEF HugeInv, LargeKept, Nodes
  <2>2. /\ LargeStart =< o5fl[k].start /\ o5fl[k].end =< hpend
        /\ o5fl[k].end = o5fl[k].start + o5fl[k].length
    BY DEF HugeInv, LargeKept, Nodes
  <2> QED
    BY <1>1, <2>1, <2>2
<1>4. ASSUME NEW a \in DOMAIN o5flu
      PROVE  a \in LargeStart .. hpend - 1 /\ a + o5flu[a] =< hpend
  <2>1. a \in Int /\ LargeStart =< a /\ a + o5flu[a] =< hpend /\ o5flu[a] > 0 /\ o5flu[a] \in Nat
    BY DEF HugeInv, LargeKept, Grants
  <2> QED
    BY <1>1, <2>1
<1> QED
  BY <1>2, <1>3, <1>4 DEF HugeInv, BuffersPlaced, HugeTypeOK

(* Where a buffer lies decides what it is apart from. *)
LEMMA PlacedFields ==
  ASSUME HugeInv, NEW b \in buffers
  PROVE  /\ b.addr \in Int /\ b.size \in Nat
         /\ InGrant(b) => /\ o5flu[b.addr] \in Nat /\ LargeStart =< b.addr
                          /\ b.addr \in DOMAIN o5flu /\ b.size =< o5flu[b.addr]
<1>1. b.addr \in hpstart .. hpend - 1 /\ b.size \in HugeSizes
  BY DEF HugeInv, BuffersPlaced
<1>2. b.addr \in Int /\ b.size \in Nat
  BY <1>1, LargeSpace DEF hpstart
<1>3. ASSUME InGrant(b)
      PROVE  /\ o5flu[b.addr] \in Nat /\ LargeStart =< b.addr
             /\ b.addr \in DOMAIN o5flu /\ b.size =< o5flu[b.addr]
  BY <1>3 DEF InGrant, HugeInv, LargeKept, Grants
<1> QED
  BY <1>2, <1>3

LEMMA ApartFromSlot ==
  ASSUME HugeInv, NEW b \in buffers, NEW c \in Lists, NEW i \in Indices, b.addr # Slot(c, i),
         NEW n \in Nat, n =< SlotSize[c]
  PROVE  ~Overlap(b.addr, b.size, Slot(c, i), n) /\ ~Overlap(Slot(c, i), n, b.addr, b.size)
<1>1. b.addr \in Int /\ b.size \in Nat
  BY PlacedFields
<1>2. /\ Slot(c, i) \in Nat /\ SlotSize[c] \in Nat \ {0} /\ LargeStart \in Nat
      /\ Slot(c, i) + SlotSize[c] =< LargeStart
  BY SlotBelow
<1>3. ~Overlap(b.addr, b.size, Slot(c, i), n)
  <2>1. CASE InGrant(b)
    <3>1. LargeStart =< b.addr
      BY <2>1, PlacedFields
    <3> QED
      BY <3>1, <1>1, <1>2 DEF Overlap
  <2>2. CASE InSlot(b)
    <3>1. PICK d \in Lists, j \in Indices : b.addr = Slot(d, j) /\ b.size =< SlotSize[d]
      BY <2>2 DEF InSlot
    <3>2. ~Overlap(Slot(d, j), SlotSize[d], Slot(c, i), SlotSize[c])
      <4>1. <<d, j>> # <<c, i>>
        BY <3>1
      <4> QED
        BY <4>1, SlotsApart DEF Indices
    <3>3. SlotSize[d] \in Nat
      BY WidthIs
    <3> QED
      BY <3>1, <3>2, <3>3, <1>1, <1>2, Smaller
  <2> QED
    BY <2>1, <2>2 DEF HugeInv, BuffersPlaced
<1> QED
  BY <1>1, <1>2, <1>3 DEF Overlap

LEMMA HugeInvApart == HugeInv => BuffersApart
<1> SUFFICES ASSUME HugeInv PROVE BuffersApart
  OBVIOUS
<1>1. NoOverlap(o5fl, o5flu) /\ LargeStart \in Nat
  BY LargeSpace DEF HugeInv, LargeKept
<1>2. ASSUME NEW a \in buffers, NEW b \in buffers, a # b
      PROVE  ~Overlap(a.addr, a.size, b.addr, b.size)
  <2>1. a.addr # b.addr
    BY <1>2 DEF HugeInv, BuffersPlaced
  <2>2. CASE InGrant(a) /\ InGrant(b)
    <3>1. ~Overlap(a.addr, o5flu[a.addr], b.addr, o5flu[b.addr])
      BY <2>1, <2>2, <1>1 DEF InGrant, NoOverlap
    <3>2. /\ a.addr \in Int /\ a.size \in Nat /\ o5flu[a.addr] \in Nat /\ a.size =< o5flu[a.addr]
          /\ b.addr \in Int /\ b.size \in Nat /\ o5flu[b.addr] \in Nat /\ b.size =< o5flu[b.addr]
      BY <2>2, PlacedFields
    <3> QED
      BY <3>1, <3>2, Smaller
  <2>3. CASE InSlot(b)
    <3>1. PICK d \in Lists, j \in Indices : b.addr = Slot(d, j) /\ b.size =< SlotSize[d]
      BY <2>3 DEF InSlot
    <3>2. b.size \in Nat
      BY PlacedFields
    <3> QED
      BY <2>1, <3>1, <3>2, ApartFromSlot
  <2>4. CASE InSlot(a)
    <3>1. PICK d \in Lists, j \in Indices : a.addr = Slot(d, j) /\ a.size =< SlotSize[d]
      BY <2>4 DEF InSlot
    <3>2. a.size \in Nat
      BY PlacedFields
    <3> QED
      BY <2>1, <3>1, <3>2, ApartFromSlot
  <2> QED
    BY <2>2, <2>3, <2>4 DEF HugeInv, BuffersPlaced
<1>3. ASSUME NEW b \in buffers, NEW c \in Lists, NEW k \in DOMAIN slots[c]
      PROVE  ~Overlap(b.addr, b.size, Slot(c, slots[c][k]), SlotSize[c])
  <2> DEFINE i == slots[c][k]
  <2>1. i \in Indices /\ Free(c, i)
    BY DEF HugeInv, SlotsKept, Free
  <2>2. b.addr # Slot(c, i)
    BY <2>1 DEF HugeInv, SlotsKept, Lent
  <2>3. SlotSize[c] \in Nat
    BY WidthIs
  <2> HIDE DEF i
  <2>4. ~Overlap(b.addr, b.size, Slot(c, i), SlotSize[c])
    BY <2>1, <2>2, <2>3, ApartFromSlot
  <2> QED
    BY <2>4 DEF i
<1>4. ASSUME NEW b \in buffers, NEW k \in DOMAIN o5fl
      PROVE  ~Overlap(b.addr, b.size, o5fl[k].start, o5fl[k].length)
  <2>1. /\ o5fl[k].start \in Int /\ o5fl[k].length \in Nat /\ LargeStart =< o5fl[k].start
    BY NodeFields DEF HugeInv, LargeKept, Nodes
  <2>2. b.addr \in Int /\ b.size \in Nat
    BY PlacedFields
  <2>3. CASE InGrant(b)
    <3>1. /\ o5flu[b.addr] \in Nat /\ b.addr \in DOMAIN o5flu /\ b.size =< o5flu[b.addr]
      BY <2>3, PlacedFields
    <3>2. ~Overlap(o5fl[k].start, o5fl[k].length, b.addr, o5flu[b.addr])
      BY <3>1, <1>1 DEF NoOverlap
    <3> QED
      BY <2>1, <2>2, <3>1, <3>2 DEF Overlap
  <2>4. CASE InSlot(b)
    <3>1. PICK d \in Lists, j \in Indices : b.addr = Slot(d, j) /\ b.size =< SlotSize[d]
      BY <2>4 DEF InSlot
    <3>2. /\ Slot(d, j) \in Nat /\ SlotSize[d] \in Nat \ {0}
          /\ Slot(d, j) + SlotSize[d] =< LargeStart
      BY SlotBelow
    <3> QED
      BY <2>1, <2>2, <3>1, <3>2, <1>1 DEF Overlap
  <2> QED
    BY <2>3, <2>4 DEF HugeInv, BuffersPlaced
<1> QED
  BY <1>2, <1>3, <1>4 DEF BuffersApart

(* A set with exactly one of its elements, or none. *)
LEMMA CountOne ==
  ASSUME NEW T, \A x, y \in T : x = y
  PROVE  Cardinality(T) = IF T = {} THEN 0 ELSE 1
<1>1. CASE T = {}
  BY <1>1, FS_EmptySet
<1>2. CASE T # {}
  <2>1. PICK x : x \in T
    BY <1>2
  <2>2. T = {x}
    BY <2>1
  <2> QED
    BY <1>2, <2>2, FS_Singleton
<1> QED
  BY <1>1, <1>2

LEMMA HugeInvBack == HugeInv => BackWhereItCameFrom
<1> SUFFICES ASSUME HugeInv PROVE BackWhereItCameFrom
  OBVIOUS
<1>1. ASSUME NEW c \in Lists, NEW i \in 0 .. Slots - 1
      PROVE  Cardinality({k \in DOMAIN slots[c] : slots[c][k] = i})
               + Cardinality({b \in buffers : b.addr = Slot(c, i)}) = 1
  <2> DEFINE K == {k \in DOMAIN slots[c] : slots[c][k] = i}
             B == {b \in buffers : b.addr = Slot(c, i)}
  <2>1. \A j, k \in K : j = k
    BY DEF HugeInv, SlotsKept
  <2>2. \A a, b \in B : a = b
    BY DEF HugeInv, BuffersPlaced
  <2>3. Free(c, i) <=> ~Lent(c, i)
    BY DEF HugeInv, SlotsKept, Indices
  <2>4. (K # {}) <=> Free(c, i)
    BY DEF Free
  <2>5. (B # {}) <=> Lent(c, i)
    BY DEF Lent
  <2> HIDE DEF K, B
  <2>6. /\ Cardinality(K) = IF K = {} THEN 0 ELSE 1
        /\ Cardinality(B) = IF B = {} THEN 0 ELSE 1
    BY <2>1, <2>2, CountOne
  <2>7. Cardinality(K) + Cardinality(B) = 1
    BY <2>3, <2>4, <2>5, <2>6
  <2> QED
    BY <2>7 DEF K, B
<1>2. ~o5crashed => Covered(o5fl, o5flu, LargeStart, hpend)
  BY DEF HugeInv, LargeKept
<1>3. Consistent(o5fl)
  BY NodeFields DEF HugeInv, LargeKept, Nodes, Consistent
<1> QED
  BY <1>1, <1>2, <1>3 DEF BackWhereItCameFrom

(* Whatever callers ask for and return, in any order and through the         *)
(* fallback of small sizes to o5fl: no two buffers share an address, none    *)
(* overlaps what is free, and each slot is in its own list once or with one  *)
(* caller (hpalloc, hpfree).                                                 *)
THEOREM BuffersCorrect == HugeSpec => []BuffersKept
<1>1. HugeInv => BuffersKept
  BY HugeInvTyped, HugeInvApart, HugeInvBack DEF BuffersKept
<1> QED
  BY HugeInvInit, HugeInvNext, <1>1, PTL DEF HugeSpec

-----------------------------------------------------------------------------
(* The registers that h2d and d2h write a command into. *)

DmaSpec == DmaInit /\ [][DmaNext]_dmaVars

Calls == [thread : Threads \union {"none"}, n : Nat]

Commands == [1 .. Fields -> Calls]

(* What a call puts into all the registers of its function. *)
WholeCommand(t) == [f \in 1 .. Fields |-> ThisCall(t)]

DmaTypeOK ==
  /\ bar \in [Dirs -> [fields : Commands, start : {0, 1}]]
  /\ thread \in [Threads -> [dir : Dirs, pc : 0 .. Fields + 2, n : Nat]]
  /\ board \in [Dirs -> Seq(Commands)]
  /\ alone \in [Threads -> BOOLEAN]

(* Two threads in one function: neither is alone. *)
AloneInside ==
  \A t, u \in Threads :
    thread[t].pc > 0 /\ thread[u].pc > 0 /\ thread[t].dir = thread[u].dir /\ alone[t] => u = t

(* A start register is set only between the two writes of its pulse. *)
PulseOpen ==
  \A d \in Dirs : bar[d].start = 1 =>
    \E t \in Threads : thread[t].pc = Fields + 2 /\ thread[t].dir = d

(* The registers written so far hold the call of a thread that is alone. *)
Written ==
  \A t \in Threads : alone[t] =>
    \A f \in 1 .. Fields : f < thread[t].pc => bar[thread[t].dir].fields[f] = ThisCall(t)

(* No register and no command of the board comes from a later call. *)
NotLater(c) == \A t \in Threads : c.thread = t => c.n =< thread[t].n

Past ==
  /\ \A d \in Dirs : \A f \in 1 .. Fields : NotLater(bar[d].fields[f])
  /\ \A d \in Dirs : \A k \in DOMAIN board[d] : \A f \in 1 .. Fields : NotLater(board[d][k][f])

(* The board has the command of a thread that is alone only after its start. *)
Absent(s, c) == \A k \in DOMAIN s : s[k] # c

Once(s, c) == \E k \in DOMAIN s : \A j \in DOMAIN s : s[j] = c <=> j = k

Unposted ==
  \A t \in Threads : alone[t] /\ thread[t].pc \in 1 .. Fields + 1 =>
    Absent(board[thread[t].dir], WholeCommand(t))

Posted ==
  \A t \in Threads : alone[t] /\ thread[t].pc = Fields + 2 =>
    Once(board[thread[t].dir], WholeCommand(t))

DmaInv ==
  DmaTypeOK /\ AloneInside /\ PulseOpen /\ Written /\ Past /\ Unposted /\ Posted

-----------------------------------------------------------------------------
LEMMA DmaInitInv == DmaInit => DmaInv
<1> SUFFICES ASSUME DmaInit PROVE DmaInv
    OBVIOUS
<1> USE DmaAssumption DEF DmaInit
<1>1. DmaTypeOK
  BY DEF DmaTypeOK, Calls, Commands, NoCall, Dirs
<1>2. AloneInside
  BY DEF AloneInside
<1>3. PulseOpen
  BY DEF PulseOpen
<1>4. Written
  BY DEF Written
<1>5. Past
  BY DEF Past, NotLater, NoCall
<1>6. Unposted /\ Posted
  BY DEF Unposted, Posted, Absent
<1> QED
  BY <1>1, <1>2, <1>3, <1>4, <1>5, <1>6 DEF DmaInv

(* A thread moves on to its next write; nothing else of it changes. *)
LEMMA Steps ==
  ASSUME DmaTypeOK, NEW t \in Threads, thread[t].pc > 0, Step(t)
  PROVE  /\ thread' \in [Threads -> [dir : Dirs, pc : 0 .. Fields + 2, n : Nat]]
         /\ \A u \in Threads : /\ thread'[u].dir = thread[u].dir
                               /\ thread'[u].n = thread[u].n
                               /\ u # t => thread'[u].pc = thread[u].pc
         /\ thread'[t].pc = IF thread[t].pc = Fields + 2 THEN 0 ELSE thread[t].pc + 1
<1> DEFINE pc == IF thread[t].pc = Fields + 2 THEN 0 ELSE thread[t].pc + 1
<1>1. pc \in 0 .. Fields + 2
  BY DmaAssumption DEF DmaTypeOK
<1>2. thread' = [thread EXCEPT ![t].pc = pc]
  BY DEF Step
<1> HIDE DEF pc
<1>3. thread' \in [Threads -> [dir : Dirs, pc : 0 .. Fields + 2, n : Nat]]
  BY <1>1, <1>2 DEF DmaTypeOK
<1>4. \A u \in Threads : /\ thread'[u].dir = thread[u].dir
                         /\ thread'[u].n = thread[u].n
                         /\ u # t => thread'[u].pc = thread[u].pc
  BY <1>2 DEF DmaTypeOK
<1>5. thread'[t].pc = pc
  BY <1>2 DEF DmaTypeOK
<1> QED
  BY <1>3, <1>4, <1>5 DEF pc

LEMMA CallKeeps ==
  ASSUME DmaInv, NEW t \in Threads, NEW d \in Dirs, Call(t, d)
  PROVE  DmaInv'
<1> USE DmaAssumption
<1>1. DmaTypeOK /\ AloneInside /\ PulseOpen /\ Written /\ Past /\ Unposted /\ Posted
  BY DEF DmaInv
<1>2. /\ thread[t].pc = 0
      /\ thread' = [thread EXCEPT ![t] = [dir |-> d, pc |-> 1, n |-> thread[t].n + 1]]
      /\ alone' = [u \in Threads |-> IF u = t THEN Inside(d) = {} ELSE alone[u] /\ u \notin Inside(d)]
      /\ bar' = bar /\ board' = board
  BY DEF Call
<1> DEFINE m == thread[t].n + 1
<1>3. m \in Nat /\ m > thread[t].n
  BY <1>1 DEF DmaTypeOK
<1>4. thread' = [thread EXCEPT ![t] = [dir |-> d, pc |-> 1, n |-> m]]
  BY <1>2
<1> HIDE DEF m
<1>5. thread' \in [Threads -> [dir : Dirs, pc : 0 .. Fields + 2, n : Nat]]
  BY <1>1, <1>3, <1>4 DEF DmaTypeOK
<1>6. \A u \in Threads \ {t} : thread'[u] = thread[u]
  BY <1>1, <1>4 DEF DmaTypeOK
<1>7. thread'[t].dir = d /\ thread'[t].pc = 1 /\ thread'[t].n = m
  BY <1>1, <1>4 DEF DmaTypeOK
<1>8. alone' \in [Threads -> BOOLEAN]
  BY <1>1, <1>2, Zenon DEF DmaTypeOK
<1>9. \A u \in Threads \ {t} : alone'[u] => alone[u] /\ ~(thread[u].pc > 0 /\ thread[u].dir = d)
  BY <1>2 DEF Inside
<1>10. alone'[t] => \A u \in Threads : ~(thread[u].pc > 0 /\ thread[u].dir = d)
  BY <1>2 DEF Inside
<1>11. DmaTypeOK'
  BY <1>1, <1>2, <1>5, <1>8 DEF DmaTypeOK
<1>12. AloneInside'
  BY <1>1, <1>6, <1>7, <1>9, <1>10 DEF AloneInside
<1>13. PulseOpen'
  BY <1>1, <1>2, <1>6, <1>7 DEF PulseOpen
<1>14. Written'
  <2> SUFFICES ASSUME NEW u \in Threads, alone'[u], NEW f \in 1 .. Fields, f < thread'[u].pc
               PROVE  bar'[thread'[u].dir].fields[f] = ThisCall(u)'
      BY DEF Written
  <2>1. u # t
    BY <1>7
  <2> QED
    BY <2>1, <1>1, <1>2, <1>6, <1>9 DEF Written, ThisCall
<1>15. \A c : NotLater(c) /\ c \in Calls => NotLater(c)'
  <2> SUFFICES ASSUME NEW c \in Calls, NotLater(c), NEW u \in Threads, c.thread = u
               PROVE  c.n =< thread'[u].n
      BY DEF NotLater
  <2>1. c.n \in Nat /\ c.n =< thread[u].n /\ thread[u].n \in Nat
    BY <1>1 DEF Calls, NotLater, DmaTypeOK
  <2> QED
    BY <2>1, <1>3, <1>6, <1>7
<1>16. /\ \A e \in Dirs : \A f \in 1 .. Fields : bar[e].fields[f] \in Calls
       /\ \A e \in Dirs : \A k \in DOMAIN board[e] : \A f \in 1 .. Fields : board[e][k][f] \in Calls
  <2>1. bar \in [Dirs -> [fields : Commands, start : {0, 1}]] /\ board \in [Dirs -> Seq(Commands)]
    BY <1>1, Zenon DEF DmaTypeOK
  <2>2. \A c \in Commands : \A f \in 1 .. Fields : c[f] \in Calls
    BY Zenon DEF Commands
  <2>3. ASSUME NEW e \in Dirs PROVE bar[e].fields \in Commands
    BY <2>1
  <2>4. ASSUME NEW e \in Dirs, NEW k \in DOMAIN board[e] PROVE board[e][k] \in Commands
    BY <2>1
  <2> QED
    BY <2>2, <2>3, <2>4, Zenon
<1>17. Past'
  BY <1>1, <1>2, <1>15, <1>16 DEF Past
<1>18. \A u \in Threads \ {t} : WholeCommand(u)' = WholeCommand(u)
  BY <1>6 DEF WholeCommand, ThisCall
<1>19. Unposted'
  <2> SUFFICES ASSUME NEW u \in Threads, alone'[u], thread'[u].pc \in 1 .. Fields + 1
               PROVE  Absent(board[thread'[u].dir], WholeCommand(u)')
      BY <1>2 DEF Unposted, Absent
  <2>1. CASE u # t
    BY <2>1, <1>1, <1>6, <1>9, <1>18 DEF Unposted
  <2>2. CASE u = t
    <3> SUFFICES ASSUME NEW k \in DOMAIN board[d]
                 PROVE  board[d][k] # WholeCommand(t)'
        BY <2>2, <1>7 DEF Absent
    <3>1. WholeCommand(t)'[1].thread = t /\ WholeCommand(t)'[1].n = m
      BY <1>7 DEF WholeCommand, ThisCall
    <3>2. board[d][k][1] \in Calls /\ NotLater(board[d][k][1])
      BY <1>1, <1>16 DEF Past
    <3>3. board[d][k][1].thread = t => board[d][k][1].n \in Nat /\ board[d][k][1].n =< thread[t].n
      BY <3>2, <1>1 DEF NotLater, Calls
    <3>4. thread[t].n \in Nat
      BY <1>1 DEF DmaTypeOK
    <3>5. board[d][k][1].thread = t => board[d][k][1].n # m
      BY <3>3, <3>4, <1>3
    <3> QED
      BY <3>1, <3>5
  <2> QED
    BY <2>1, <2>2
<1>20. Posted'
  <2> SUFFICES ASSUME NEW u \in Threads, alone'[u], thread'[u].pc = Fields + 2
               PROVE  Once(board[thread'[u].dir], WholeCommand(u)')
      BY <1>2, SMTT(60) DEF Posted, Once
  <2>1. u # t
    BY <1>7
  <2> QED
    BY <2>1, <1>1, <1>6, <1>9, <1>18 DEF Posted
<1> QED
  BY <1>11, <1>12, <1>13, <1>14, <1>17, <1>19, <1>20 DEF DmaInv

(* The calls of all threads are as they were: so is what depends on them. *)
LEMMA SameCalls ==
  ASSUME \A u \in Threads : thread'[u].n = thread[u].n
  PROVE  /\ \A c : NotLater(c) => NotLater(c)'
         /\ \A u \in Threads : ThisCall(u)' = ThisCall(u) /\ WholeCommand(u)' = WholeCommand(u)
BY DEF NotLater, ThisCall, WholeCommand

LEMMA WriteFieldKeeps ==
  ASSUME DmaInv, NEW t \in Threads, WriteField(t)
  PROVE  DmaInv'
<1> USE DmaAssumption
<1>1. DmaTypeOK /\ AloneInside /\ PulseOpen /\ Written /\ Past /\ Unposted /\ Posted
  BY DEF DmaInv
<1> DEFINE d == thread[t].dir
           p == thread[t].pc
<1>2. /\ p \in 1 .. Fields /\ d \in Dirs
      /\ bar' = [bar EXCEPT ![d].fields[p] = ThisCall(t)]
      /\ Step(t) /\ board' = board /\ alone' = alone
  BY <1>1 DEF WriteField, Bank, DmaTypeOK
<1>3. ThisCall(t) \in Calls /\ NotLater(ThisCall(t))
  BY <1>1 DEF ThisCall, Calls, DmaTypeOK, NotLater
<1>4. /\ thread' \in [Threads -> [dir : Dirs, pc : 0 .. Fields + 2, n : Nat]]
      /\ \A u \in Threads : /\ thread'[u].dir = thread[u].dir
                            /\ thread'[u].n = thread[u].n
                            /\ u # t => thread'[u].pc = thread[u].pc
      /\ thread'[t].pc = p + 1
  BY <1>1, <1>2, Steps
<1>5. /\ \A c : NotLater(c) => NotLater(c)'
      /\ \A u \in Threads : ThisCall(u)' = ThisCall(u) /\ WholeCommand(u)' = WholeCommand(u)
  BY <1>4, SameCalls
<1> DEFINE call == ThisCall(t)
<1> HIDE DEF call
<1>6. bar' \in [Dirs -> [fields : Commands, start : {0, 1}]]
  BY <1>1, <1>2, <1>3 DEF DmaTypeOK, Commands, call
<1>7. \A e \in Dirs : bar'[e].start = bar[e].start /\ (e # d => bar'[e] = bar[e])
  BY <1>1, <1>2 DEF DmaTypeOK
<1>8. \A f \in 1 .. Fields : bar'[d].fields[f] = IF f = p THEN ThisCall(t) ELSE bar[d].fields[f]
  BY <1>1, <1>2 DEF DmaTypeOK, Commands
<1>9. DmaTypeOK'
  BY <1>1, <1>2, <1>4, <1>6 DEF DmaTypeOK
<1>10. p > 0 /\ p \in Nat
  BY <1>2
<1> HIDE DEF d, p
<1>11. AloneInside'
  BY <1>1, <1>2, <1>4, <1>10 DEF AloneInside, p, DmaTypeOK
<1>12. PulseOpen'
  BY <1>1, <1>2, <1>4, <1>7 DEF PulseOpen, p, DmaTypeOK
<1>13. Written'
  <2> SUFFICES ASSUME NEW u \in Threads, alone[u], NEW f \in 1 .. Fields, f < thread'[u].pc
               PROVE  bar'[thread[u].dir].fields[f] = ThisCall(u)
      BY <1>2, <1>4, <1>5 DEF Written
  <2>1. thread[u].dir \in Dirs /\ thread[u].pc \in 0 .. Fields + 2
    BY <1>1 DEF DmaTypeOK
  <2>2. CASE u = t
    <3>1. f \in 1 .. p
      BY <2>2, <1>4, <1>10
    <3>2. f < p => bar[d].fields[f] = ThisCall(t)
      BY <2>2, <1>1 DEF Written, d, p
    <3>3. bar'[d].fields[f] = ThisCall(t)
      BY <3>1, <3>2, <1>8, <1>10
    <3> QED
      BY <2>2, <3>3 DEF d
  <2>3. CASE u # t
    <3>1. thread'[u].pc = thread[u].pc /\ thread[u].pc > 0
      BY <2>1, <2>3, <1>4
    <3>2. thread[u].dir # d
      BY <3>1, <2>3, <1>1, <1>10 DEF AloneInside, d, p
    <3> QED
      BY <3>1, <3>2, <2>1, <1>1, <1>7 DEF Written
  <2> QED
    BY <2>2, <2>3
<1>14. Past'
  BY <1>1, <1>2, <1>3, <1>5, <1>7, <1>8 DEF Past
<1>15. Unposted'
  <2> SUFFICES ASSUME NEW u \in Threads, alone[u], thread'[u].pc \in 1 .. Fields + 1
               PROVE  Absent(board[thread[u].dir], WholeCommand(u))
      BY <1>2, <1>4, <1>5 DEF Unposted, Absent
  <2>1. thread[u].pc \in 1 .. Fields + 1
    BY <1>2, <1>4 DEF p
  <2> QED
    BY <2>1, <1>1 DEF Unposted
<1>16. Posted'
  <2> SUFFICES ASSUME NEW u \in Threads, alone[u], thread'[u].pc = Fields + 2
               PROVE  Once(board[thread[u].dir], WholeCommand(u))
      BY <1>2, <1>4, <1>5 DEF Posted
  <2>1. u # t
    BY <1>2, <1>4
  <2> QED
    BY <2>1, <1>1, <1>4 DEF Posted
<1> QED
  BY <1>9, <1>11, <1>12, <1>13, <1>14, <1>15, <1>16 DEF DmaInv

LEMMA OnceAppended ==
  ASSUME NEW S, NEW s \in Seq(S), NEW c \in S, Absent(s, c)
  PROVE  Once(Append(s, c), c)
<1>1. /\ DOMAIN Append(s, c) = 1 .. Len(s) + 1 /\ Len(s) \in Nat
      /\ Append(s, c)[Len(s) + 1] = c
      /\ \A j \in 1 .. Len(s) : Append(s, c)[j] # c
  BY DEF Absent
<1>2. Len(s) + 1 \in DOMAIN Append(s, c)
  BY <1>1
<1>3. \A j \in DOMAIN Append(s, c) : Append(s, c)[j] = c <=> j = Len(s) + 1
  BY <1>1
<1> QED
  BY <1>2, <1>3 DEF Once

LEMMA StartKeeps ==
  ASSUME DmaInv, NEW t \in Threads, Start(t)
  PROVE  DmaInv'
<1> USE DmaAssumption
<1>1. DmaTypeOK /\ AloneInside /\ PulseOpen /\ Written /\ Past /\ Unposted /\ Posted
  BY DEF DmaInv
<1> DEFINE d == thread[t].dir
           s == IF bar[d].start = 0 THEN Append(board[d], bar[d].fields) ELSE board[d]
<1>2. /\ thread[t].pc = Fields + 1 /\ d \in Dirs
      /\ bar' = [bar EXCEPT ![d].start = 1]
      /\ board' = [board EXCEPT ![d] = s]
      /\ Step(t) /\ alone' = alone
  BY <1>1 DEF Start, Bank, DmaTypeOK
<1>3. /\ bar[d].fields \in Commands /\ board[d] \in Seq(Commands)
      /\ s \in Seq(Commands)
      /\ \A k \in DOMAIN s : (k \in DOMAIN board[d] /\ s[k] = board[d][k])
                             \/ (s[k] = bar[d].fields)
  BY <1>1, <1>2 DEF DmaTypeOK
<1>4. /\ thread' \in [Threads -> [dir : Dirs, pc : 0 .. Fields + 2, n : Nat]]
      /\ \A u \in Threads : /\ thread'[u].dir = thread[u].dir
                            /\ thread'[u].n = thread[u].n
                            /\ u # t => thread'[u].pc = thread[u].pc
      /\ thread'[t].pc = Fields + 2
  <2>1. thread[t].pc > 0
    BY <1>2
  <2>2. thread'[t].pc = IF thread[t].pc = Fields + 2 THEN 0 ELSE thread[t].pc + 1
    BY <1>1, <1>2, <2>1, Steps
  <2> QED
    BY <1>1, <1>2, <2>1, <2>2, Steps
<1>5. /\ \A c : NotLater(c) => NotLater(c)'
      /\ \A u \in Threads : ThisCall(u)' = ThisCall(u) /\ WholeCommand(u)' = WholeCommand(u)
  BY <1>4, SameCalls
<1>6. /\ bar' \in [Dirs -> [fields : Commands, start : {0, 1}]]
      /\ \A e \in Dirs : bar'[e].fields = bar[e].fields /\ (e # d => bar'[e].start = bar[e].start)
  BY <1>1, <1>2 DEF DmaTypeOK
<1>7. alone[t] => \A u \in Threads : thread[u].pc > 0 /\ thread[u].dir = d => u = t
  BY <1>1, <1>2 DEF AloneInside
<1>8. alone[t] => bar[d].start = 0
  <2>1. bar[d].start \in {0, 1}
    BY <1>1, <1>2 DEF DmaTypeOK
  <2> QED
    BY <2>1, <1>1, <1>2, <1>7 DEF PulseOpen
<1>9. alone[t] => bar[d].fields = WholeCommand(t)
  <2>1. SUFFICES ASSUME alone[t], NEW f \in 1 .. Fields PROVE bar[d].fields[f] = ThisCall(t)
    BY <1>3 DEF Commands, WholeCommand
  <2> QED
    BY <2>1, <1>1, <1>2 DEF Written
<1>10. /\ board' \in [Dirs -> Seq(Commands)] /\ board'[d] = s
       /\ \A e \in Dirs : e # d => board'[e] = board[e]
  BY <1>1, <1>2, <1>3 DEF DmaTypeOK
<1>11. alone[t] => s = Append(board[d], WholeCommand(t))
  BY <1>8, <1>9
<1> HIDE DEF s, d
<1>12. DmaTypeOK'
  BY <1>1, <1>2, <1>4, <1>6, <1>10 DEF DmaTypeOK
<1>13. AloneInside'
  <2>1. \A u \in Threads : thread'[u].pc > 0 => thread[u].pc > 0
    BY <1>2, <1>4
  <2> QED
    BY <2>1, <1>1, <1>2, <1>4 DEF AloneInside
<1>14. PulseOpen'
  BY <1>1, <1>2, <1>4, <1>6 DEF PulseOpen, DmaTypeOK, d
<1>15. Written'
  <2> SUFFICES ASSUME NEW u \in Threads, alone[u], NEW f \in 1 .. Fields, f < thread'[u].pc
               PROVE  bar[thread[u].dir].fields[f] = ThisCall(u)
      BY <1>1, <1>2, <1>4, <1>5, <1>6 DEF Written, DmaTypeOK
  <2>1. f < thread[u].pc
    BY <1>2, <1>4
  <2> QED
    BY <2>1, <1>1 DEF Written
<1>16. Past'
  <2>1. \A e \in Dirs : \A f \in 1 .. Fields : NotLater(bar'[e].fields[f])
    BY <1>1, <1>6 DEF Past
  <2>2. ASSUME NEW e \in Dirs, NEW k \in DOMAIN board'[e], NEW f \in 1 .. Fields
        PROVE  NotLater(board'[e][k][f])
    BY <1>1, <1>2, <1>3, <1>10 DEF Past
  <2> QED
    BY <2>1, <2>2, <1>5 DEF Past
<1>17. Unposted'
  <2> SUFFICES ASSUME NEW u \in Threads, alone[u], thread'[u].pc \in 1 .. Fields + 1
               PROVE  Absent(board'[thread[u].dir], WholeCommand(u))
      BY <1>2, <1>4, <1>5 DEF Unposted, Absent
  <2>1. u # t /\ thread[u].pc \in 1 .. Fields + 1 /\ thread[u].dir \in Dirs
    BY <1>1, <1>4 DEF DmaTypeOK
  <2>2. thread[u].dir # d
    BY <2>1, <1>1, <1>2 DEF AloneInside, d
  <2> QED
    BY <2>1, <2>2, <1>1, <1>10 DEF Unposted
<1>18. Posted'
  <2> SUFFICES ASSUME NEW u \in Threads, alone[u], thread'[u].pc = Fields + 2
               PROVE  Once(board'[thread[u].dir], WholeCommand(u))
      BY <1>2, <1>4, <1>5 DEF Posted
  <2>1. CASE u = t
    <3>1. thread[u].dir = d /\ board'[d] = Append(board[d], WholeCommand(t))
      BY <2>1, <1>10, <1>11 DEF d
    <3>2. Absent(board[d], WholeCommand(t))
      BY <2>1, <1>1, <1>2 DEF Unposted, d
    <3>3. board[d] \in Seq(Commands) /\ WholeCommand(t) \in Commands
      BY <1>3, <1>9, <2>1
    <3> QED
      BY <2>1, <3>1, <3>2, <3>3, OnceAppended
  <2>2. CASE u # t
    <3>1. thread[u].pc = Fields + 2 /\ thread[u].dir \in Dirs
      BY <2>2, <1>1, <1>4 DEF DmaTypeOK
    <3>2. thread[u].dir # d
      BY <2>2, <3>1, <1>1, <1>2 DEF AloneInside, d
    <3> QED
      BY <3>1, <3>2, <1>1, <1>10 DEF Posted
  <2> QED
    BY <2>1, <2>2
<1> QED
  BY <1>12, <1>13, <1>14, <1>15, <1>16, <1>17, <1>18 DEF DmaInv

LEMMA ClearKeeps ==
  ASSUME DmaInv, NEW t \in Threads, Clear(t)
  PROVE  DmaInv'
<1> USE DmaAssumption
<1>1. DmaTypeOK /\ AloneInside /\ PulseOpen /\ Written /\ Past /\ Unposted /\ Posted
  BY DEF DmaInv
<1> DEFINE d == thread[t].dir
<1>2. /\ thread[t].pc = Fields + 2 /\ d \in Dirs
      /\ bar' = [bar EXCEPT ![d].start = 0]
      /\ Step(t) /\ alone' = alone /\ board' = board
  BY <1>1 DEF Clear, Bank, DmaTypeOK
<1>3. /\ thread' \in [Threads -> [dir : Dirs, pc : 0 .. Fields + 2, n : Nat]]
      /\ \A u \in Threads : /\ thread'[u].dir = thread[u].dir
                            /\ thread'[u].n = thread[u].n
                            /\ u # t => thread'[u].pc = thread[u].pc
      /\ thread'[t].pc = 0
  <2>1. thread[t].pc > 0
    BY <1>2
  <2>2. thread'[t].pc = IF thread[t].pc = Fields + 2 THEN 0 ELSE thread[t].pc + 1
    BY <1>1, <1>2, <2>1, Steps
  <2> QED
    BY <1>1, <1>2, <2>1, <2>2, Steps
<1>4. /\ \A c : NotLater(c) => NotLater(c)'
      /\ \A u \in Threads : ThisCall(u)' = ThisCall(u) /\ WholeCommand(u)' = WholeCommand(u)
  BY <1>3, SameCalls
<1>5. /\ bar' \in [Dirs -> [fields : Commands, start : {0, 1}]]
      /\ bar'[d].start = 0
      /\ \A e \in Dirs : bar'[e].fields = bar[e].fields /\ (e # d => bar'[e].start = bar[e].start)
  BY <1>1, <1>2 DEF DmaTypeOK
<1> HIDE DEF d
<1>6. DmaTypeOK'
  BY <1>1, <1>2, <1>3, <1>5 DEF DmaTypeOK
<1>7. AloneInside'
  <2>1. \A u \in Threads : thread'[u].pc > 0 => thread[u].pc > 0
    BY <1>2, <1>3
  <2> QED
    BY <2>1, <1>1, <1>2, <1>3 DEF AloneInside
<1>8. PulseOpen'
  BY <1>1, <1>2, <1>3, <1>5 DEF PulseOpen, DmaTypeOK, d
<1>9. Written'
  <2> SUFFICES ASSUME NEW u \in Threads, alone[u], NEW f \in 1 .. Fields, f < thread'[u].pc
               PROVE  bar[thread[u].dir].fields[f] = ThisCall(u)
      BY <1>1, <1>2, <1>3, <1>4, <1>5 DEF Written, DmaTypeOK
  <2>1. u # t
    BY <1>3
  <2> QED
    BY <2>1, <1>1, <1>3 DEF Written
<1>10. Past'
  BY <1>1, <1>2, <1>4, <1>5 DEF Past
<1>11. Unposted'
  <2> SUFFICES ASSUME NEW u \in Threads, alone[u], thread'[u].pc \in 1 .. Fields + 1
               PROVE  Absent(board[thread[u].dir], WholeCommand(u))
      BY <1>2, <1>3, <1>4 DEF Unposted, Absent
  <2>1. u # t
    BY <1>3
  <2> QED
    BY <2>1, <1>1, <1>3 DEF Unposted
<1>12. Posted'
  <2> SUFFICES ASSUME NEW u \in Threads, alone[u], thread'[u].pc = Fields + 2
               PROVE  Once(board[thread[u].dir], WholeCommand(u))
      BY <1>2, <1>3, <1>4 DEF Posted
  <2>1. u # t
    BY <1>3
  <2> QED
    BY <2>1, <1>1, <1>3 DEF Posted
<1> QED
  BY <1>6, <1>7, <1>8, <1>9, <1>10, <1>11, <1>12 DEF DmaInv

LEMMA OnceCounted ==
  ASSUME NEW s, NEW c, Once(s, c)
  PROVE  Cardinality({ k \in DOMAIN s : s[k] = c }) = 1
<1>1. PICK k \in DOMAIN s : \A j \in DOMAIN s : s[j] = c <=> j = k
  BY DEF Once
<1>2. { j \in DOMAIN s : s[j] = c } = {k}
  BY <1>1
<1> QED
  BY <1>2, FS_Singleton

(* Threads may call h2d and d2h at the same time: a call that shares its     *)
(* function with no other gives the board exactly one command, whole.        *)
THEOREM CallsCorrect == DmaSpec => []CallPosts
<1>1. ASSUME DmaInv, [DmaNext]_dmaVars PROVE DmaInv'
  <2>1. CASE DmaNext
    BY <1>1, <2>1, CallKeeps, WriteFieldKeeps, StartKeeps, ClearKeeps DEF DmaNext
  <2>2. CASE UNCHANGED dmaVars
    <3>1. UNCHANGED <<bar, thread, board, alone>>
      BY <2>2 DEF dmaVars
    <3>2. \A u \in Threads : WholeCommand(u)' = WholeCommand(u)
      BY <3>1 DEF WholeCommand, ThisCall
    <3>3. DmaTypeOK' /\ AloneInside' /\ PulseOpen' /\ Written' /\ Past'
      BY <1>1, <3>1
         DEF DmaInv, DmaTypeOK, AloneInside, PulseOpen, Written, Past, NotLater, ThisCall
    <3>4. Unposted' /\ Posted'
      BY <1>1, <3>1, <3>2 DEF DmaInv, Unposted, Posted
    <3> QED
      BY <3>3, <3>4 DEF DmaInv
  <2> QED
    BY <1>1, <2>1, <2>2
<1>2. DmaInv => CallPosts
  <2> SUFFICES ASSUME DmaInv, NEW t \in Threads, thread[t].pc = Fields + 2, alone[t]
               PROVE  Cardinality({ k \in DOMAIN board[thread[t].dir] :
                        board[thread[t].dir][k] = [f \in 1 .. Fields |-> ThisCall(t)] }) = 1
      BY DEF CallPosts
  <2>1. Once(board[thread[t].dir], WholeCommand(t))
    BY DEF DmaInv, Posted
  <2> QED
    BY <2>1, OnceCounted DEF WholeCommand
<1> QED
  BY <1>1, <1>2, DmaInitInv, PTL DEF DmaSpec
=============================================================================
