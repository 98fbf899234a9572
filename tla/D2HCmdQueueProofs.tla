------------------------- MODULE D2HCmdQueueProofs -------------------------
(* Theorems about D2HCmdQueue, for every value of its constants: the data of *)
(* every command are in its buffer when its completion is told, and          *)
(* completions mix with neither the data nor each other.  Queue 0 is left    *)
(* out: the multiplexers give it to the window.                              *)
EXTENDS D2HCmdQueue, SequenceTheorems, TLAPS

-----------------------------------------------------------------------------
(* The invariant.  What the packets of a command are: *)

(* Beats in the first k packets when all of them are whole. *)
Given(c, k) == k * c.pkt

(* Size of the packet that starts o beats into c. *)
Size(c, o) == IF c.len - o > c.pkt THEN c.pkt ELSE c.len - o

(* next_addr + length is computed modulo AddrSpace and then compared with    *)
(* end_addr: it must not wrap.  A command of one packet never computes it; a  *)
(* command of two that ends with the address space compares with 0; any other *)
(* has to leave room for its packets as if the last were whole.              *)
Fits(c) ==
  \/ c.len =< c.pkt
  \/ c.m2h + c.len = AddrSpace /\ c.len =< 2 * c.pkt
  \/ /\ c.m2h + c.len < AddrSpace
     /\ \A k \in 0 .. c.len :
          Given(c, k) < c.len => c.m2h + Given(c, k) + c.pkt < AddrSpace

(* What the host may post. *)
Sound(c) == /\ c \in Job /\ c.len >= 1 /\ c.pkt >= 1 /\ c.m2h + c.len =< AddrSpace
            /\ Fits(c)

(* The registers of h hold the packet of c at o. *)
Carries(h, c, o) ==
  /\ o \in Nat /\ o < c.len
  /\ h.pkt_size = c.pkt /\ h.end_addr = Plus(c.m2h, c.len)
  /\ h.m2h_addr = c.m2h + o /\ h.c2h_addr = o
  /\ h.length = Size(c, o) /\ h.next_addr = Plus(c.m2h + o, Size(c, o))

-----------------------------------------------------------------------------
(* Arithmetic of the heads. *)

LEMMA PlusType ==
  ASSUME NEW a \in 0 .. AddrSpace - 1, NEW b \in 0 .. AddrSpace
  PROVE  Plus(a, b) \in 0 .. AddrSpace - 1
BY ConstantsAssumption DEF Plus

LEMMA MinusType ==
  ASSUME NEW a \in 0 .. AddrSpace - 1, NEW b \in 0 .. AddrSpace - 1
  PROVE  Minus(a, b) \in 0 .. AddrSpace - 1
BY ConstantsAssumption DEF Minus

LEMMA LoadedType ==
  ASSUME NEW h \in HeadType, NEW c \in Job
  PROVE  Loaded(h, c) \in HeadType
<1> DEFINE size == IF c.len > c.pkt THEN c.pkt ELSE c.len
           end == Plus(c.m2h, c.len)
           nxt == Plus(c.m2h, size)
<1>1. /\ size \in 0 .. AddrSpace /\ c.m2h \in 0 .. AddrSpace - 1 /\ c.id \in Ids
      /\ c.len \in 0 .. AddrSpace /\ c.pkt \in 0 .. AddrSpace
  BY DEF Job
<1> HIDE DEF size
<1>2. end \in 0 .. AddrSpace - 1 /\ nxt \in 0 .. AddrSpace - 1
  BY <1>1, PlusType
<1>3. Loaded(h, c) = [h EXCEPT !.c2h_addr = 0, !.m2h_addr = c.m2h, !.m2h_addr_reg = c.m2h,
               !.end_addr = end, !.cpt = c.id, !.pkt_size = c.pkt,
               !.length = size, !.length_reg = size, !.next_addr = nxt,
               !.cmd_in_ready = FALSE, !.cmd_out_valid = TRUE, !.working = TRUE]
  BY DEF Loaded, size
<1> HIDE DEF end, nxt
<1> DEFINE h1 == [h EXCEPT !.c2h_addr = 0, !.m2h_addr = c.m2h, !.m2h_addr_reg = c.m2h]
           h2 == [h1 EXCEPT !.end_addr = end, !.cpt = c.id, !.pkt_size = c.pkt]
           h3 == [h2 EXCEPT !.length = size, !.length_reg = size, !.next_addr = nxt]
           h4 == [h3 EXCEPT !.cmd_in_ready = FALSE, !.cmd_out_valid = TRUE, !.working = TRUE]
<1>4. Loaded(h, c) = h4
  BY <1>3, Zenon
<1>5. h1 \in HeadType
  BY <1>1 DEF HeadType
<1>6. h2 \in HeadType
  <2> HIDE DEF h1
  <2> QED
    BY <1>1, <1>2, <1>5 DEF HeadType
<1>7. h3 \in HeadType
  <2> HIDE DEF h2
  <2> QED
    BY <1>1, <1>2, <1>6 DEF HeadType
<1>8. h4 \in HeadType
  <2> HIDE DEF h3
  <2> QED
    BY <1>7 DEF HeadType
<1> QED
  BY <1>4, <1>8

LEMMA AdvancedType ==
  ASSUME NEW h \in HeadType
  PROVE  Advanced(h) \in HeadType
<1>1. Plus(h.m2h_addr, h.length) \in 0 .. AddrSpace - 1
  BY PlusType DEF HeadType
<1>2. Plus(h.next_addr, h.length) \in 0 .. AddrSpace - 1
  BY PlusType DEF HeadType
<1>3. Minus(h.end_addr, h.next_addr) \in 0 .. AddrSpace - 1
  BY MinusType DEF HeadType
<1>4. Lagged(h) \in HeadType
  BY DEF Lagged, HeadType
<1>5. SentLast(h) \in HeadType
  BY <1>4 DEF SentLast, HeadType
<1>6. \A more \in BOOLEAN : SentOne(h, more) \in HeadType
  <2> TAKE more \in BOOLEAN
  <2> DEFINE g == Lagged(h)
             len == IF more THEN h.pkt_size ELSE Minus(h.end_addr, h.next_addr)
             nxt == IF more THEN Plus(h.next_addr, h.length) ELSE h.end_addr
             dst == h.c2h_addr + h.length
             src == Plus(h.m2h_addr, h.length)
  <2>1. len \in 0 .. AddrSpace
    BY <1>3, ConstantsAssumption DEF HeadType
  <2>2. nxt \in 0 .. AddrSpace - 1
    BY <1>2 DEF HeadType
  <2>3. dst \in Nat
    BY DEF HeadType
  <2>4. src \in 0 .. AddrSpace - 1
    BY <1>1
  <2>5. g.c2h_addr = h.c2h_addr /\ g.m2h_addr = h.m2h_addr /\ g.next_addr = h.next_addr
    BY DEF Lagged, HeadType
  <2>6. SentOne(h, more) =
          [g EXCEPT !.continue = TRUE, !.c2h_addr = dst, !.m2h_addr = src,
                    !.length = len, !.next_addr = nxt]
    BY <2>5 DEF SentOne, HeadType, Lagged
  <2>7. g \in HeadType
    BY <1>4
  <2> HIDE DEF len, nxt, src, dst, g
  <2> DEFINE g1 == [g EXCEPT !.continue = TRUE, !.c2h_addr = dst, !.m2h_addr = src]
             g2 == [g1 EXCEPT !.length = len, !.next_addr = nxt]
  <2>8. SentOne(h, more) = g2
    BY <2>6, Zenon
  <2>9. g1 \in HeadType
    BY <2>3, <2>4, <2>7 DEF HeadType
  <2> HIDE DEF g1
  <2>10. g2 \in HeadType
    BY <2>1, <2>2, <2>9 DEF HeadType
  <2> QED
    BY <2>8, <2>10
<1>7. CASE h.next_addr = h.end_addr
  BY <1>5, <1>7 DEF Advanced
<1>8. CASE h.next_addr # h.end_addr
  <2> DEFINE more == Plus(h.next_addr, h.length) < h.end_addr
  <2>1. Advanced(h) = SentOne(h, more)
    BY <1>8 DEF Advanced
  <2>2. more \in BOOLEAN
    OBVIOUS
  <2> HIDE DEF more
  <2> QED
    BY <1>6, <2>1, <2>2
<1> QED
  BY <1>7, <1>8

-----------------------------------------------------------------------------
(* Sequences. *)

LEMMA HeadTail ==
  ASSUME NEW S, NEW s \in Seq(S), s # <<>>
  PROVE  /\ Head(s) \in S /\ Head(s) = s[1]
         /\ Tail(s) \in Seq(S) /\ Len(Tail(s)) = Len(s) - 1
         /\ Len(s) \in Nat \ {0}
         /\ \A k \in 1 .. Len(s) - 1 : Tail(s)[k] = s[k + 1]
OBVIOUS

LEMMA ConcatTail ==
  ASSUME NEW S, NEW s \in Seq(S), NEW t \in Seq(S), s # <<>>
  PROVE  Tail(s) \o t = Tail(s \o t)
<1> DEFINE l == Tail(s) \o t
           r == Tail(s \o t)
<1>1. /\ Tail(s) \in Seq(S) /\ Len(Tail(s)) = Len(s) - 1 /\ Len(s) \in Nat \ {0}
      /\ \A k \in 1 .. Len(s) - 1 : Tail(s)[k] = s[k + 1]
  BY HeadTail
<1>2. s \o t \in Seq(S) /\ s \o t # <<>> /\ Len(s \o t) = Len(s) + Len(t)
  BY ConcatProperties, ConcatEqualIffEmpty
<1>3. /\ r \in Seq(S) /\ Len(r) = Len(s) + Len(t) - 1
      /\ \A k \in 1 .. Len(s) + Len(t) - 1 : r[k] = (s \o t)[k + 1]
  BY <1>2, HeadTail
<1>4. l \in Seq(S) /\ Len(l) = Len(s) - 1 + Len(t)
  BY <1>1, ConcatProperties
<1>5. Len(t) \in Nat
  OBVIOUS
<1>6. ASSUME NEW k \in 1 .. Len(l) PROVE l[k] = r[k]
  <2>1. l[k] = IF k =< Len(s) - 1 THEN Tail(s)[k] ELSE t[k - (Len(s) - 1)]
    BY <1>1, <1>4, ConcatProperties
  <2>2. r[k] = IF k + 1 =< Len(s) THEN s[k + 1] ELSE t[k + 1 - Len(s)]
    BY <1>1, <1>3, <1>4, <1>5, ConcatProperties
  <2> HIDE DEF l, r
  <2>3. k - (Len(s) - 1) = k + 1 - Len(s) /\ (k =< Len(s) - 1 <=> k + 1 =< Len(s))
    BY <1>1, <1>4, <1>5
  <2>4. QED
    BY <1>1, <1>4, <1>5, <2>1, <2>2, <2>3
<1> HIDE DEF l, r
<1>7. l = r
  BY <1>3, <1>4, <1>5, <1>1, <1>6, SeqEqual
<1>8. QED
  BY <1>7 DEF l, r

LEMMA HeadThenTail ==
  ASSUME NEW S, NEW s \in Seq(S), s # <<>>
  PROVE  <<Head(s)>> \o Tail(s) = s
<1> DEFINE h == Head(s)
           l == <<h>> \o Tail(s)
<1>1. /\ h \in S /\ h = s[1] /\ Tail(s) \in Seq(S) /\ Len(Tail(s)) = Len(s) - 1
      /\ Len(s) \in Nat \ {0} /\ \A k \in 1 .. Len(s) - 1 : Tail(s)[k] = s[k + 1]
  BY HeadTail
<1> HIDE DEF h
<1>2. <<h>> \in Seq(S) /\ Len(<<h>>) = 1 /\ <<h>>[1] = h
  BY <1>1
<1>3. /\ l \in Seq(S) /\ Len(l) = 1 + (Len(s) - 1)
      /\ \A k \in 1 .. Len(s) : l[k] = IF k =< 1 THEN <<h>>[k] ELSE Tail(s)[k - 1]
  BY <1>1, <1>2, ConcatProperties
<1> HIDE DEF l
<1>4. \A k \in 1 .. Len(l) : l[k] = s[k]
  BY <1>1, <1>2, <1>3
<1>5. l = s
  BY <1>1, <1>3, <1>4, SeqEqual
<1>6. QED
  BY <1>5 DEF h, l

-----------------------------------------------------------------------------
(* What the registers of a head hold. *)

LEMMA SentStep ==
  ASSUME NEW c, c.pkt \in Nat \ {0}, NEW k \in Nat
  PROVE  /\ Given(c, 0) = 0 /\ Given(c, k) \in Nat /\ k =< Given(c, k)
         /\ Given(c, k + 1) = Given(c, k) + c.pkt
<1> DEFINE p == c.pkt
<1>1. p \in Nat \ {0}
  OBVIOUS
<1> HIDE DEF p
<1>2. 0 * p = 0 /\ k * p \in Nat /\ (k + 1) * p = k * p + p
  BY <1>1
<1>3. k =< k * p
  BY <1>1
<1>4. QED
  BY <1>2, <1>3 DEF Given, p

LEMMA SizeType ==
  ASSUME NEW c, Sound(c), NEW o \in Nat, o < c.len
  PROVE  /\ Size(c, o) \in 1 .. c.pkt /\ o + Size(c, o) =< c.len
         /\ c.m2h + o \in 0 .. AddrSpace - 1
         /\ o + Size(c, o) # c.len => Size(c, o) = c.pkt /\ o + c.pkt < c.len
BY ConstantsAssumption DEF Size, Sound, Job

LEMMA EndFound ==
  ASSUME NEW h \in HeadType, NEW c, Sound(c), NEW o, Carries(h, c, o)
  PROVE  h.next_addr = h.end_addr <=> o + Size(c, o) = c.len
<1> DEFINE s == Size(c, o)
           a == c.m2h
           l == c.len
<1>1. /\ s \in Nat \ {0} /\ o \in Nat /\ o + s =< l /\ a \in Nat /\ l \in Nat
      /\ a + l =< AddrSpace /\ AddrSpace \in Nat
  BY SizeType, ConstantsAssumption DEF Carries, Sound, Job
<1>2. h.next_addr = Plus(a + o, s) /\ h.end_addr = Plus(a, l)
  BY DEF Carries
<1> HIDE DEF s, a, l
<1>3. Plus(a + o, s) = Plus(a, l) <=> o + s = l
  BY <1>1 DEF Plus
<1>4. QED
  BY <1>2, <1>3 DEF s, l

LEMMA LoadedCarries ==
  ASSUME NEW h \in HeadType, NEW c, Sound(c)
  PROVE  Carries(Loaded(h, c), c, 0)
<1> DEFINE size == IF c.len > c.pkt THEN c.pkt ELSE c.len
           nxt == Plus(c.m2h, size)
           end == Plus(c.m2h, c.len)
           l == Loaded(h, c)
<1>1. /\ l.pkt_size = c.pkt /\ l.end_addr = end
      /\ l.m2h_addr = c.m2h /\ l.c2h_addr = 0
      /\ l.length = size /\ l.next_addr = nxt
  BY DEF Loaded, HeadType
<1>3. c.len \in Nat \ {0} /\ c.pkt \in Nat \ {0} /\ c.m2h \in Nat
  BY ConstantsAssumption DEF Sound, Job
<1>4. Size(c, 0) = size
  BY <1>3 DEF Size
<1> HIDE DEF l
<1>6. c.m2h + 0 = c.m2h /\ 0 < c.len
  BY <1>3
<1>7. nxt = Plus(c.m2h + 0, Size(c, 0))
  BY <1>4, <1>6
<1> HIDE DEF size, nxt, end
<1>8. Carries(l, c, 0)
  BY <1>1, <1>4, <1>6, <1>7 DEF Carries, end
<1>9. QED
  BY <1>8 DEF l

LEMMA MoreFound ==
  ASSUME NEW c, Sound(c), NEW k \in Nat, NEW o, o = Given(c, k), o + c.pkt < c.len
  PROVE  LET n == c.m2h + o + c.pkt
         IN /\ n \in 0 .. AddrSpace - 1
            /\ Plus(n, c.pkt) < Plus(c.m2h, c.len) <=> o + c.pkt + c.pkt < c.len
            /\ o + c.pkt + c.pkt < c.len => Plus(n, c.pkt) = n + c.pkt
            /\ Minus(Plus(c.m2h, c.len), n) = c.len - (o + c.pkt)
<1> DEFINE p == c.pkt
           l == c.len
           a == c.m2h
           j == o + p
<1>1. /\ p \in Nat \ {0} /\ l \in Nat \ {0} /\ a \in Nat /\ AddrSpace \in Nat \ {0}
      /\ a + l =< AddrSpace
  BY ConstantsAssumption DEF Sound, Job
<1>2. o \in Nat /\ j = Given(c, k + 1) /\ k + 1 =< j
  BY <1>1, SentStep
<1>3. j < l /\ j \in Nat /\ j >= p
  BY <1>1, <1>2
<1>4. \/ a + l = AddrSpace /\ l =< 2 * p
      \/ a + l < AddrSpace /\ a + j + p < AddrSpace
  <2>1. CASE l =< p
    BY <1>1, <1>3, <2>1
  <2>2. CASE a + l = AddrSpace /\ l =< 2 * p
    BY <2>2
  <2>3. CASE /\ a + l < AddrSpace
             /\ \A i \in 0 .. l : Given(c, i) < l => a + Given(c, i) + p < AddrSpace
    <3>1. k + 1 \in 0 .. l
      BY <1>1, <1>2, <1>3
    <3>2. a + Given(c, k + 1) + p < AddrSpace
      BY <1>2, <1>3, <2>3, <3>1
    <3>3. QED
      BY <1>2, <2>3, <3>2
  <2>4. QED
    BY <2>1, <2>2, <2>3 DEF Sound, Fits
<1> HIDE DEF p, l, a, j
<1>5. /\ a + j \in 0 .. AddrSpace - 1
      /\ Plus(a + j, p) < Plus(a, l) <=> j + p < l
      /\ j + p < l => Plus(a + j, p) = a + j + p
      /\ Minus(Plus(a, l), a + j) = l - j
  BY <1>1, <1>3, <1>4 DEF Plus, Minus
<1>6. c.m2h + o + c.pkt = a + j
  BY <1>1, <1>2 DEF a, j, p
<1>7. QED
  BY <1>5, <1>6 DEF a, j, p, l

LEMMA SentOneFields ==
  ASSUME NEW h \in HeadType, NEW more
  PROVE  LET s == SentOne(h, more)
         IN /\ s.pkt_size = h.pkt_size /\ s.end_addr = h.end_addr /\ s.cpt = h.cpt
            /\ s.m2h_addr = Plus(h.m2h_addr, h.length)
            /\ s.c2h_addr = h.c2h_addr + h.length
            /\ s.length = IF more THEN h.pkt_size ELSE Minus(h.end_addr, h.next_addr)
            /\ s.next_addr = IF more THEN Plus(h.next_addr, h.length) ELSE h.end_addr
            /\ s.m2h_addr_reg = h.m2h_addr /\ s.length_reg = h.length
            /\ s.working = h.working /\ s.cmd_in_ready = h.cmd_in_ready
            /\ s.m2h_complete = h.m2h_complete
            /\ s.last = h.last /\ s.cmd_out_valid = h.cmd_out_valid /\ s.continue
<1> DEFINE g == Lagged(h)
           len == IF more THEN h.pkt_size ELSE Minus(h.end_addr, h.next_addr)
           nxt == IF more THEN Plus(h.next_addr, h.length) ELSE h.end_addr
           dst == h.c2h_addr + h.length
           src == Plus(h.m2h_addr, h.length)
           s == SentOne(h, more)
<1>1. /\ g.m2h_addr_reg = h.m2h_addr /\ g.length_reg = h.length
      /\ g.pkt_size = h.pkt_size /\ g.end_addr = h.end_addr /\ g.cpt = h.cpt
      /\ g.working = h.working /\ g.cmd_in_ready = h.cmd_in_ready
      /\ g.m2h_complete = h.m2h_complete
      /\ g.last = h.last /\ g.cmd_out_valid = h.cmd_out_valid
      /\ g.c2h_addr = h.c2h_addr /\ g.m2h_addr = h.m2h_addr /\ g.next_addr = h.next_addr
  BY Zenon DEF Lagged, HeadType
<1>2. g \in HeadType
  BY DEF Lagged, HeadType
<1>3. s = [g EXCEPT !.continue = TRUE, !.c2h_addr = dst, !.m2h_addr = src,
                    !.length = len, !.next_addr = nxt]
  <2>1. s = [g EXCEPT !.continue = TRUE, !.c2h_addr = g.c2h_addr + h.length,
                      !.m2h_addr = Plus(g.m2h_addr, h.length),
                      !.length = len, !.next_addr = IF more THEN Plus(g.next_addr, h.length) ELSE h.end_addr]
    BY Zenon DEF SentOne
  <2>2. QED
    BY <1>1, <2>1, Zenon
<1> HIDE DEF s, g, len, nxt, dst, src
<1>4. /\ s.continue /\ s.c2h_addr = dst /\ s.m2h_addr = src /\ s.length = len /\ s.next_addr = nxt
      /\ s.m2h_addr_reg = g.m2h_addr_reg /\ s.length_reg = g.length_reg
      /\ s.pkt_size = g.pkt_size /\ s.end_addr = g.end_addr /\ s.cpt = g.cpt
      /\ s.working = g.working /\ s.cmd_in_ready = g.cmd_in_ready
      /\ s.m2h_complete = g.m2h_complete
      /\ s.last = g.last /\ s.cmd_out_valid = g.cmd_out_valid
  BY <1>2, <1>3, Zenon DEF HeadType
<1>5. QED
  BY <1>1, <1>4, Zenon DEF s, len, nxt, dst, src

LEMMA AdvancedCarries ==
  ASSUME NEW h \in HeadType, NEW c, Sound(c), NEW k \in Nat, NEW o, o = Given(c, k),
         Carries(h, c, o), o + Size(c, o) # c.len
  PROVE  Carries(Advanced(h), c, o + c.pkt) /\ o + c.pkt = Given(c, k + 1)
<1> DEFINE p == c.pkt
           j == o + p
           n == c.m2h + o + p
           e == Plus(c.m2h, c.len)
           more == Plus(h.next_addr, h.length) < h.end_addr
           size == Size(c, j)
<1>1. /\ p \in Nat \ {0} /\ c.len \in Nat \ {0} /\ c.m2h \in Nat
      /\ o \in Nat /\ AddrSpace \in Nat \ {0} /\ c.m2h + c.len =< AddrSpace
  BY ConstantsAssumption DEF Sound, Job, Carries
<1>2. Size(c, o) = p /\ j < c.len /\ j \in Nat
  BY <1>1, SizeType DEF Carries
<1>3. /\ n \in 0 .. AddrSpace - 1
      /\ Plus(n, p) < e <=> j + p < c.len
      /\ j + p < c.len => Plus(n, p) = n + p
      /\ Minus(e, n) = c.len - j
  BY <1>2, MoreFound
<1>4. /\ h.length = p /\ h.end_addr = e /\ h.pkt_size = p
      /\ h.m2h_addr = c.m2h + o /\ h.c2h_addr = o
  BY <1>2 DEF Carries
<1>5. h.next_addr = n /\ Plus(h.m2h_addr, p) = n
  <2>1. h.next_addr = Plus(c.m2h + o, p)
    BY <1>2 DEF Carries
  <2>2. Plus(c.m2h + o, p) = n
    BY <1>1, <1>3 DEF Plus
  <2>3. QED
    BY <1>4, <2>1, <2>2
<1>6. h.next_addr # h.end_addr
  BY EndFound
<1>7. Advanced(h) = SentOne(h, more)
  BY <1>6 DEF Advanced
<1>8. (more <=> j + p < c.len) /\ more \in BOOLEAN
  BY <1>3, <1>4, <1>5
<1> HIDE DEF more
<1> DEFINE s == SentOne(h, more)
           len == IF more THEN p ELSE c.len - j
           nxt == IF more THEN n + p ELSE e
<1>9. /\ s.pkt_size = h.pkt_size /\ s.end_addr = h.end_addr
      /\ s.m2h_addr = n /\ s.c2h_addr = j
  <2>1. /\ s.pkt_size = h.pkt_size /\ s.end_addr = h.end_addr
        /\ s.m2h_addr = Plus(h.m2h_addr, h.length) /\ s.c2h_addr = h.c2h_addr + h.length
    BY SentOneFields
  <2> HIDE DEF s
  <2>2. QED
    BY <1>4, <1>5, <2>1
<1>11. s.length = len /\ s.next_addr = nxt
  <2>1. /\ s.length = IF more THEN h.pkt_size ELSE Minus(h.end_addr, h.next_addr)
        /\ s.next_addr = IF more THEN Plus(h.next_addr, h.length) ELSE h.end_addr
    BY SentOneFields
  <2> HIDE DEF s
  <2>2. QED
    BY <1>3, <1>4, <1>5, <1>8, <2>1
<1>12. len = size
  BY <1>1, <1>2, <1>8 DEF Size
<1>13. nxt = Plus(c.m2h + j, size)
  <2>1. c.m2h + j = n
    BY <1>1
  <2>2. CASE more
    <3>1. size = p /\ nxt = n + p
      BY <1>12, <2>2
    <3>2. QED
      BY <1>3, <1>8, <2>1, <2>2, <3>1
  <2>3. CASE ~more
    <3>1. size = c.len - j
      BY <1>12, <2>3
    <3>2. n + size = c.m2h + c.len
      BY <1>1, <1>2, <2>1, <3>1
    <3>3. Plus(n, size) = e
      BY <1>1, <1>2, <1>3, <3>1, <3>2 DEF Plus
    <3>4. QED
      BY <2>1, <2>3, <3>3
  <2>4. QED
    BY <2>2, <2>3
<1>15. n = c.m2h + j
  BY <1>1
<1> HIDE DEF s, len, nxt, size, n, e
<1>16. Carries(s, c, j)
  <2>1. /\ s.pkt_size = c.pkt /\ s.end_addr = Plus(c.m2h, c.len)
        /\ s.m2h_addr = c.m2h + j /\ s.c2h_addr = j
    BY <1>4, <1>9, <1>15 DEF e
  <2>2. s.length = Size(c, j) /\ s.next_addr = Plus(c.m2h + j, Size(c, j))
    BY <1>11, <1>12, <1>13 DEF size
  <2> HIDE DEF j
  <2>4. QED
    BY <1>2, <2>1, <2>2 DEF Carries
<1>17. j = Given(c, k + 1)
  BY <1>1, SentStep
<1>18. QED
  BY <1>7, <1>16, <1>17 DEF s

-----------------------------------------------------------------------------
(* The inductive invariant. *)

(* What the theorems assume of an instance: queue 0 is not used, an answer   *)
(* of the HBM reader comes before the engine is idle again, and no sum of a  *)
(* head wraps around.                                                        *)
Regular ==
  /\ 0 \notin UsedQueues
  /\ Lat =< Hold + 3
  /\ \A c \in Cmds : Fits(c)

(* Types, part by part. *)

QTypes ==
  /\ req \in Seq([q : Queues, cmd : Job]) /\ Len(req) =< 1
  /\ fifo \in [Queues -> Seq(Job)]
  /\ \A i \in Queues : Len(fifo[i]) =< QDepth
  /\ head \in [Queues -> HeadType]
  /\ out \in Queues \union {Window} /\ next \in Queues

ETypes ==
  /\ win \in [cpt_working : BOOLEAN, h2m_complete : BOOLEAN,
              hold1 : 0 .. HoldSpan - 1, hold2 : 0 .. HoldSpan - 1]
  /\ c2h \in [state : {"idle", "send", "done"}, valid : BOOLEAN, hold : 0 .. 15,
              pkt : [id : Ids, off : Nat, len : 0 .. AddrSpace]]
  /\ m2h_start \in BOOLEAN /\ m2h_finish \in BOOLEAN /\ age \in 0 .. Lat + 1
  /\ request \in Seq([addr : 0 .. AddrSpace - 1, len : 0 .. AddrSpace])
  /\ Len(request) =< 1

STypes ==
  /\ reading \in Seq(0 .. AddrSpace - 1)
  /\ m2hq \in Seq(0 .. AddrSpace - 1) /\ Len(m2hq) =< FifoDepth
  /\ tmp \in Seq(0 .. AddrSpace - 1) /\ Len(tmp) =< 1
  /\ slots \in Seq(SlotType)
  /\ cmd_ready \in BOOLEAN /\ data_ready \in BOOLEAN

UnitType ==
  [h2c_cpt_complete : BOOLEAN, c2h_cpt_complete : BOOLEAN, p2p_cpt_complete : BOOLEAN,
   h2c_cpt_addr : Ids, c2h_cpt_addr : Ids, cpt_addr : Ids,
   cmd_valid : BOOLEAN, data_valid : BOOLEAN, cmd_fire : BOOLEAN, data_fire : BOOLEAN,
   h2c_started : BOOLEAN, c2h_started : BOOLEAN, p2p_started : BOOLEAN,
   h2c_was : BOOLEAN, c2h_was : BOOLEAN]

CTypes ==
  /\ cpt \in UnitType
  /\ was \in [h2d_last : BOOLEAN, h2d_complete : BOOLEAN, d2h_last : BOOLEAN]
  /\ h2d \in [last : BOOLEAN, complete : BOOLEAN, n : 0 .. MaxH2D]

HTypes ==
  /\ host \in SUBSET [id : Ids, off : Nat, beat : 0 .. FlagBeat]
  /\ notified \in Seq(Ids)
  /\ posted \in Seq(Job)
  /\ job \in [Queues -> Job]
  /\ sent \in [Queues -> Nat]

(* A head has a command or takes one; a head that waits for its completion,  *)
(* or gives way, is the selected one.                                        *)
Flags(i) ==
  LET h == head[i]
  IN /\ h.cmd_in_ready <=> ~h.working
     /\ h.cmd_out_valid <=> h.working /\ ~h.last
     /\ h.last => h.working /\ ~h.continue /\ out = i
     /\ h.m2h_complete => h.last
     /\ h.continue => out = i /\ (h.working => c2h.state # "idle")
     /\ i \notin UsedQueues => ~h.working /\ fifo[i] = <<>>

AllFlags == \A i \in Queues : Flags(i)

(* The registers of a head are those of its command at the beats sent.       *)
Fired(i) ==
  LET h == head[i]
      c == job[i]
  IN /\ (~h.working \/ h.last) => sent[i] = c.len
     /\ h.working => Sound(c) /\ h.cpt = c.id
     /\ h.cmd_out_valid => /\ Carries(h, c, sent[i])
                           /\ \E k \in Nat : sent[i] = Given(c, k)

AllFired == \A i \in Queues : Fired(i)

(* The engine holds long enough for the reader to have taken its request.    *)
Pace ==
  /\ c2h.valid => c2h.state = "send"
  /\ m2h_start => c2h.state = "send" /\ ~c2h.valid /\ request = <<>> /\ age = 0
  /\ request # <<>> => /\ age >= 1
                       /\ c2h.state = "done" => age + c2h.hold >= Hold + 2
                       /\ c2h.state = "idle" => age >= Lat
  /\ c2h.state = "done" => c2h.hold =< Hold

InRange ==
  /\ m2h_start => M2HRequest.addr + M2HRequest.len =< AddrSpace
  /\ request # <<>> => request[1].addr + request[1].len =< AddrSpace

(* Beats and the slots that want them, in order; p are the commands posted.  *)
Good(s, p) == s.id.n \in 1 .. Len(p) /\ s.id = p[s.id.n].id /\ s.off < p[s.id.n].len
Source(s, p) == p[s.id.n].m2h + s.off

Paired(way, want, p) ==
  /\ way \in Seq(0 .. AddrSpace - 1) /\ want \in Seq(SlotType)
  /\ Len(way) = Len(want)
  /\ \A k \in 1 .. Len(want) : Good(want[k], p) /\ way[k] = Source(want[k], p)

Stream ==
  /\ Paired(OnTheWay, Wanted, posted)
  /\ c2h.state = "send" => c2h.pkt.len >= 1
  /\ m2h_start => M2HRequest = [addr |-> Source(c2h.pkt, posted), len |-> c2h.pkt.len]

(* Nothing is on its way to the host. *)
Quiet == /\ c2h.state = "idle" /\ ~m2h_start /\ request = <<>>
         /\ reading = <<>> /\ m2hq = <<>> /\ tmp = <<>>

(* The completion unit: idle, or writing one flag with the stream to itself. *)
FlagSlot  == \E k \in 1 .. Len(slots) : slots[k].off = Flag
UnitIdle  == /\ ~cpt.h2c_started /\ ~cpt.c2h_started /\ ~FlagSlot
             /\ ~cpt.cmd_valid /\ ~cpt.data_valid /\ ~cpt.cmd_fire /\ ~cpt.data_fire
UnitBusy  == (cpt.h2c_started \/ cpt.c2h_started) /\ Quiet
Asking    == /\ cpt.cmd_valid /\ cpt.data_valid /\ ~cpt.cmd_fire /\ ~cpt.data_fire
             /\ slots = <<>>
Placing   == /\ ~cpt.cmd_valid /\ cpt.data_valid /\ cpt.cmd_fire /\ ~cpt.data_fire
             /\ slots = <<[id |-> cpt.cpt_addr, off |-> Flag]>>
Placed    == /\ ~cpt.cmd_valid /\ ~cpt.data_valid /\ cpt.cmd_fire /\ cpt.data_fire
             /\ slots = <<>>
UnitStage ==
  /\ ~cpt.p2p_started
  /\ data_ready => cpt.data_valid /\ slots # <<>>
  /\ UnitIdle \/ (UnitBusy /\ (Asking \/ Placing \/ Placed))

(* The stages of a host-to-device completion: none, asked for, told to the   *)
(* unit, window wanted, window open, being written, written.                 *)
WinOff == ~win.cpt_working /\ ~win.h2m_complete
Mine   == h2d.last /\ was.h2d_last /\ cpt.h2c_cpt_addr = H2DId(h2d.n)
Open   == /\ Mine /\ h2d.complete /\ was.h2d_complete
          /\ win.cpt_working /\ win.h2m_complete /\ out = Window /\ Quiet
H0 == /\ ~h2d.last /\ ~h2d.complete /\ cpt.h2c_cpt_complete /\ ~cpt.h2c_started /\ WinOff
      /\ ~was.h2d_last => ~was.h2d_complete /\ ~cpt.h2c_was
H1 == /\ h2d.last /\ ~h2d.complete /\ ~was.h2d_last /\ ~was.h2d_complete /\ ~cpt.h2c_was
      /\ cpt.h2c_cpt_complete /\ ~cpt.h2c_started /\ WinOff
H2 == /\ Mine /\ ~was.h2d_complete /\ ~cpt.h2c_was
      /\ ~cpt.h2c_cpt_complete /\ ~cpt.h2c_started /\ WinOff
H3 == /\ Mine /\ h2d.complete /\ was.h2d_complete /\ win.cpt_working /\ ~win.h2m_complete
      /\ ~cpt.h2c_was /\ ~cpt.h2c_cpt_complete /\ ~cpt.h2c_started
H4 == Open /\ ~cpt.h2c_was /\ ~cpt.h2c_cpt_complete /\ ~cpt.h2c_started
H5 == /\ Open /\ cpt.h2c_was /\ ~cpt.h2c_cpt_complete /\ cpt.h2c_started
      /\ cpt.cpt_addr = H2DId(h2d.n)
H6 == Open /\ cpt.h2c_was /\ cpt.h2c_cpt_complete /\ ~cpt.h2c_started
HStage == /\ H0 \/ H1 \/ H2 \/ H3 \/ H4 \/ H5 \/ H6
          /\ out = Window => win.cpt_working

(* The same for the selected device-to-host head. *)
This  == head[Sel]
Yours == This.last /\ was.d2h_last /\ cpt.c2h_cpt_addr = This.cpt
Ended == Yours /\ This.m2h_complete /\ Quiet
D0 == /\ ~This.last /\ cpt.c2h_cpt_complete /\ ~cpt.c2h_started
      /\ was.d2h_last \/ cpt.c2h_was => out # Window /\ ~This.working /\ This.continue
D1 == /\ This.last /\ ~This.m2h_complete /\ ~was.d2h_last /\ ~cpt.c2h_was
      /\ cpt.c2h_cpt_complete /\ ~cpt.c2h_started /\ m2h_start
D2 == /\ Yours /\ ~This.m2h_complete /\ ~cpt.c2h_was
      /\ ~cpt.c2h_cpt_complete /\ ~cpt.c2h_started
D3 == Ended /\ ~cpt.c2h_was /\ ~cpt.c2h_cpt_complete /\ ~cpt.c2h_started
D4 == Ended /\ cpt.c2h_was /\ ~cpt.c2h_cpt_complete /\ cpt.c2h_started /\ cpt.cpt_addr = This.cpt
D5 == Ended /\ cpt.c2h_was /\ cpt.c2h_cpt_complete /\ ~cpt.c2h_started
Drainage == This.last /\ m2h_finish /\ ~m2h_start /\ request = <<>>
              => reading = <<>> /\ m2hq = <<>> /\ tmp = <<>>
DStage == Drainage /\ (D0 \/ D1 \/ D2 \/ D3 \/ D4 \/ D5)

(* Commands keep the names they were posted under, and their order.          *)
Own(c, i) == c.id.n \in 1 .. Len(posted) /\ c = posted[c.id.n] /\ c.id.q = i

PostedNamed == \A n \in 1 .. Len(posted) :
                 Sound(posted[n]) /\ posted[n].id.n = n /\ posted[n].id.q \in UsedQueues
ReqNamed == req # <<>> =>
  /\ Len(posted) >= 1 /\ req[1].cmd = posted[Len(posted)] /\ req[1].cmd.id.q = req[1].q
  /\ \A i \in Queues : /\ job[i].id.n < Len(posted)
                       /\ \A k \in 1 .. Len(fifo[i]) : fifo[i][k].id.n < Len(posted)
FifoNamed(i) == \A k \in 1 .. Len(fifo[i]) :
  /\ Own(fifo[i][k], i) /\ job[i].id.n < fifo[i][k].id.n
  /\ \A l \in 1 .. k - 1 : fifo[i][l].id.n < fifo[i][k].id.n
JobNamed(i) == job[i] = NoJob \/ Own(job[i], i)
Names == PostedNamed /\ ReqNamed /\ \A i \in Queues : FifoNamed(i) /\ JobNamed(i)

(* The flag of the present command of a path has been written. *)
FlagDone == ~cpt.data_valid /\ cpt.data_fire
HTold    == H0 \/ (H5 /\ FlagDone) \/ H6
DTold    == (D4 /\ FlagDone) \/ D5
ToldAt(i) == ~head[i].working \/ (Sel = i /\ DTold)

HReported(id) == id.n \in 1 .. h2d.n /\ (id.n = h2d.n => HTold)
DReported(id) == id.n \in 1 .. job[id.q].id.n /\ (id.n = job[id.q].id.n => ToldAt(id.q))
Distinct  == \A j, k \in 1 .. Len(notified) : j < k => notified[j] # notified[k]
Reports ==
  /\ Distinct /\ (h2d.last => h2d.n >= 1)
  /\ \A id \in Reported : \/ id.q = NumQ /\ HReported(id)
                          \/ id.q \in Queues /\ DReported(id)
  /\ \A n \in 1 .. h2d.n : (n < h2d.n \/ HTold) => H2DId(n) \in Reported
  /\ \A i \in Queues : job[i] # NoJob /\ ToldAt(i) => job[i].id \in Reported

(* What a head has sent is in the host's memory or wanted. *)
InHost(id, k) == [id |-> id, off |-> k, beat |-> posted[id.n].m2h + k] \in host
Wants(id, k)  == \E m \in 1 .. Len(Wanted) : Wanted[m] = [id |-> id, off |-> k]
Landed ==
  /\ \A i \in Queues : head[i].working =>
       \A k \in 0 .. sent[i] - 1 : InHost(job[i].id, k) \/ Wants(job[i].id, k)
  /\ BufferFilled

-----------------------------------------------------------------------------
(* What an edge does to the registers of a head. *)

SameRegisters(n, h) ==
  /\ n.cpt = h.cpt /\ n.pkt_size = h.pkt_size /\ n.end_addr = h.end_addr
  /\ n.m2h_addr = h.m2h_addr /\ n.c2h_addr = h.c2h_addr
  /\ n.length = h.length /\ n.next_addr = h.next_addr
  /\ n.m2h_addr_reg = h.m2h_addr_reg /\ n.length_reg = h.length_reg

LEMMA SameCarries ==
  ASSUME NEW n, NEW h, SameRegisters(n, h), NEW c, NEW o, Carries(h, c, o)
  PROVE  Carries(n, c, o)
BY Zenon DEF SameRegisters, Carries

LEMMA LoadedFlags ==
  ASSUME NEW h \in HeadType, NEW c
  PROVE  /\ ~Loaded(h, c).cmd_in_ready /\ Loaded(h, c).cmd_out_valid
         /\ Loaded(h, c).working
         /\ Loaded(h, c).last = h.last /\ Loaded(h, c).m2h_complete = h.m2h_complete
         /\ Loaded(h, c).cpt = c.id
BY DEF Loaded, HeadType

LEMMA SentLastFields ==
  ASSUME NEW h \in HeadType
  PROVE  /\ SentLast(h).m2h_addr_reg = h.m2h_addr /\ SentLast(h).length_reg = h.length
         /\ SentLast(h).cpt = h.cpt
         /\ SentLast(h).working = h.working /\ SentLast(h).cmd_in_ready = h.cmd_in_ready
         /\ SentLast(h).m2h_complete = h.m2h_complete
         /\ SentLast(h).last /\ ~SentLast(h).cmd_out_valid /\ ~SentLast(h).continue
BY DEF SentLast, Lagged, HeadType

LEMMA FinishedFlags ==
  ASSUME NEW h \in HeadType
  PROVE  /\ Finished(h).cmd_in_ready /\ ~Finished(h).working /\ ~Finished(h).last
         /\ ~Finished(h).m2h_complete
         /\ Finished(h).continue /\ Finished(h).cmd_out_valid = h.cmd_out_valid
BY DEF Finished, HeadType

LEMMA CommandWaits ==
  ASSUME QTypes, NEW i \in Queues, CmdInFire(i)
  PROVE  Head(fifo[i]) \in Job /\ Len(fifo[i]) >= 1 /\ Head(fifo[i]) = fifo[i][1]
<1>1. fifo[i] \in Seq(Job) /\ fifo[i] # <<>>
  BY DEF QTypes, CmdInFire
<1> QED
  BY <1>1, HeadTail

LEMMA NotWindow ==
  ASSUME NEW i \in Queues
  PROVE  i # Window
BY ConstantsAssumption DEF Queues, Window

LEMMA SelType == QTypes => Sel \in Queues /\ 0 \in Queues /\ This \in HeadType
<1>1. 0 \in Queues
  BY ConstantsAssumption DEF Queues
<1> QED
  BY <1>1 DEF QTypes, Sel, This

(* Take a command. *)
Loads(i, n) ==
  /\ CmdInFire(i) /\ ~HeadFire(i) /\ ~head[i].working
  /\ ~n.cmd_in_ready /\ n.cmd_out_valid /\ n.working
  /\ ~n.last /\ ~n.continue /\ ~n.m2h_complete
  /\ n.cpt = Head(fifo[i]).id
  /\ SameRegisters(n, Loaded(head[i], Head(fifo[i])))

(* Send a packet, the final one or not. *)
Sends(i, n) ==
  LET h == head[i]
  IN /\ ~CmdInFire(i) /\ HeadFire(i) /\ h.cmd_out_valid /\ h.working /\ ~h.last
     /\ n.cpt = h.cpt /\ n.m2h_addr_reg = h.m2h_addr /\ n.length_reg = h.length
     /\ ~n.cmd_in_ready /\ n.working /\ ~n.m2h_complete
     /\ \/ /\ h.next_addr = h.end_addr
           /\ n.last /\ ~n.cmd_out_valid /\ ~n.continue
        \/ /\ h.next_addr # h.end_addr /\ n = Advanced(h)
           /\ ~n.last /\ n.cmd_out_valid /\ n.continue

(* Have the completion written. *)
Finishes(i, n) ==
  LET h == head[i]
  IN /\ ~CmdInFire(i) /\ ~HeadFire(i)
     /\ h.last /\ h.m2h_complete /\ cpt.c2h_cpt_complete /\ out = i
     /\ n.cmd_in_ready /\ ~n.working /\ ~n.last /\ ~n.cmd_out_valid
     /\ ~n.m2h_complete /\ n.continue

(* Otherwise only notice that the last packet has gone. *)
Rests(i, n) ==
  LET h == head[i]
  IN /\ ~CmdInFire(i) /\ ~HeadFire(i)
     /\ ~(h.last /\ h.m2h_complete /\ cpt.c2h_cpt_complete)
     /\ SameRegisters(n, h)
     /\ n.cmd_in_ready <=> h.cmd_in_ready
     /\ n.working <=> h.working
     /\ n.last <=> h.last
     /\ n.cmd_out_valid <=> h.cmd_out_valid
     /\ n.m2h_complete <=> h.m2h_complete \/ (h.last /\ c2h_finish /\ m2h_finish)
     /\ ~n.continue

LEMMA HeadCases ==
  ASSUME QTypes, AllFlags, NEW i \in Queues
  PROVE  \/ Loads(i, HeadNext(i)) \/ Sends(i, HeadNext(i))
         \/ Finishes(i, HeadNext(i)) \/ Rests(i, HeadNext(i))
<1> DEFINE h == head[i]
           n == HeadNext(i)
           j == Head(fifo[i])
<1>1. h \in HeadType
  BY DEF QTypes
<1>2. Flags(i)
  BY DEF AllFlags
<1>4. CASE CmdInFire(i)
  <2> DEFINE l == Loaded(h, j)
  <2>1. h.cmd_in_ready /\ ~h.working /\ ~h.cmd_out_valid /\ ~h.last /\ ~h.m2h_complete
    BY <1>1, <1>2, <1>4 DEF CmdInFire, Flags, HeadType
  <2>2. ~HeadFire(i)
    <3>1. HeadFire(i) => Sel = i
      BY NotWindow DEF HeadFire, Sel
    <3>2. QED
      BY <2>1, <3>1 DEF Fire, HeadFire
  <2>3. n = IF h.continue THEN [l EXCEPT !.continue = FALSE] ELSE l
    BY <1>4, <2>1, <2>2 DEF HeadNext
  <2>4. l \in HeadType
    BY <1>1, <1>4, LoadedType, CommandWaits
  <2>5. /\ ~l.cmd_in_ready /\ l.cmd_out_valid /\ l.working /\ ~l.last /\ l.continue = h.continue
        /\ ~l.m2h_complete /\ l.cpt = j.id
    <3>1. l.continue = h.continue
      BY <1>1 DEF Loaded, HeadType
    <3>2. QED
      BY <1>1, <2>1, <3>1, LoadedFlags
  <2> HIDE DEF h, n, l, j
  <2>6. /\ ~n.cmd_in_ready /\ n.cmd_out_valid /\ n.working /\ ~n.last /\ ~n.continue
        /\ ~n.m2h_complete /\ n.cpt = j.id /\ SameRegisters(n, l)
    BY <2>3, <2>4, <2>5 DEF HeadType, SameRegisters
  <2>7. QED
    BY <1>4, <2>1, <2>2, <2>6, Zenon DEF n, l, h, j, Loads
<1>5. CASE ~CmdInFire(i) /\ HeadFire(i)
  <2> DEFINE a == Advanced(h)
  <2>0. Sel = i
    BY <1>5, NotWindow DEF HeadFire, Sel
  <2>1. h.cmd_out_valid /\ c2h.state = "idle"
    BY <1>5, <2>0 DEF HeadFire, Fire, CmdOutReady, c2h_finish
  <2>2. h.working /\ ~h.last /\ ~h.cmd_in_ready /\ ~h.continue /\ ~h.m2h_complete
    BY <1>1, <1>2, <2>1 DEF Flags, HeadType
  <2>3. n = a
    BY <1>5, <2>2 DEF HeadNext
  <2>4. CASE h.next_addr = h.end_addr
    <3>1. a = SentLast(h)
      BY <2>4 DEF Advanced
    <3> DEFINE s == SentLast(h)
    <3>2. /\ s.cpt = h.cpt /\ s.m2h_addr_reg = h.m2h_addr /\ s.length_reg = h.length
          /\ ~s.cmd_in_ready /\ s.working /\ ~s.m2h_complete
          /\ s.last /\ ~s.cmd_out_valid /\ ~s.continue
      BY <1>1, <2>2, SentLastFields
    <3> HIDE DEF s, a, n
    <3>3. n = s
      BY <2>3, <3>1 DEF s
    <3>4. QED
      BY <1>5, <2>1, <2>2, <2>4, <3>2, <3>3, Zenon DEF Sends, n
  <2>5. CASE h.next_addr # h.end_addr
    <3> DEFINE more == Plus(h.next_addr, h.length) < h.end_addr
               s == SentOne(h, more)
    <3>1. a = s
      BY <2>5 DEF Advanced
    <3> HIDE DEF more
    <3>2. /\ s.cpt = h.cpt /\ s.m2h_addr_reg = h.m2h_addr /\ s.length_reg = h.length
          /\ s.cmd_in_ready = h.cmd_in_ready /\ s.working = h.working
          /\ s.m2h_complete = h.m2h_complete
          /\ s.last = h.last /\ s.cmd_out_valid = h.cmd_out_valid /\ s.continue
      BY <1>1, SentOneFields
    <3> HIDE DEF s, n
    <3>3. n = s /\ n = a
      BY <2>3, <3>1
    <3>4. /\ n.cpt = h.cpt /\ n.m2h_addr_reg = h.m2h_addr /\ n.length_reg = h.length
          /\ ~n.cmd_in_ready /\ n.working /\ ~n.m2h_complete
          /\ ~n.last /\ n.cmd_out_valid /\ n.continue
      BY <2>1, <2>2, <3>2, <3>3, Zenon
    <3>5. QED
      BY <1>5, <2>1, <2>2, <2>5, <3>3, <3>4, Zenon DEF Sends, n
  <2>6. QED
    BY <2>4, <2>5
<1>6. CASE ~CmdInFire(i) /\ ~HeadFire(i)
  <2> DEFINE p == IF h.continue THEN [h EXCEPT !.continue = FALSE] ELSE h
             ready == h.last /\ c2h_finish /\ m2h_finish /\ out = i
             r == IF ready THEN [p EXCEPT !.m2h_complete = TRUE] ELSE p
             done == h.last /\ h.m2h_complete /\ cpt.c2h_cpt_complete /\ out = i
  <2>1. n = IF done THEN Finished(r) ELSE r
    BY <1>6 DEF HeadNext
  <2>2. p \in HeadType
    BY <1>1 DEF HeadType
  <2>3. /\ p.cmd_in_ready = h.cmd_in_ready /\ p.working = h.working /\ p.last = h.last
        /\ p.m2h_complete = h.m2h_complete
        /\ p.cmd_out_valid = h.cmd_out_valid /\ ~p.continue /\ SameRegisters(p, h)
    BY <1>1 DEF HeadType, SameRegisters
  <2>4. (h.last => out = i) /\ (ready => h.last /\ c2h_finish /\ m2h_finish)
    BY <1>2 DEF Flags
  <2>5. ready <=> h.last /\ c2h_finish /\ m2h_finish
    BY <2>4
  <2> HIDE DEF p, ready
  <2>6. r \in HeadType
    BY <2>2 DEF HeadType
  <2>7. /\ r.cmd_in_ready = p.cmd_in_ready /\ r.working = p.working /\ r.last = p.last
        /\ r.cmd_out_valid = p.cmd_out_valid /\ r.continue = p.continue
        /\ (r.m2h_complete <=> ready \/ p.m2h_complete) /\ SameRegisters(r, p)
    BY <2>2 DEF HeadType, SameRegisters
  <2> HIDE DEF r, n
  <2>8. CASE done
    <3>1. h.last /\ ~h.cmd_out_valid
      BY <1>1, <1>2, <2>8 DEF Flags, HeadType
    <3>2. n = Finished(r)
      BY <2>1, <2>8
    <3>3. ~r.cmd_out_valid
      BY <2>3, <2>7, <3>1
    <3>4. n.cmd_in_ready /\ ~n.working /\ ~n.last /\ ~n.cmd_out_valid /\ n.continue /\ ~n.m2h_complete
      BY <2>6, <3>2, <3>3, FinishedFlags
    <3>5. QED
      BY <1>6, <2>8, <3>4, Zenon DEF n, Finishes
  <2>9. CASE ~done
    <3>1. n = r
      BY <2>1, <2>9
    <3>2. /\ n.cmd_in_ready <=> h.cmd_in_ready
          /\ n.working <=> h.working
          /\ n.last <=> h.last
          /\ n.cmd_out_valid <=> h.cmd_out_valid
          /\ ~n.continue
      BY <2>3, <2>7, <3>1, Zenon
    <3>3. n.m2h_complete <=> h.m2h_complete \/ (h.last /\ c2h_finish /\ m2h_finish)
      BY <2>3, <2>5, <2>7, <3>1, Zenon
    <3>4. SameRegisters(n, h)
      BY <2>3, <2>7, <3>1, Zenon DEF SameRegisters
    <3>5. ~(h.last /\ h.m2h_complete /\ cpt.c2h_cpt_complete)
      BY <2>4, <2>9, Zenon
    <3>6. QED
      BY <1>6, <3>2, <3>3, <3>4, <3>5, Zenon DEF n, Rests
  <2>10. QED
    BY <2>8, <2>9
<1>7. QED
  BY <1>4, <1>5, <1>6

-----------------------------------------------------------------------------
(* The selection. *)

LEMMA NothingAtZero ==
  ASSUME QTypes, AllFlags, Regular
  PROVE  /\ 0 \in Queues /\ ~head[0].working /\ ~head[0].last
         /\ ~head[0].m2h_complete /\ ~head[0].cmd_out_valid
<1>1. 0 \in Queues /\ Flags(0) /\ 0 \notin UsedQueues
  BY ConstantsAssumption DEF Queues, AllFlags, Regular
<1> QED
  BY <1>1 DEF Flags

LEMMA FireIs ==
  ASSUME QTypes, AllFlags, Regular, Fire
  PROVE  /\ out \in Queues /\ Sel = out /\ HeadFire(out) /\ out \in UsedQueues
         /\ head[out].cmd_out_valid /\ head[out].working /\ ~head[out].last
         /\ ~head[out].continue /\ ~head[out].m2h_complete
         /\ c2h.state = "idle" /\ m2h_finish /\ cpt.c2h_cpt_complete
<1>1. head[Sel].cmd_out_valid /\ c2h.state = "idle" /\ m2h_finish /\ cpt.c2h_cpt_complete
  BY DEF Fire, CmdOutReady, c2h_finish
<1>2. out # Window
  BY <1>1, NothingAtZero DEF Sel
<1>3. out \in Queues /\ Sel = out
  BY <1>2 DEF QTypes, Sel
<1>4. Flags(out)
  BY <1>3 DEF AllFlags
<1> QED
  BY <1>1, <1>3, <1>4 DEF Flags, HeadFire

LEMMA LastIs ==
  ASSUME QTypes, AllFlags, NEW i \in Queues, head[i].last
  PROVE  /\ out = i /\ Sel = i /\ head[i].working /\ ~head[i].continue
         /\ ~head[i].cmd_out_valid
<1>1. Flags(i)
  BY DEF AllFlags
<1> QED
  BY <1>1, NotWindow DEF Flags, Sel

LEMMA ThisLast ==
  ASSUME QTypes, AllFlags, Regular, This.last
  PROVE  out \in Queues /\ Sel = out /\ This = head[out] /\ head[out].last
<1>1. Sel \in Queues
  BY SelType
<1>2. head[Sel].last
  BY DEF This
<1>3. out = Sel
  BY <1>1, <1>2, LastIs
<1> QED
  BY <1>1, <1>2, <1>3 DEF This

(* The selection stays with a head that sends a packet or waits. *)
LEMMA SelectionStays ==
  ASSUME QTypes, AllFlags, Regular, Tick, Fire \/ This.last
  PROVE  out' = out /\ Sel' = Sel
<1>1. out \in Queues /\ Sel = out /\ head[out].working /\ ~head[out].continue
  <2>1. CASE Fire
    BY <2>1, FireIs
  <2>2. CASE This.last
    BY <2>2, ThisLast, LastIs
  <2> QED
    BY <2>1, <2>2
<1>2. out # Window
  BY <1>1, NotWindow
<1>3. Schedule
  BY DEF Tick
<1>4. out' = out
  BY <1>1, <1>2, <1>3 DEF Schedule, Leave
<1> QED
  BY <1>4 DEF Sel

(* The window stays until it is left. *)
LEMMA WindowStays ==
  ASSUME QTypes, Tick
  PROVE  /\ out = Window /\ ~Leave => out' = Window
         /\ out' = Window => out = Window \/ win.cpt_working
         /\ Leave => out' # Window
<1>1. Schedule /\ next # Window
  BY NotWindow DEF Tick, QTypes
<1> QED
  BY <1>1 DEF Schedule, Leave

LEMMA TickHead ==
  ASSUME Tick, NEW i \in Queues
  PROVE  head'[i] = HeadNext(i) /\ fifo'[i] = FifoNext(i)
BY DEF Tick

LEMMA HeadMoves ==
  ASSUME QTypes, AllFlags, Tick, NEW i \in Queues
  PROVE  Loads(i, head'[i]) \/ Sends(i, head'[i]) \/ Finishes(i, head'[i]) \/ Rests(i, head'[i])
<1>1. head'[i] = HeadNext(i)
  BY TickHead
<1> QED
  BY <1>1, HeadCases, Zenon

(* Nothing is posted to a queue that is not used. *)
LEMMA FifoUnused ==
  ASSUME QTypes, Names, NEW i \in Queues, i \notin UsedQueues, fifo[i] = <<>>
  PROVE  FifoNext(i) = <<>>
<1>1. req # <<>> => req[1].q \in UsedQueues
  <2> SUFFICES ASSUME req # <<>> PROVE req[1].q \in UsedQueues
    OBVIOUS
  <2>1. Len(posted) >= 1 /\ req[1].cmd = posted[Len(posted)] /\ req[1].cmd.id.q = req[1].q
    BY DEF Names, ReqNamed
  <2>2. CASE Len(posted) \in Nat
    <3>1. Len(posted) \in 1 .. Len(posted)
      BY <2>1, <2>2
    <3>2. posted[Len(posted)].id.q \in UsedQueues
      BY <3>1 DEF Names, PostedNamed
    <3> QED
      BY <2>1, <3>2
  <2> QED
    BY <2>1, <2>2
<1>2. ~CmdInFire(i)
  BY DEF CmdInFire
<1> QED
  BY <1>1, <1>2 DEF FifoNext

LEMMA EngineBusy ==
  ASSUME ETypes, Tick, Fire
  PROVE  c2h'.state = "send" /\ c2h'.pkt = C2HPacket /\ c2h'.valid = c2h.valid
<1>1. c2h.state = "idle"
  BY DEF Fire, CmdOutReady, c2h_finish
<1> DEFINE p == C2HPacket
<1>2. c2h' = [c2h EXCEPT !.state = "send", !.pkt = p]
  BY <1>1 DEF Tick, C2HStep
<1> HIDE DEF p
<1>3. c2h'.state = "send" /\ c2h'.pkt = p /\ c2h'.valid = c2h.valid
  BY <1>2 DEF ETypes
<1> QED
  BY <1>3 DEF p

LEMMA TickFlags ==
  ASSUME QTypes, ETypes, HTypes, AllFlags, Regular, Names, Tick
  PROVE  AllFlags'
<1> SUFFICES ASSUME NEW i \in Queues PROVE Flags(i)'
  BY DEF AllFlags
<1>1. Flags(i) /\ (head[i].working => i \in UsedQueues) /\ (fifo[i] # <<>> => i \in UsedQueues)
  BY DEF AllFlags, Flags
<1>2. CASE Loads(i, head'[i])
  <2>1. i \in UsedQueues
    BY <1>1, <1>2 DEF Loads, CmdInFire
  <2> QED
    BY <1>2, <2>1, Zenon DEF Loads, Flags
<1>3. CASE Sends(i, head'[i])
  <2>1. Fire /\ out = i /\ head[i].working
    BY <1>3 DEF Sends, HeadFire
  <2>2. out' = i /\ c2h'.state # "idle"
    BY <2>1, SelectionStays, EngineBusy
  <2> QED
    BY <1>1, <1>3, <2>1, <2>2, Zenon DEF Sends, Flags
<1>4. CASE Finishes(i, head'[i])
  <2>1. out = i /\ head[i].last /\ head[i].working
    BY <1>4, LastIs DEF Finishes
  <2>2. out' = i
    <3>1. This.last
      BY <2>1, LastIs DEF This
    <3> QED
      BY <2>1, <3>1, SelectionStays
  <2> QED
    BY <1>1, <1>4, <2>1, <2>2, Zenon DEF Finishes, Flags
<1>5. CASE Rests(i, head'[i])
  <2>1. head[i].last => out' = i
    <3> SUFFICES ASSUME head[i].last PROVE out' = i
      OBVIOUS
    <3>1. out = i /\ This.last
      BY LastIs DEF This
    <3> QED
      BY <3>1, SelectionStays
  <2>2. i \notin UsedQueues => fifo'[i] = <<>>
    <3> SUFFICES ASSUME i \notin UsedQueues PROVE fifo'[i] = <<>>
      OBVIOUS
    <3>1. fifo[i] = <<>>
      BY <1>1
    <3> QED
      BY <3>1, FifoUnused, TickHead
  <2>3. /\ head'[i].cmd_in_ready <=> head[i].cmd_in_ready
        /\ head'[i].working <=> head[i].working
        /\ head'[i].last <=> head[i].last
        /\ head'[i].cmd_out_valid <=> head[i].cmd_out_valid
        /\ head'[i].m2h_complete => head[i].m2h_complete \/ head[i].last
        /\ ~head'[i].continue
    BY <1>5, Zenon DEF Rests
  <2> QED
    BY <1>1, <2>1, <2>2, <2>3, Zenon DEF Flags
<1> QED
  BY <1>2, <1>3, <1>4, <1>5, HeadMoves

-----------------------------------------------------------------------------
(* What a head has sent. *)

LEMMA HistoryIs ==
  ASSUME QTypes, AllFlags, Regular, Tick, NEW i \in Queues
  PROVE  /\ CmdInFire(i) => job'[i] = Head(fifo[i]) /\ sent'[i] = 0
         /\ ~CmdInFire(i) => job'[i] = job[i]
         /\ ~CmdInFire(i) /\ HeadFire(i) => sent'[i] = sent[i] + head[i].length
         /\ ~CmdInFire(i) /\ ~HeadFire(i) => sent'[i] = sent[i]
<1>1. /\ job'[i] = IF CmdInFire(i) THEN Head(fifo[i]) ELSE job[i]
      /\ sent'[i] = IF CmdInFire(i) THEN 0
                    ELSE IF Fire /\ Sel = i THEN sent[i] + head[i].length ELSE sent[i]
  BY DEF Tick, HistoryStep
<1>2. HeadFire(i) <=> Fire /\ Sel = i
  <2>1. HeadFire(i) => Sel = i
    BY NotWindow DEF HeadFire, Sel
  <2>2. Fire => Sel = out
    BY FireIs
  <2> QED
    BY <2>1, <2>2 DEF HeadFire
<1> QED
  BY <1>1, <1>2

LEMMA NextCommand ==
  ASSUME QTypes, HTypes, Names, NEW i \in Queues, CmdInFire(i)
  PROVE  /\ Head(fifo[i]) = fifo[i][1] /\ 1 \in 1 .. Len(fifo[i])
         /\ Own(Head(fifo[i]), i) /\ Sound(Head(fifo[i]))
         /\ job[i].id.n < Head(fifo[i]).id.n
<1> DEFINE c == Head(fifo[i])
<1>1. c = fifo[i][1] /\ Len(fifo[i]) \in Nat /\ Len(fifo[i]) >= 1
  <2>1. fifo[i] \in Seq(Job)
    BY DEF QTypes
  <2> QED
    BY <2>1, CommandWaits
<1>2. 1 \in 1 .. Len(fifo[i])
  BY <1>1
<1>3. Own(c, i) /\ job[i].id.n < c.id.n
  BY <1>1, <1>2, Zenon DEF Names, FifoNamed
<1>4. Sound(c)
  BY <1>3, Zenon DEF Own, Names, PostedNamed
<1> QED
  BY <1>1, <1>2, <1>3, <1>4

LEMMA TickFired ==
  ASSUME QTypes, HTypes, AllFlags, AllFired, Regular, Names, Tick
  PROVE  AllFired'
<1> SUFFICES ASSUME NEW i \in Queues PROVE Fired(i)'
  BY DEF AllFired
<1> DEFINE h == head[i]
           n == head'[i]
           o == sent[i]
<1>1. Fired(i) /\ Flags(i) /\ h \in HeadType /\ o \in Nat /\ job[i] \in Job
  BY DEF AllFired, AllFlags, QTypes, HTypes
<1>2. CASE Loads(i, n)
  <2> DEFINE c == Head(fifo[i])
  <2>1. CmdInFire(i) /\ n.cpt = c.id /\ SameRegisters(n, Loaded(h, c)) /\ ~n.last /\ n.working
    BY <1>2, Zenon DEF Loads
  <2>2. job'[i] = c /\ sent'[i] = 0
    BY <2>1, HistoryIs
  <2>3. Sound(c)
    BY <2>1, NextCommand
  <2> HIDE DEF c, h, n
  <2>4. Carries(n, c, 0)
    <3>1. Carries(Loaded(h, c), c, 0)
      BY <1>1, <2>3, LoadedCarries DEF h
    <3> QED
      BY <2>1, <3>1, SameCarries
  <2>5. 0 = Given(c, 0) /\ 0 \in Nat
    <3>1. c.pkt \in Nat \ {0}
      BY <2>3, ConstantsAssumption DEF Sound, Job
    <3> QED
      BY <3>1, SentStep
  <2> QED
    BY <2>1, <2>2, <2>3, <2>4, <2>5, Zenon DEF Fired, n
<1>3. CASE Sends(i, n)
  <2> DEFINE c == job[i]
             s == Size(c, o)
  <2>1. /\ ~CmdInFire(i) /\ HeadFire(i) /\ h.cmd_out_valid /\ h.working
        /\ n.cpt = h.cpt
    BY <1>3, Zenon DEF Sends
  <2>2. job'[i] = c /\ sent'[i] = o + h.length
    BY <2>1, HistoryIs
  <2>3. Sound(c) /\ h.cpt = c.id /\ Carries(h, c, o) /\ \E k \in Nat : o = Given(c, k)
    BY <1>1, <2>1 DEF Fired
  <2>4. h.length = s /\ (h.next_addr = h.end_addr <=> o + s = c.len)
    <3>1. h.length = s
      BY <2>3 DEF Carries
    <3> QED
      BY <1>1, <2>3, <3>1, EndFound
  <2>5. CASE h.next_addr = h.end_addr
    <3>1. n.last /\ ~n.cmd_out_valid
      BY <1>3, <2>5, Zenon DEF Sends
    <3>2. sent'[i] = c.len
      BY <2>2, <2>4, <2>5
    <3> QED
      BY <2>1, <2>2, <2>3, <3>1, <3>2, Zenon DEF Fired
  <2>6. CASE h.next_addr # h.end_addr
    <3>1. ~n.last /\ n = Advanced(h) /\ n.working
      BY <1>3, <2>6, Zenon DEF Sends
    <3>2. PICK k \in Nat : o = Given(c, k)
      BY <2>3
    <3>3. o + s # c.len
      BY <2>4, <2>6
    <3>4. Carries(Advanced(h), c, o + c.pkt) /\ o + c.pkt = Given(c, k + 1)
      BY <1>1, <2>3, <3>2, <3>3, AdvancedCarries
    <3>5. s = c.pkt
      <4>1. o < c.len
        BY <2>3 DEF Carries
      <4> QED
        BY <1>1, <2>3, <3>3, <4>1, SizeType
    <3>6. sent'[i] = o + c.pkt
      BY <2>2, <2>4, <3>5
    <3>7. k + 1 \in Nat
      OBVIOUS
    <3> HIDE DEF h, n, c, o, s
    <3>8. \E m \in Nat : sent'[i] = Given(c, m)
      BY <3>4, <3>6, <3>7, Zenon
    <3>9. Carries(n, c, sent'[i])
      BY <3>1, <3>4, <3>6, Zenon
    <3> QED
      BY <2>1, <2>2, <2>3, <3>1, <3>8, <3>9, Zenon DEF Fired, n, c
  <2> QED
    BY <2>5, <2>6
<1>4. CASE Finishes(i, n)
  <2>1. ~CmdInFire(i) /\ ~HeadFire(i) /\ h.last /\ ~n.working /\ ~n.cmd_out_valid
    BY <1>4, Zenon DEF Finishes
  <2>2. job'[i] = job[i] /\ sent'[i] = o
    BY <2>1, HistoryIs
  <2> QED
    BY <1>1, <2>1, <2>2, Zenon DEF Fired
<1>5. CASE Rests(i, n)
  <2>1. /\ ~CmdInFire(i) /\ ~HeadFire(i) /\ SameRegisters(n, h)
        /\ n.working <=> h.working
        /\ n.last <=> h.last
        /\ n.cmd_out_valid <=> h.cmd_out_valid
    BY <1>5, Zenon DEF Rests
  <2>2. job'[i] = job[i] /\ sent'[i] = o
    BY <2>1, HistoryIs
  <2>3. n.cpt = h.cpt
    BY <2>1 DEF SameRegisters
  <2>4. h.cmd_out_valid => Carries(n, job[i], o)
    BY <1>1, <2>1, SameCarries DEF Fired
  <2> HIDE DEF h, n, o
  <2> QED
    BY <1>1, <2>1, <2>2, <2>3, <2>4, Zenon DEF Fired, h, n, o
<1> QED
  BY <1>2, <1>3, <1>4, <1>5, HeadMoves, Zenon

LEMMA LengthRight ==
  ASSUME QTypes, HTypes, AllFlags, AllFired
  PROVE  LengthMoved
<1> SUFFICES ASSUME NEW i \in Queues
             PROVE  sent[i] =< job[i].len /\ (head[i].last => sent[i] = job[i].len)
  BY DEF LengthMoved
<1>1. Fired(i) /\ Flags(i) /\ sent[i] \in Nat /\ job[i].len \in Nat
  BY ConstantsAssumption DEF AllFired, AllFlags, HTypes, Job
<1>2. head[i].cmd_out_valid => sent[i] < job[i].len
  BY <1>1 DEF Fired, Carries
<1> QED
  BY <1>1, <1>2 DEF Fired, Flags

(* The packet that is sent. *)
LEMMA PacketSent ==
  ASSUME QTypes, HTypes, AllFlags, AllFired, Regular, Fire
  PROVE  /\ C2HPacket.id = job[out].id /\ C2HPacket.off = sent[out]
         /\ C2HPacket.len = head[out].length
         /\ head[out].length \in 1 .. job[out].len
         /\ sent[out] + head[out].length =< job[out].len
         /\ head[out].m2h_addr = job[out].m2h + sent[out]
         /\ Sound(job[out]) /\ job[out].m2h + job[out].len =< AddrSpace
<1> DEFINE c == job[out]
           o == sent[out]
           h == head[out]
<1>1. out \in Queues /\ Sel = out /\ h.cmd_out_valid /\ h.working
  BY FireIs
<1>2. Sound(c) /\ h.cpt = c.id /\ Carries(h, c, o)
  BY <1>1 DEF AllFired, Fired
<1>3. /\ o \in Nat /\ o < c.len /\ h.m2h_addr = c.m2h + o /\ h.c2h_addr = o
      /\ h.length = Size(c, o)
  BY <1>2 DEF Carries
<1>4. Size(c, o) \in 1 .. c.pkt /\ o + Size(c, o) =< c.len
  BY <1>2, <1>3, SizeType
<1>5. /\ C2HPacket.id = h.cpt /\ C2HPacket.off = h.c2h_addr
      /\ C2HPacket.len = h.length
  BY <1>1 DEF C2HPacket
<1>6. c.m2h + c.len =< AddrSpace /\ c.len \in Nat
  BY <1>2, ConstantsAssumption DEF Sound, Job
<1>7. h.length \in 1 .. c.len
  BY <1>3, <1>4, <1>6
<1> HIDE DEF c, o, h
<1>8. o + h.length =< c.len
  BY <1>3, <1>4
<1> QED
  BY <1>2, <1>3, <1>5, <1>6, <1>7, <1>8 DEF c, o, h

-----------------------------------------------------------------------------
(* The engine and the reader. *)

LEMMA EngineIs ==
  ASSUME ETypes, Tick
  PROVE  \/ /\ c2h.state = "idle" /\ ~Fire /\ c2h' = c2h
         \/ /\ c2h.state = "idle" /\ Fire
            /\ c2h' = [c2h EXCEPT !.state = "send", !.pkt = C2HPacket]
         \/ /\ c2h.state = "send" /\ C2HCmdFire
            /\ c2h' = [c2h EXCEPT !.state = "done", !.valid = FALSE, !.hold = Hold]
         \/ /\ c2h.state = "send" /\ ~C2HCmdFire
            /\ c2h' = [c2h EXCEPT !.valid = TRUE]
         \/ /\ c2h.state = "done" /\ c2h.hold = 0
            /\ c2h' = [c2h EXCEPT !.hold = 15, !.state = "idle"]
         \/ /\ c2h.state = "done" /\ c2h.hold # 0
            /\ c2h' = [c2h EXCEPT !.hold = c2h.hold - 1]
<1>1. C2HStep
  BY DEF Tick
<1>2. CASE c2h.state = "idle"
  BY <1>1, <1>2 DEF C2HStep
<1>3. CASE c2h.state = "send"
  BY <1>1, <1>3 DEF C2HStep
<1>4. CASE c2h.state = "done"
  <2> DEFINE g == c2h.hold
             s == IF g = 0 THEN "idle" ELSE c2h.state
             k == (g + 15) % 16
  <2>1. c2h' = [c2h EXCEPT !.hold = k, !.state = s]
    BY <1>1, <1>4 DEF C2HStep
  <2>2. g \in 0 .. 15
    BY DEF ETypes
  <2>3. k = IF g = 0 THEN 15 ELSE g - 1
    BY <2>2
  <2>4. CASE g = 0
    <3>1. s = "idle" /\ k = 15
      BY <2>3, <2>4
    <3> QED
      BY <1>4, <2>1, <2>4, <3>1
  <2>5. CASE g # 0
    <3>1. s = c2h.state /\ k = g - 1
      BY <2>3, <2>5
    <3> HIDE DEF s, k, g
    <3>2. c2h' = [c2h EXCEPT !.hold = g - 1, !.state = c2h.state]
      BY <2>1, <3>1
    <3>3. [c2h EXCEPT !.hold = g - 1, !.state = c2h.state] = [c2h EXCEPT !.hold = g - 1]
      BY DEF ETypes
    <3> QED
      BY <1>4, <2>5, <3>2, <3>3 DEF g
  <2> QED
    BY <2>4, <2>5
<1> QED
  BY <1>2, <1>3, <1>4 DEF ETypes

(* The same, register by register. *)
EngineMoves(x) ==
  \/ /\ c2h.state = "idle" /\ ~Fire /\ x = c2h
  \/ /\ c2h.state = "idle" /\ Fire
     /\ x.state = "send" /\ x.pkt = C2HPacket /\ x.valid = c2h.valid
  \/ /\ c2h.state = "send" /\ C2HCmdFire
     /\ x.state = "done" /\ ~x.valid /\ x.hold = Hold
  \/ /\ c2h.state = "send" /\ ~C2HCmdFire
     /\ x.state = "send" /\ x.pkt = c2h.pkt
  \/ /\ c2h.state = "done" /\ c2h.hold = 0
     /\ x.state = "idle" /\ x.valid = c2h.valid
  \/ /\ c2h.state = "done" /\ c2h.hold # 0
     /\ x.state = "done" /\ x.hold = c2h.hold - 1 /\ x.valid = c2h.valid

LEMMA EngineFields ==
  ASSUME ETypes, Tick
  PROVE  EngineMoves(c2h')
<1> DEFINE p == C2HPacket
           x == c2h'
<1>1. CASE c2h.state = "idle" /\ ~Fire /\ x = c2h
  BY <1>1 DEF EngineMoves
<1>2. CASE c2h.state = "idle" /\ Fire
  BY <1>2, EngineBusy, Zenon DEF EngineMoves
<1>3. CASE c2h.state = "send" /\ C2HCmdFire
           /\ x = [c2h EXCEPT !.state = "done", !.valid = FALSE, !.hold = Hold]
  <2>1. x.state = "done" /\ ~x.valid /\ x.hold = Hold
    BY <1>3 DEF ETypes
  <2> QED
    BY <1>3, <2>1, Zenon DEF EngineMoves
<1>4. CASE c2h.state = "send" /\ ~C2HCmdFire /\ x = [c2h EXCEPT !.valid = TRUE]
  <2>1. x.state = "send" /\ x.pkt = c2h.pkt
    BY <1>4 DEF ETypes
  <2> QED
    BY <1>4, <2>1, Zenon DEF EngineMoves
<1>5. CASE c2h.state = "done" /\ c2h.hold = 0 /\ x = [c2h EXCEPT !.hold = 15, !.state = "idle"]
  <2>1. x.state = "idle" /\ x.valid = c2h.valid
    BY <1>5 DEF ETypes
  <2> QED
    BY <1>5, <2>1, Zenon DEF EngineMoves
<1>6. CASE c2h.state = "done" /\ c2h.hold # 0 /\ x = [c2h EXCEPT !.hold = c2h.hold - 1]
  <2>1. x.state = "done" /\ x.hold = c2h.hold - 1 /\ x.valid = c2h.valid
    BY <1>6 DEF ETypes
  <2> QED
    BY <1>6, <2>1, Zenon DEF EngineMoves
<1> QED
  BY <1>1, <1>2, <1>3, <1>4, <1>5, <1>6, EngineIs

LEMMA PacketType == QTypes => C2HPacket \in [id : Ids, off : Nat, len : 0 .. AddrSpace]
<1> SUFFICES ASSUME QTypes PROVE C2HPacket \in [id : Ids, off : Nat, len : 0 .. AddrSpace]
  OBVIOUS
<1>1. head[Sel] \in HeadType
  BY SelType DEF This
<1> QED
  BY <1>1 DEF C2HPacket, HeadType

LEMMA RequestType == QTypes => M2HRequest \in [addr : 0 .. AddrSpace - 1, len : 0 .. AddrSpace]
<1> SUFFICES ASSUME QTypes PROVE M2HRequest \in [addr : 0 .. AddrSpace - 1, len : 0 .. AddrSpace]
  OBVIOUS
<1>1. head[Sel] \in HeadType
  BY SelType DEF This
<1> QED
  BY <1>1 DEF M2HRequest, HeadType

LEMMA TickEngineType ==
  ASSUME QTypes, ETypes, Tick
  PROVE  c2h' \in [state : {"idle", "send", "done"}, valid : BOOLEAN, hold : 0 .. 15,
                   pkt : [id : Ids, off : Nat, len : 0 .. AddrSpace]]
<1> DEFINE p == C2HPacket
<1>1. p \in [id : Ids, off : Nat, len : 0 .. AddrSpace]
  BY PacketType
<1>2. Hold \in 0 .. 15
  BY ConstantsAssumption
<1> HIDE DEF p
<1>3. CASE c2h' = c2h
  BY <1>3 DEF ETypes
<1>4. CASE c2h' = [c2h EXCEPT !.state = "send", !.pkt = p]
  BY <1>1, <1>4 DEF ETypes
<1>5. CASE c2h' = [c2h EXCEPT !.state = "done", !.valid = FALSE, !.hold = Hold]
  BY <1>2, <1>5 DEF ETypes
<1>6. CASE c2h' = [c2h EXCEPT !.valid = TRUE]
  BY <1>6 DEF ETypes
<1>7. CASE c2h' = [c2h EXCEPT !.hold = 15, !.state = "idle"]
  <2> DEFINE k == 15
  <2>1. k \in 0 .. 15
    OBVIOUS
  <2> HIDE DEF k
  <2>2. c2h' = [c2h EXCEPT !.hold = k, !.state = "idle"]
    BY <1>7 DEF k
  <2> QED
    BY <2>1, <2>2 DEF ETypes
<1>8. CASE c2h.hold # 0 /\ c2h' = [c2h EXCEPT !.hold = c2h.hold - 1]
  <2> DEFINE k == c2h.hold - 1
  <2>1. k \in 0 .. 15
    BY <1>8 DEF ETypes
  <2> HIDE DEF k
  <2>2. c2h' = [c2h EXCEPT !.hold = k]
    BY <1>8 DEF k
  <2> QED
    BY <2>1, <2>2 DEF ETypes
<1> QED
  BY <1>3, <1>4, <1>5, <1>6, <1>7, <1>8, EngineIs DEF p

(* An edge that finds the engine idle finds no request on its way. *)
LEMMA IdleAlone ==
  ASSUME ETypes, Pace, Tick, c2h.state = "idle"
  PROVE  ~m2h_start /\ request = <<>> /\ ~c2h.valid
<1>1. request # <<>> => age < Lat
  BY DEF Tick
<1>2. request # <<>> => age >= Lat
  BY DEF Pace
<1>3. age \in Nat /\ Lat \in Nat
  BY ConstantsAssumption DEF ETypes
<1>4. request = <<>>
  BY <1>1, <1>2, <1>3
<1> QED
  BY <1>4 DEF Pace

LEMMA ReaderIs ==
  ASSUME Tick
  PROVE  /\ m2h_start' <=> Fire
         /\ m2h_start => request' = <<M2HRequest>>
         /\ ~m2h_start => request' = request
         /\ m2h_start \/ request # <<>> => age' = age + 1
         /\ ~(m2h_start \/ request # <<>>) => age' = 0
         /\ request # <<>> => age < Lat
         /\ m2h_finish' = m2h_finish /\ reading' = reading /\ m2hq' = m2hq
         /\ posted' = posted /\ req' = <<>>
BY DEF Tick, ReaderStep

LEMMA TickPace ==
  ASSUME QTypes, ETypes, AllFlags, Pace, Regular, Tick
  PROVE  Pace'
<1> USE DEF Pace
<1>1. age \in Nat /\ Lat \in Nat /\ Hold \in 0 .. 15 /\ Lat =< Hold + 3 /\ c2h.hold \in 0 .. 15
  BY ConstantsAssumption DEF ETypes, Regular
<1>2. Fire => c2h.state = "idle"
  BY FireIs
<1>3. /\ m2h_start' <=> Fire
      /\ m2h_start => request' = <<M2HRequest>>
      /\ ~m2h_start => request' = request
      /\ m2h_start \/ request # <<>> => age' = age + 1
      /\ ~(m2h_start \/ request # <<>>) => age' = 0
  BY ReaderIs
<1>4. CASE c2h.state = "idle"
  <2>1. ~m2h_start /\ request = <<>> /\ ~c2h.valid
    BY <1>4, IdleAlone
  <2>2. request' = <<>> /\ age' = 0
    BY <1>3, <2>1
  <2>3. \/ ~Fire /\ c2h' = c2h
        \/ Fire /\ c2h'.state = "send" /\ c2h'.valid = c2h.valid
    BY <1>4, EngineFields DEF EngineMoves
  <2>4. CASE ~Fire /\ c2h' = c2h
    BY <1>3, <1>4, <2>1, <2>2, <2>4
  <2>5. CASE Fire /\ c2h'.state = "send" /\ c2h'.valid = c2h.valid
    BY <1>3, <2>1, <2>2, <2>5
  <2> QED
    BY <2>3, <2>4, <2>5
<1>5. CASE c2h.state = "send"
  <2>1. ~m2h_start'
    BY <1>2, <1>3, <1>5
  <2>2. request' # <<>> => age' = age + 1
    BY <1>3
  <2>3. \/ C2HCmdFire /\ c2h'.state = "done" /\ ~c2h'.valid /\ c2h'.hold = Hold
        \/ c2h'.state = "send"
    BY <1>5, EngineFields DEF EngineMoves
  <2>4. CASE c2h'.state = "send"
    BY <1>1, <2>1, <2>2, <2>4
  <2>5. CASE C2HCmdFire /\ c2h'.state = "done" /\ ~c2h'.valid /\ c2h'.hold = Hold
    <3>1. c2h.valid
      BY <2>5 DEF C2HCmdFire
    <3>2. ~m2h_start
      BY <3>1
    <3>3. request' # <<>> => age >= 1
      BY <1>3, <3>2
    <3> QED
      BY <1>1, <2>1, <2>2, <2>5, <3>3
  <2> QED
    BY <2>3, <2>4, <2>5
<1>6. CASE c2h.state = "done"
  <2>1. ~m2h_start /\ ~m2h_start' /\ ~c2h.valid
    BY <1>2, <1>3, <1>6
  <2>2. request' # <<>> => age' = age + 1 /\ age >= 1 /\ age + c2h.hold >= Hold + 2
    BY <1>3, <1>6, <2>1
  <2>3. \/ c2h.hold = 0 /\ c2h'.state = "idle" /\ c2h'.valid = c2h.valid
        \/ /\ c2h.hold # 0 /\ c2h'.state = "done" /\ c2h'.hold = c2h.hold - 1
           /\ c2h'.valid = c2h.valid
    BY <1>6, EngineFields DEF EngineMoves
  <2>4. CASE c2h.hold = 0 /\ c2h'.state = "idle" /\ c2h'.valid = c2h.valid
    BY <1>1, <2>1, <2>2, <2>4
  <2>5. CASE /\ c2h.hold # 0 /\ c2h'.state = "done" /\ c2h'.hold = c2h.hold - 1
             /\ c2h'.valid = c2h.valid
    <3>1. request' # <<>> => age' >= 1 /\ age' + c2h'.hold >= Hold + 2
      <4> SUFFICES ASSUME request' # <<>> PROVE age' >= 1 /\ age' + c2h'.hold >= Hold + 2
        OBVIOUS
      <4>1. age' = age + 1 /\ age >= 1 /\ age + c2h.hold >= Hold + 2
        BY <2>2
      <4>2. c2h'.hold = c2h.hold - 1
        BY <2>5
      <4> DEFINE b == c2h.hold
      <4> HIDE DEF b
      <4>3. age \in Nat /\ b \in 0 .. 15 /\ Hold \in 0 .. 15
        BY <1>1 DEF b
      <4>4. (age + 1) + (b - 1) >= Hold + 2
        BY ONLY <4>1, <4>3 DEF b
      <4> QED
        BY ONLY <4>1, <4>2, <4>3, <4>4 DEF b
    <3>2. c2h'.hold =< Hold
      <4>1. c2h.hold =< Hold
        BY <1>6
      <4> QED
        BY ONLY <1>1, <4>1, <2>5
    <3>3. c2h'.state = "done" /\ c2h'.state # "idle" /\ ~c2h'.valid
      BY <2>1, <2>5
    <3> QED
      BY <2>1, <3>1, <3>2, <3>3, Zenon
  <2> QED
    BY <2>3, <2>4, <2>5
<1> QED
  BY <1>4, <1>5, <1>6 DEF ETypes

(* The reader samples the packet that was sent. *)
LEMMA RequestSent ==
  ASSUME QTypes, AllFlags, Regular, Tick, Fire
  PROVE  M2HRequest' = [addr |-> head[out].m2h_addr, len |-> head[out].length]
<1>1. Sel' = out /\ out \in Queues /\ HeadFire(out)
  BY SelectionStays, FireIs
<1>2. head'[out].m2h_addr_reg = head[out].m2h_addr /\ head'[out].length_reg = head[out].length
  <2>1. Sends(out, head'[out])
    BY <1>1, HeadMoves DEF Loads, Finishes, Rests
  <2> QED
    BY <2>1, Zenon DEF Sends
<1> QED
  BY <1>1, <1>2 DEF M2HRequest

LEMMA TickInRange ==
  ASSUME QTypes, HTypes, AllFlags, AllFired, InRange, Regular, Tick
  PROVE  InRange'
<1>1. m2h_start' => M2HRequest'.addr + M2HRequest'.len =< AddrSpace
  <2> SUFFICES ASSUME m2h_start' PROVE M2HRequest'.addr + M2HRequest'.len =< AddrSpace
    OBVIOUS
  <2>1. Fire
    BY ReaderIs
  <2>2. M2HRequest'.addr = head[out].m2h_addr /\ M2HRequest'.len = head[out].length
    BY <2>1, RequestSent
  <2>3. /\ sent[out] + head[out].length =< job[out].len
        /\ head[out].m2h_addr = job[out].m2h + sent[out]
        /\ job[out].m2h + job[out].len =< AddrSpace
        /\ head[out].length \in 1 .. job[out].len
    BY <2>1, PacketSent
  <2>4. /\ sent[out] \in Nat /\ job[out].m2h \in Nat /\ job[out].len \in Nat
        /\ AddrSpace \in Nat
    <3>1. out \in Queues
      BY <2>1, FireIs
    <3> QED
      BY <3>1, ConstantsAssumption DEF HTypes, Job
  <2> QED
    BY <2>2, <2>3, <2>4
<1>2. request' # <<>> => request'[1].addr + request'[1].len =< AddrSpace
  <2>1. CASE m2h_start
    <3>1. request' = <<M2HRequest>>
      BY <2>1, ReaderIs
    <3>2. request'[1] = M2HRequest
      BY <3>1
    <3> QED
      BY <2>1, <3>2 DEF InRange
  <2>2. CASE ~m2h_start
    <3>1. request' = request
      BY <2>2, ReaderIs
    <3> QED
      BY <3>1 DEF InRange
  <2> QED
    BY <2>1, <2>2
<1> QED
  BY <1>1, <1>2 DEF InRange

-----------------------------------------------------------------------------
(* The port. *)

FlagOf == [id |-> cpt.cpt_addr, off |-> Flag]

(* Nothing passes, a packet's slots do, a flag's slot does, or the flag.     *)
PortRests  == ~C2HCmdFire /\ ~CptCmdFire /\ ~CptDataFire
              /\ slots' = slots /\ host' = host /\ notified' = notified
PortTakes  == UnitIdle /\ C2HCmdFire
              /\ slots' = slots \o SlotsOf(c2h.pkt) /\ host' = host /\ notified' = notified
PortPlaces == UnitBusy /\ Asking /\ CptCmdFire /\ ~CptDataFire
              /\ slots' = <<FlagOf>> /\ host' = host /\ notified' = notified
PortLands  == UnitBusy /\ Placing /\ CptDataFire /\ ~CptCmdFire
              /\ slots' = <<>> /\ Land(FlagOf, FlagBeat)

LEMMA SlotsType ==
  ASSUME NEW p \in [id : Ids, off : Nat, len : 0 .. AddrSpace]
  PROVE  /\ SlotsOf(p) \in Seq(SlotType) /\ Len(SlotsOf(p)) = p.len
         /\ \A k \in 1 .. p.len : SlotsOf(p)[k] = [id |-> p.id, off |-> p.off + k - 1]
<1>1. p.len \in Nat /\ p.off \in Nat /\ p.id \in Ids
  BY ConstantsAssumption
<1>2. \A k \in 1 .. p.len : [id |-> p.id, off |-> p.off + k - 1] \in SlotType
  BY <1>1 DEF SlotType
<1> QED
  BY <1>1, <1>2 DEF SlotsOf

LEMMA PortCases ==
  ASSUME ETypes, STypes, UnitStage, Tick
  PROVE  /\ PortRests \/ PortTakes \/ PortPlaces \/ PortLands
         /\ tmp' = tmp /\ ~data_ready'
<1> DEFINE new == IF CptCmdFire THEN <<FlagOf>>
                  ELSE IF C2HCmdFire THEN SlotsOf(c2h.pkt) ELSE <<>>
           old == IF CptDataFire THEN Tail(slots) ELSE slots
<1>1. /\ slots' = old \o new
      /\ IF CptDataFire THEN Land(Head(slots), FlagBeat) ELSE host' = host /\ notified' = notified
      /\ ~data_ready'
      /\ tmp' = IF CptDataFire /\ ~cpt.cmd_valid THEN <<>> ELSE tmp
  BY DEF Tick, PortStep, FlagOf, memory
<1>2. slots \in Seq(SlotType)
  BY DEF STypes
<1>3. CASE UnitIdle
  <2>1. ~CptCmdFire /\ ~CptDataFire
    BY <1>3 DEF UnitIdle, CptCmdFire, CptDataFire
  <2>2. CASE C2HCmdFire
    BY <1>1, <1>3, <2>1, <2>2 DEF PortTakes
  <2>3. CASE ~C2HCmdFire
    <3>1. slots' = slots \o <<>>
      BY <1>1, <2>1, <2>3
    <3>2. slots \o <<>> = slots
      BY <1>2, ConcatEmptySeq
    <3> QED
      BY <1>1, <2>1, <2>3, <3>1, <3>2 DEF PortRests
  <2> QED
    BY <1>1, <2>1, <2>2, <2>3
<1>4. CASE UnitBusy /\ (Asking \/ Placing \/ Placed)
  <2>1. ~C2HCmdFire /\ tmp = <<>>
    BY <1>4 DEF UnitBusy, Quiet, C2HCmdFire
  <2>2. tmp' = tmp
    BY <1>1, <2>1
  <2>3. data_ready => slots # <<>>
    BY DEF UnitStage
  <2>4. CASE Asking
    <3>1. ~CptDataFire /\ slots = <<>>
      BY <2>3, <2>4 DEF Asking, CptDataFire
    <3>2. CASE CptCmdFire
      <4>1. slots' = <<>> \o <<FlagOf>>
        BY <1>1, <3>1, <3>2
      <4>2. slots' = <<FlagOf>>
        BY <4>1
      <4> QED
        BY <1>1, <1>4, <2>2, <2>4, <3>1, <3>2, <4>2 DEF PortPlaces
    <3>3. CASE ~CptCmdFire
      <4>1. slots' = <<>> \o <<>>
        BY <1>1, <2>1, <3>1, <3>3
      <4>2. slots' = <<>>
        BY <4>1
      <4> QED
        BY <1>1, <2>1, <2>2, <3>1, <3>3, <4>2 DEF PortRests
    <3> QED
      BY <3>2, <3>3
  <2>5. CASE Placing
    <3>1. ~CptCmdFire /\ slots = <<FlagOf>>
      BY <2>5 DEF Placing, CptCmdFire, FlagOf
    <3>2. Head(slots) = FlagOf /\ Tail(slots) = <<>>
      BY <3>1
    <3>3. CASE CptDataFire
      <4>1. slots' = <<>> \o <<>>
        BY <1>1, <2>1, <3>1, <3>2, <3>3
      <4>2. slots' = <<>>
        BY <4>1
      <4> QED
        BY <1>1, <1>4, <2>2, <2>5, <3>1, <3>2, <3>3, <4>2 DEF PortLands
    <3>4. CASE ~CptDataFire
      <4>1. slots' = slots \o <<>>
        BY <1>1, <2>1, <3>1, <3>4
      <4>2. slots' = slots
        BY <1>2, <4>1, ConcatEmptySeq
      <4> QED
        BY <1>1, <2>1, <2>2, <3>1, <3>4, <4>2 DEF PortRests
    <3> QED
      BY <3>3, <3>4
  <2>6. CASE Placed
    <3>1. ~CptCmdFire /\ ~CptDataFire /\ slots = <<>>
      BY <2>6 DEF Placed, CptCmdFire, CptDataFire
    <3>2. slots' = slots \o <<>>
      BY <1>1, <2>1, <3>1
    <3>3. slots' = slots
      BY <1>2, <3>2, ConcatEmptySeq
    <3> QED
      BY <1>1, <2>1, <2>2, <3>1, <3>3 DEF PortRests
  <2> QED
    BY <1>4, <2>4, <2>5, <2>6
<1> QED
  BY <1>1, <1>3, <1>4 DEF UnitStage

(* Beats stay in the host's memory: a beat is written over only by one for   *)
(* the same slot.                                                            *)
LEMMA LandKeeps ==
  ASSUME NEW s, NEW b, Land(s, b), NEW w, w \in host,
         (w.id = s.id /\ w.off = s.off) => w = [id |-> s.id, off |-> s.off, beat |-> b]
  PROVE  w \in host'
BY DEF Land

LEMMA LandType ==
  ASSUME HTypes, NEW s \in SlotType, NEW b \in 0 .. FlagBeat, Land(s, b)
  PROVE  /\ host' \in SUBSET [id : Ids, off : Nat, beat : 0 .. FlagBeat]
         /\ notified' \in Seq(Ids)
         /\ s.off = Flag => notified' = Append(notified, s.id)
         /\ s.off # Flag => notified' = notified
<1>1. s.id \in Ids /\ s.off \in Nat
  BY DEF SlotType
<1>2. host' = {w \in host : w.id # s.id \/ w.off # s.off}
               \union {[id |-> s.id, off |-> s.off, beat |-> b]}
  BY DEF Land
<1>3. host' \in SUBSET [id : Ids, off : Nat, beat : 0 .. FlagBeat]
  BY <1>1, <1>2 DEF HTypes
<1>4. notified' = IF s.off = Flag THEN Append(notified, s.id) ELSE notified
  BY DEF Land
<1> QED
  BY <1>1, <1>3, <1>4 DEF HTypes

-----------------------------------------------------------------------------
(* Types after an edge. *)

LEMMA HeadNextType ==
  ASSUME QTypes, NEW i \in Queues
  PROVE  HeadNext(i) \in HeadType
<1> DEFINE h == head[i]
           loaded == IF CmdInFire(i) THEN Loaded(h, Head(fifo[i])) ELSE h
           fired  == IF HeadFire(i) THEN Advanced(loaded) ELSE loaded
           pulsed == IF h.continue THEN [fired EXCEPT !.continue = FALSE] ELSE fired
           raised == IF h.last /\ c2h_finish /\ m2h_finish /\ out = i
                     THEN [pulsed EXCEPT !.m2h_complete = TRUE] ELSE pulsed
<1>1. h \in HeadType
  BY DEF QTypes
<1>2. CmdInFire(i) => Head(fifo[i]) \in Job
  <2>1. fifo[i] \in Seq(Job)
    BY DEF QTypes
  <2>2. QED
    BY <2>1, HeadTail DEF CmdInFire
<1>3. loaded \in HeadType
  BY <1>1, <1>2, LoadedType
<1>4. fired \in HeadType
  <2> HIDE DEF loaded
  <2> QED BY <1>3, AdvancedType
<1>5. pulsed \in HeadType
  <2> HIDE DEF fired
  <2> QED BY <1>4 DEF HeadType
<1>6. raised \in HeadType
  <2> HIDE DEF pulsed
  <2> QED BY <1>5 DEF HeadType
<1>7. HeadNext(i) = IF h.last /\ h.m2h_complete /\ cpt.c2h_cpt_complete /\ out = i
                    THEN Finished(raised) ELSE raised
  BY DEF HeadNext
<1>8. Finished(raised) \in HeadType
  <2> HIDE DEF raised
  <2> QED BY <1>6 DEF HeadType, Finished
<1>9. QED
  <2> HIDE DEF raised, h
  <2> QED BY <1>6, <1>7, <1>8

LEMMA FifoNextType ==
  ASSUME QTypes, NEW i \in Queues
  PROVE  FifoNext(i) \in Seq(Job) /\ Len(FifoNext(i)) =< QDepth
<1> DEFINE left == IF CmdInFire(i) THEN Tail(fifo[i]) ELSE fifo[i]
<1>1. fifo[i] \in Seq(Job) /\ Len(fifo[i]) =< QDepth
  BY DEF QTypes
<1>2. left \in Seq(Job) /\ Len(left) =< Len(fifo[i])
  <2>1. CASE CmdInFire(i)
    <3>1. fifo[i] # <<>>
      BY <2>1 DEF CmdInFire
    <3>2. QED
      BY <1>1, <2>1, <3>1, HeadTail
  <2>2. CASE ~CmdInFire(i)
    BY <1>1, <2>2
  <2>3. QED
    BY <2>1, <2>2
<1>3. req # <<>> => req[1].cmd \in Job
  <2>1. req \in Seq([q : Queues, cmd : Job])
    BY DEF QTypes
  <2>2. req # <<>> => req[1] \in [q : Queues, cmd : Job]
    BY <2>1, HeadTail
  <2>3. QED
    BY <2>2
<1>4. FifoNext(i) = IF req # <<>> /\ req[1].q = i /\ Len(fifo[i]) < QDepth
                    THEN Append(left, req[1].cmd) ELSE left
  BY DEF FifoNext
<1> HIDE DEF left
<1>5. CASE req # <<>> /\ req[1].q = i /\ Len(fifo[i]) < QDepth
  <2> DEFINE c == req[1].cmd
  <2>1. c \in Job /\ FifoNext(i) = Append(left, c)
    BY <1>3, <1>4, <1>5
  <2>2. Len(left) < QDepth
    BY <1>1, <1>2, <1>5, ConstantsAssumption
  <2> HIDE DEF c
  <2>3. QED
    BY <1>2, <2>1, <2>2, ConstantsAssumption
<1>6. CASE ~(req # <<>> /\ req[1].q = i /\ Len(fifo[i]) < QDepth)
  BY <1>1, <1>2, <1>4, <1>6, ConstantsAssumption
<1>7. QED
  BY <1>5, <1>6

UnitIn ==
  [h2c_start    |-> h2d.last /\ ~was.h2d_last,
   h2c_addr     |-> H2DId(h2d.n),
   h2c_complete |-> win.h2m_complete,
   c2h_start    |-> head[Sel].last /\ ~was.d2h_last,
   c2h_addr     |-> head[Sel].cpt,
   c2h_complete |-> head[Sel].m2h_complete,
   p2p_complete |-> FALSE,
   p2p_addr     |-> NoId,
   cmd_ready    |-> cmd_ready,
   data_ready   |-> data_ready]

InputsTyped(in) ==
  /\ in.h2c_start \in BOOLEAN /\ in.c2h_start \in BOOLEAN
  /\ in.h2c_complete \in BOOLEAN /\ in.c2h_complete \in BOOLEAN /\ in.p2p_complete \in BOOLEAN
  /\ in.h2c_addr \in Ids /\ in.c2h_addr \in Ids /\ in.p2p_addr \in Ids
  /\ in.cmd_ready \in BOOLEAN /\ in.data_ready \in BOOLEAN

LEMMA UnitStepTyped ==
  ASSUME NEW c \in UnitType, NEW in, InputsTyped(in)
  PROVE  UnitStep(c, in) \in UnitType
<1>1. /\ c.h2c_cpt_complete \in BOOLEAN /\ c.c2h_cpt_complete \in BOOLEAN
      /\ c.p2p_cpt_complete \in BOOLEAN
      /\ c.h2c_cpt_addr \in Ids /\ c.c2h_cpt_addr \in Ids /\ c.cpt_addr \in Ids
      /\ c.cmd_valid \in BOOLEAN /\ c.data_valid \in BOOLEAN
      /\ c.cmd_fire \in BOOLEAN /\ c.data_fire \in BOOLEAN
      /\ c.h2c_started \in BOOLEAN /\ c.c2h_started \in BOOLEAN /\ c.p2p_started \in BOOLEAN
  BY DEF UnitType
<1> DEFINE e1 == in.h2c_complete
           e2 == in.c2h_complete
           e3 == IF in.h2c_start THEN in.h2c_addr ELSE c.h2c_cpt_addr
           e4 == IF in.c2h_start THEN in.c2h_addr ELSE c.c2h_cpt_addr
           e5 == Told(c, c.h2c_started, c.h2c_cpt_complete, in.h2c_start)
           e6 == Told(c, c.c2h_started, c.c2h_cpt_complete, in.c2h_start)
           e7 == Told(c, c.p2p_started, c.p2p_cpt_complete, c.p2p_cpt_complete)
           e8 == Started(c, c.h2c_started, H2cGo(c, in))
           e9 == Started(c, c.c2h_started, C2hGo(c, in))
           e10 == Started(c, c.p2p_started, in.p2p_complete)
           e11 == (c.cmd_valid \/ Go(c, in)) /\ ~CmdFire(c, in)
           e12 == (c.data_valid \/ Go(c, in)) /\ ~DataFire(c, in)
           e13 == (c.cmd_fire \/ CmdFire(c, in)) /\ ~Written(c)
           e14 == (c.data_fire \/ DataFire(c, in)) /\ ~Written(c)
           e15 == IF C2hGo(c, in) THEN c.c2h_cpt_addr
                  ELSE IF H2cGo(c, in) THEN c.h2c_cpt_addr
                  ELSE IF in.p2p_complete THEN in.p2p_addr ELSE c.cpt_addr
<1>2. e3 \in Ids /\ e4 \in Ids /\ e15 \in Ids
  <2>1. e3 \in Ids
    BY <1>1 DEF InputsTyped
  <2>2. e4 \in Ids
    BY <1>1 DEF InputsTyped
  <2>3. e15 \in Ids
    BY <1>1, Zenon DEF InputsTyped
  <2> QED
    BY <2>1, <2>2, <2>3
<1>3. e1 \in BOOLEAN /\ e2 \in BOOLEAN /\ e5 \in BOOLEAN /\ e6 \in BOOLEAN /\ e7 \in BOOLEAN
  BY <1>1 DEF Told, Written, InputsTyped
<1>4. e8 \in BOOLEAN /\ e9 \in BOOLEAN /\ e10 \in BOOLEAN
  BY <1>1 DEF Started, Written, H2cGo, C2hGo, InputsTyped
<1>5. e11 \in BOOLEAN /\ e12 \in BOOLEAN /\ e13 \in BOOLEAN /\ e14 \in BOOLEAN
  BY <1>1 DEF Go, H2cGo, C2hGo, CmdFire, DataFire, Written, InputsTyped
<1>6. UnitStep(c, in) =
        [c EXCEPT !.h2c_was = e1, !.c2h_was = e2, !.h2c_cpt_addr = e3, !.c2h_cpt_addr = e4,
                  !.h2c_cpt_complete = e5, !.c2h_cpt_complete = e6, !.p2p_cpt_complete = e7, !.h2c_started = e8,
                  !.c2h_started = e9, !.p2p_started = e10, !.cmd_valid = e11, !.data_valid = e12,
                  !.cmd_fire = e13, !.data_fire = e14,
                  !.cpt_addr = e15]
  BY Zenon DEF UnitStep
<1> HIDE DEF e1, e2, e3, e4, e5, e6, e7, e8, e9, e10, e11, e12, e13, e14, e15
<1> DEFINE c1 == [c EXCEPT !.h2c_was = e1, !.c2h_was = e2, !.h2c_cpt_addr = e3]
           c2 == [c1 EXCEPT !.c2h_cpt_addr = e4, !.h2c_cpt_complete = e5, !.c2h_cpt_complete = e6]
           c3 == [c2 EXCEPT !.p2p_cpt_complete = e7, !.h2c_started = e8, !.c2h_started = e9]
           c4 == [c3 EXCEPT !.p2p_started = e10, !.cmd_valid = e11, !.data_valid = e12]
           c5 == [c4 EXCEPT !.cmd_fire = e13, !.data_fire = e14, !.cpt_addr = e15]
<1>7. UnitStep(c, in) = c5
  BY <1>6, Zenon
<1>8. c1 \in UnitType
  BY <1>2, <1>3 DEF UnitType
<1>9. c2 \in UnitType
  <2> HIDE DEF c1
  <2> QED
    BY <1>2, <1>3, <1>8 DEF UnitType
<1>10. c3 \in UnitType
  <2> HIDE DEF c2
  <2> QED
    BY <1>3, <1>4, <1>9 DEF UnitType
<1>11. c4 \in UnitType
  <2> HIDE DEF c3
  <2> QED
    BY <1>4, <1>5, <1>10 DEF UnitType
<1>12. c5 \in UnitType
  <2> HIDE DEF c4
  <2> QED
    BY <1>2, <1>5, <1>11 DEF UnitType
<1> QED
  BY <1>7, <1>12, Zenon

LEMMA UnitStepIs ==
  ASSUME NEW c \in UnitType, NEW in
  PROVE  /\ UnitStep(c, in).h2c_was = in.h2c_complete
         /\ UnitStep(c, in).c2h_was = in.c2h_complete
         /\ UnitStep(c, in).h2c_cpt_addr = IF in.h2c_start THEN in.h2c_addr ELSE c.h2c_cpt_addr
         /\ UnitStep(c, in).c2h_cpt_addr = IF in.c2h_start THEN in.c2h_addr ELSE c.c2h_cpt_addr
         /\ UnitStep(c, in).h2c_cpt_complete = Told(c, c.h2c_started, c.h2c_cpt_complete, in.h2c_start)
         /\ UnitStep(c, in).c2h_cpt_complete = Told(c, c.c2h_started, c.c2h_cpt_complete, in.c2h_start)
         /\ UnitStep(c, in).h2c_started = Started(c, c.h2c_started, H2cGo(c, in))
         /\ UnitStep(c, in).c2h_started = Started(c, c.c2h_started, C2hGo(c, in))
         /\ UnitStep(c, in).p2p_started = Started(c, c.p2p_started, in.p2p_complete)
         /\ UnitStep(c, in).cmd_valid = ((c.cmd_valid \/ Go(c, in)) /\ ~CmdFire(c, in))
         /\ UnitStep(c, in).data_valid = ((c.data_valid \/ Go(c, in)) /\ ~DataFire(c, in))
         /\ UnitStep(c, in).cmd_fire = ((c.cmd_fire \/ CmdFire(c, in)) /\ ~Written(c))
         /\ UnitStep(c, in).data_fire = ((c.data_fire \/ DataFire(c, in)) /\ ~Written(c))
         /\ UnitStep(c, in).cpt_addr = IF C2hGo(c, in) THEN c.c2h_cpt_addr
                                       ELSE IF H2cGo(c, in) THEN c.h2c_cpt_addr
                                       ELSE IF in.p2p_complete THEN in.p2p_addr ELSE c.cpt_addr
BY Zenon DEF UnitStep, UnitType

(* The unit's registers after an edge, input by input. *)
HStart == h2d.last /\ ~was.h2d_last
DStart == This.last /\ ~was.d2h_last
HGo    == win.h2m_complete /\ ~cpt.h2c_was
DGo    == This.m2h_complete /\ ~cpt.c2h_was

UnitMoves(c) ==
  /\ c.h2c_was <=> win.h2m_complete
  /\ c.c2h_was <=> This.m2h_complete
  /\ HStart => c.h2c_cpt_addr = H2DId(h2d.n)
  /\ ~HStart => c.h2c_cpt_addr = cpt.h2c_cpt_addr
  /\ DStart => c.c2h_cpt_addr = This.cpt
  /\ ~DStart => c.c2h_cpt_addr = cpt.c2h_cpt_addr
  /\ c.h2c_cpt_complete <=> (Written(cpt) /\ cpt.h2c_started) \/ (cpt.h2c_cpt_complete /\ ~HStart)
  /\ c.c2h_cpt_complete <=> (Written(cpt) /\ cpt.c2h_started) \/ (cpt.c2h_cpt_complete /\ ~DStart)
  /\ c.h2c_started <=> (cpt.h2c_started /\ ~Written(cpt)) \/ (~cpt.h2c_started /\ HGo)
  /\ c.c2h_started <=> (cpt.c2h_started /\ ~Written(cpt)) \/ (~cpt.c2h_started /\ DGo)
  /\ ~cpt.p2p_started => ~c.p2p_started
  /\ c.cmd_valid <=> (cpt.cmd_valid \/ HGo \/ DGo) /\ ~CptCmdFire
  /\ c.data_valid <=> (cpt.data_valid \/ HGo \/ DGo) /\ ~CptDataFire
  /\ c.cmd_fire <=> (cpt.cmd_fire \/ CptCmdFire) /\ ~Written(cpt)
  /\ c.data_fire <=> (cpt.data_fire \/ CptDataFire) /\ ~Written(cpt)
  /\ DGo => c.cpt_addr = cpt.c2h_cpt_addr
  /\ HGo /\ ~DGo => c.cpt_addr = cpt.h2c_cpt_addr
  /\ ~HGo /\ ~DGo => c.cpt_addr = cpt.cpt_addr

LEMMA HIdType ==
  ASSUME CTypes
  PROVE  H2DId(h2d.n) \in Ids /\ NoId \in Ids
<1>1. h2d.n \in 0 .. MaxH2D /\ MaxH2D \in Nat /\ MaxPosts \in Nat /\ NumQ \in Nat
  BY ConstantsAssumption DEF CTypes, Window
<1> QED
  BY <1>1 DEF H2DId, Ids, NoId

LEMMA InputsAre ==
  ASSUME QTypes, ETypes, STypes, CTypes
  PROVE  InputsTyped(UnitIn)
<1>1. /\ h2d.last \in BOOLEAN /\ was.h2d_last \in BOOLEAN /\ was.d2h_last \in BOOLEAN
      /\ win.h2m_complete \in BOOLEAN /\ cmd_ready \in BOOLEAN /\ data_ready \in BOOLEAN
  BY DEF CTypes, ETypes, STypes
<1>2. head[Sel] \in HeadType
  BY SelType DEF This
<1>3. head[Sel].last \in BOOLEAN /\ head[Sel].m2h_complete \in BOOLEAN /\ head[Sel].cpt \in Ids
  BY <1>2 DEF HeadType
<1> DEFINE in == UnitIn
<1>4. /\ in.h2c_start \in BOOLEAN /\ in.c2h_start \in BOOLEAN
      /\ in.h2c_complete = win.h2m_complete /\ in.c2h_complete = head[Sel].m2h_complete
      /\ in.p2p_complete \in BOOLEAN
      /\ in.h2c_addr = H2DId(h2d.n) /\ in.c2h_addr = head[Sel].cpt /\ in.p2p_addr = NoId
      /\ in.cmd_ready = cmd_ready /\ in.data_ready = data_ready
  BY DEF UnitIn
<1> HIDE DEF in
<1> QED
  BY <1>1, <1>3, <1>4, HIdType DEF InputsTyped, in

LEMMA UnitFacts ==
  ASSUME QTypes, ETypes, STypes, CTypes, Tick
  PROVE  cpt' \in UnitType /\ UnitMoves(cpt')
<1> DEFINE in == UnitIn
           c == cpt'
<1>1. cpt' = UnitStep(cpt, in)
  BY Zenon DEF Tick, CompletionStep, UnitIn
<1>2. cpt \in UnitType
  BY DEF CTypes
<1>3. InputsTyped(in)
  BY InputsAre
<1>4. cpt' \in UnitType
  BY <1>1, <1>2, <1>3, UnitStepTyped
<1>5. /\ in.h2c_start <=> HStart
      /\ in.c2h_start <=> DStart
      /\ in.h2c_complete = win.h2m_complete /\ in.c2h_complete = This.m2h_complete
      /\ ~in.p2p_complete
      /\ in.h2c_addr = H2DId(h2d.n) /\ in.c2h_addr = This.cpt
      /\ in.cmd_ready = cmd_ready /\ in.data_ready = data_ready
  BY Zenon DEF UnitIn, HStart, DStart, This
<1> HIDE DEF in
<1>6. /\ c.h2c_was = in.h2c_complete
      /\ c.c2h_was = in.c2h_complete
      /\ c.h2c_cpt_addr = IF in.h2c_start THEN in.h2c_addr ELSE cpt.h2c_cpt_addr
      /\ c.c2h_cpt_addr = IF in.c2h_start THEN in.c2h_addr ELSE cpt.c2h_cpt_addr
      /\ c.h2c_cpt_complete = Told(cpt, cpt.h2c_started, cpt.h2c_cpt_complete, in.h2c_start)
      /\ c.c2h_cpt_complete = Told(cpt, cpt.c2h_started, cpt.c2h_cpt_complete, in.c2h_start)
      /\ c.h2c_started = Started(cpt, cpt.h2c_started, H2cGo(cpt, in))
      /\ c.c2h_started = Started(cpt, cpt.c2h_started, C2hGo(cpt, in))
      /\ c.p2p_started = Started(cpt, cpt.p2p_started, in.p2p_complete)
      /\ c.cmd_valid = ((cpt.cmd_valid \/ Go(cpt, in)) /\ ~CmdFire(cpt, in))
      /\ c.data_valid = ((cpt.data_valid \/ Go(cpt, in)) /\ ~DataFire(cpt, in))
      /\ c.cmd_fire = ((cpt.cmd_fire \/ CmdFire(cpt, in)) /\ ~Written(cpt))
      /\ c.data_fire = ((cpt.data_fire \/ DataFire(cpt, in)) /\ ~Written(cpt))
      /\ c.cpt_addr = IF C2hGo(cpt, in) THEN cpt.c2h_cpt_addr
                      ELSE IF H2cGo(cpt, in) THEN cpt.h2c_cpt_addr
                      ELSE IF in.p2p_complete THEN in.p2p_addr ELSE cpt.cpt_addr
  BY <1>1, <1>2, UnitStepIs, Zenon
<1>7. /\ H2cGo(cpt, in) <=> HGo
      /\ C2hGo(cpt, in) <=> DGo
      /\ Go(cpt, in) <=> HGo \/ DGo
      /\ CmdFire(cpt, in) <=> CptCmdFire
      /\ DataFire(cpt, in) <=> CptDataFire
  BY <1>5, Zenon DEF H2cGo, C2hGo, Go, HGo, DGo, CmdFire, DataFire, CptCmdFire, CptDataFire
<1> HIDE DEF c
<1>8. /\ c.h2c_was <=> win.h2m_complete
      /\ c.c2h_was <=> This.m2h_complete
      /\ HStart => c.h2c_cpt_addr = H2DId(h2d.n)
      /\ ~HStart => c.h2c_cpt_addr = cpt.h2c_cpt_addr
      /\ DStart => c.c2h_cpt_addr = This.cpt
      /\ ~DStart => c.c2h_cpt_addr = cpt.c2h_cpt_addr
  BY <1>5, <1>6, Zenon
<1>9. /\ c.h2c_cpt_complete <=> (Written(cpt) /\ cpt.h2c_started) \/ (cpt.h2c_cpt_complete /\ ~HStart)
      /\ c.c2h_cpt_complete <=> (Written(cpt) /\ cpt.c2h_started) \/ (cpt.c2h_cpt_complete /\ ~DStart)
  BY <1>5, <1>6, Zenon DEF Told
<1>10. /\ c.h2c_started <=> (cpt.h2c_started /\ ~Written(cpt)) \/ (~cpt.h2c_started /\ HGo)
       /\ c.c2h_started <=> (cpt.c2h_started /\ ~Written(cpt)) \/ (~cpt.c2h_started /\ DGo)
       /\ ~cpt.p2p_started => ~c.p2p_started
  BY <1>5, <1>6, <1>7, Zenon DEF Started
<1>11. /\ c.cmd_valid <=> (cpt.cmd_valid \/ HGo \/ DGo) /\ ~CptCmdFire
       /\ c.data_valid <=> (cpt.data_valid \/ HGo \/ DGo) /\ ~CptDataFire
       /\ c.cmd_fire <=> (cpt.cmd_fire \/ CptCmdFire) /\ ~Written(cpt)
       /\ c.data_fire <=> (cpt.data_fire \/ CptDataFire) /\ ~Written(cpt)
  BY <1>6, <1>7, Zenon
<1>12. /\ DGo => c.cpt_addr = cpt.c2h_cpt_addr
       /\ HGo /\ ~DGo => c.cpt_addr = cpt.h2c_cpt_addr
       /\ ~HGo /\ ~DGo => c.cpt_addr = cpt.cpt_addr
  BY <1>5, <1>6, <1>7, Zenon
<1> QED
  BY <1>4, <1>8, <1>9, <1>10, <1>11, <1>12, Zenon DEF UnitMoves, c

-----------------------------------------------------------------------------
(* The stages of a completion. *)

(* The selected head sends, finishes, waits, or does not wait.               *)
ThisMoves ==
  \/ /\ Fire /\ out' = out /\ Sel' = Sel /\ out # Window
     /\ ~This.last /\ ~This.m2h_complete /\ This.working
     /\ This'.cpt = This.cpt /\ ~This'.m2h_complete
  \/ /\ ~Fire /\ out' = out /\ Sel' = Sel /\ out # Window
     /\ This.last /\ This.m2h_complete /\ cpt.c2h_cpt_complete
     /\ ~This'.last /\ ~This'.working /\ This'.continue
  \/ /\ ~Fire /\ out' = out /\ Sel' = Sel /\ out # Window
     /\ This.last /\ ~(This.m2h_complete /\ cpt.c2h_cpt_complete)
     /\ This'.last /\ This'.cpt = This.cpt
     /\ This'.m2h_complete <=> This.m2h_complete \/ (c2h_finish /\ m2h_finish)
  \/ ~Fire /\ ~This.last /\ ~This'.last /\ ~This.m2h_complete

LEMMA ThisCases ==
  ASSUME QTypes, AllFlags, Regular, Tick, QTypes', AllFlags'
  PROVE  ThisMoves
<1>1. CASE Fire
  <2>1. /\ out \in Queues /\ Sel = out /\ HeadFire(out)
        /\ ~head[out].last /\ ~head[out].m2h_complete /\ head[out].working
    BY <1>1, FireIs
  <2>2. out' = out /\ Sel' = Sel /\ out # Window
    BY <1>1, <2>1, SelectionStays, NotWindow
  <2>3. Sends(out, head'[out])
    BY <2>1, HeadMoves DEF Loads, Finishes, Rests
  <2>4. head'[out].cpt = head[out].cpt /\ ~head'[out].m2h_complete
    BY <2>3, Zenon DEF Sends
  <2> QED
    BY <1>1, <2>1, <2>2, <2>4 DEF ThisMoves, This
<1>2. CASE ~Fire /\ This.last
  <2>1. out \in Queues /\ Sel = out /\ This = head[out]
    BY <1>2, ThisLast
  <2>2. out' = out /\ Sel' = Sel /\ out # Window
    BY <1>2, <2>1, SelectionStays, NotWindow
  <2>3. This' = head'[out]
    BY <2>1, <2>2 DEF This
  <2>4. Finishes(out, head'[out]) \/ Rests(out, head'[out])
    <3>1. ~Loads(out, head'[out])
      BY <1>2, <2>1, LastIs DEF Loads
    <3>2. ~Sends(out, head'[out])
      BY <1>2 DEF Sends, HeadFire
    <3> QED
      BY <2>1, <3>1, <3>2, HeadMoves, Zenon
  <2>5. CASE Finishes(out, head'[out])
    <3>1. /\ head[out].m2h_complete /\ cpt.c2h_cpt_complete
          /\ ~head'[out].last /\ ~head'[out].working /\ head'[out].continue
      BY <2>5, Zenon DEF Finishes
    <3> QED
      BY <1>2, <2>1, <2>2, <2>3, <3>1, Zenon DEF ThisMoves
  <2>6. CASE Rests(out, head'[out])
    <3>1. /\ ~(head[out].last /\ head[out].m2h_complete /\ cpt.c2h_cpt_complete)
          /\ head'[out].last <=> head[out].last
          /\ head'[out].cpt = head[out].cpt
          /\ head'[out].m2h_complete
               <=> head[out].m2h_complete \/ (head[out].last /\ c2h_finish /\ m2h_finish)
      BY <2>6, Zenon DEF Rests, SameRegisters
    <3> QED
      BY <1>2, <2>1, <2>2, <2>3, <3>1, Zenon DEF ThisMoves
  <2> QED
    BY <2>4, <2>5, <2>6
<1>3. CASE ~Fire /\ ~This.last
  <2> DEFINE j == Sel'
  <2>1. j \in Queues
    <3>1. 0 \in Queues
      BY SelType
    <3> QED
      BY <3>1 DEF QTypes, Sel
  <2>2. ~This.m2h_complete
    <3>1. Sel \in Queues
      BY SelType
    <3>2. Flags(Sel)
      BY <3>1 DEF AllFlags
    <3> QED
      BY <1>3, <3>2 DEF Flags, This
  <2>3. ~head'[j].last
    <3> SUFFICES ASSUME head'[j].last PROVE FALSE
      OBVIOUS
    <3> HIDE DEF j
    <3>1. head[j].last
      <4>1. ~Loads(j, head'[j]) /\ ~Finishes(j, head'[j])
        BY Zenon DEF Loads, Finishes
      <4>2. ~Sends(j, head'[j])
        BY <1>3, Zenon DEF Sends, HeadFire
      <4>3. Rests(j, head'[j])
        BY <2>1, <4>1, <4>2, HeadMoves, Zenon
      <4> QED
        BY <4>3, Zenon DEF Rests
    <3>2. Sel = j
      BY <2>1, <3>1, LastIs
    <3> QED
      BY <1>3, <3>1, <3>2 DEF This
  <2>4. This' = head'[j]
    BY DEF This
  <2> QED
    BY <1>3, <2>2, <2>3, <2>4, Zenon DEF ThisMoves
<1> QED
  BY <1>1, <1>2, <1>3

LEMMA QuietMade ==
  ASSUME ETypes, Pace, Tick, tmp' = tmp, ~Fire, c2h.state = "idle",
         reading = <<>>, m2hq = <<>>, tmp = <<>>
  PROVE  Quiet'
<1>1. ~m2h_start /\ request = <<>>
  BY IdleAlone
<1>2. ~m2h_start' /\ request' = <<>> /\ reading' = <<>> /\ m2hq' = <<>>
  BY <1>1, ReaderIs
<1>3. c2h' = c2h
  BY EngineFields DEF EngineMoves
<1> QED
  BY <1>2, <1>3 DEF Quiet

(* What is known of a state for its stages. *)
Staged == /\ QTypes /\ ETypes /\ STypes /\ CTypes /\ AllFlags /\ Pace /\ Regular
          /\ UnitStage /\ HStage /\ DStage

(* A request to the unit is of one path only, while the unit is idle.        *)
LEMMA OneGoes ==
  ASSUME Staged
  PROVE  /\ DGo => D3 /\ ~cpt.h2c_started /\ ~HGo /\ out # Window
         /\ HGo => H4 /\ ~cpt.c2h_started /\ D0
         /\ out = Window => D0
         /\ Open => D0
         /\ ~(cpt.h2c_started /\ cpt.c2h_started)
         /\ This.last => out # Window
<1>1. This.last => out # Window
  <2> SUFFICES ASSUME This.last PROVE out # Window
    OBVIOUS
  <2>1. out \in Queues
    BY ThisLast DEF Staged
  <2> QED
    BY <2>1, NotWindow
<1>2. This.m2h_complete => This.last
  <2>1. Sel \in Queues
    BY SelType DEF Staged
  <2> QED
    BY <2>1 DEF Staged, AllFlags, Flags, This
<1>3. DGo => D3
  BY <1>2, Zenon DEF Staged, DStage, DGo, D0, D1, D2, D3, D4, D5
<1>4. HGo => H4
  BY Zenon DEF Staged, HStage, HGo, H0, H1, H2, H3, H4, H5, H6, WinOff
<1>5. out = Window => D0
  BY <1>1, Zenon DEF Staged, DStage, D1, D2, D3, D4, D5, Ended, Yours
<1>6. Open => D0
  BY <1>5 DEF Open
<1>7. cpt.h2c_started => Open
  BY Zenon DEF Staged, HStage, H0, H1, H2, H3, H4, H5, H6
<1>8. D3 => out # Window
  BY <1>1, Zenon DEF D3, Ended, Yours
<1>9. DGo => ~cpt.h2c_started /\ ~HGo /\ out # Window
  <2>1. DGo => ~Open
    BY <1>3, <1>8, Zenon DEF Open
  <2> QED
    BY <1>3, <1>4, <1>7, <1>8, <2>1, Zenon DEF H4
<1>10. HGo => ~cpt.c2h_started /\ D0
  BY <1>4, <1>6, Zenon DEF H4, D0
<1>11. ~(cpt.h2c_started /\ cpt.c2h_started)
  BY <1>6, <1>7, Zenon DEF D0
<1> QED
  BY <1>1, <1>3, <1>4, <1>5, <1>6, <1>9, <1>10, <1>11, Zenon

LEMMA WasIs ==
  ASSUME Tick
  PROVE  /\ was'.h2d_last = h2d.last /\ was'.h2d_complete = h2d.complete
         /\ was'.d2h_last = This.last
<1>1. was' = [h2d_last |-> h2d.last, h2d_complete |-> h2d.complete, d2h_last |-> head[Sel].last]
  BY DEF Tick, CompletionStep
<1> QED
  BY <1>1 DEF This

LEMMA QuietStays ==
  ASSUME Staged, Tick, ~Fire, Quiet
  PROVE  Quiet'
<1>1. tmp' = tmp
  BY PortCases DEF Staged
<1> QED
  BY <1>1, QuietMade DEF Staged, Quiet

LEMMA TickDrainage ==
  ASSUME Staged, Tick, ThisMoves
  PROVE  Drainage'
<1> SUFFICES ASSUME This'.last, m2h_finish', ~m2h_start', request' = <<>>
             PROVE  reading' = <<>> /\ m2hq' = <<>> /\ tmp' = <<>>
  BY DEF Drainage
<1>1. ~Fire /\ ~m2h_start /\ request = <<>> /\ m2h_finish
      /\ reading' = reading /\ m2hq' = m2hq
  <2>1. ~Fire /\ (m2h_start => request' = <<M2HRequest>>) /\ (~m2h_start => request' = request)
    BY ReaderIs
  <2>2. ~m2h_start
    BY <2>1
  <2> QED
    BY <2>1, <2>2, ReaderIs
<1>2. tmp' = tmp
  BY PortCases DEF Staged
<1>3. This.last
  BY <1>1, Zenon DEF ThisMoves
<1> QED
  BY <1>1, <1>2, <1>3 DEF Staged, DStage, Drainage

LEMMA TickDStage ==
  ASSUME Staged, Tick, ThisMoves, UnitMoves(cpt')
  PROVE  DStage'
<1>1. was'.d2h_last <=> This.last
  BY WasIs
<1>2. /\ cpt'.c2h_was <=> This.m2h_complete
      /\ DStart => cpt'.c2h_cpt_addr = This.cpt
      /\ ~DStart => cpt'.c2h_cpt_addr = cpt.c2h_cpt_addr
      /\ cpt'.c2h_cpt_complete <=> (Written(cpt) /\ cpt.c2h_started) \/ (cpt.c2h_cpt_complete /\ ~DStart)
      /\ cpt'.c2h_started <=> (cpt.c2h_started /\ ~Written(cpt)) \/ (~cpt.c2h_started /\ DGo)
      /\ DGo => cpt'.cpt_addr = cpt.c2h_cpt_addr
      /\ ~HGo /\ ~DGo => cpt'.cpt_addr = cpt.cpt_addr
  BY Zenon DEF UnitMoves
<1>3. m2h_start' <=> Fire
  BY ReaderIs
<1>4. Drainage'
  BY TickDrainage
<1>5. D0' \/ D1' \/ D2' \/ D3' \/ D4' \/ D5'
  <2>1. CASE D0
    <3>1. ~This.last /\ ~This.m2h_complete
      BY <2>1, Zenon DEF D0, ThisMoves
    <3>2. ~DStart /\ ~DGo
      BY <3>1 DEF DStart, DGo
    <3>3. ~was'.d2h_last /\ ~cpt'.c2h_was /\ cpt'.c2h_cpt_complete /\ ~cpt'.c2h_started
      BY <1>1, <1>2, <2>1, <3>1, <3>2, Zenon DEF D0
    <3>4. ~This'.last \/ (Fire /\ ~This'.m2h_complete)
      BY <3>1, Zenon DEF ThisMoves
    <3> QED
      BY <1>3, <3>3, <3>4, Zenon DEF D0, D1
  <2>2. CASE D1
    <3>1. c2h.state = "send"
      BY <2>2 DEF D1, Staged, Pace
    <3>2. ~c2h_finish
      BY <3>1 DEF c2h_finish
    <3>3. This'.last /\ This'.cpt = This.cpt /\ ~This'.m2h_complete
      BY <2>2, <3>2, Zenon DEF D1, ThisMoves
    <3>4. DStart /\ ~DGo
      BY <2>2, Zenon DEF D1, DStart, DGo
    <3> QED
      BY <1>1, <1>2, <2>2, <3>3, <3>4, Zenon DEF D1, D2, Yours
  <2>3. CASE D2
    <3>1. ~DStart /\ ~DGo /\ This.last /\ ~cpt.c2h_cpt_complete /\ ~This.m2h_complete
      BY <2>3, Zenon DEF D2, DStart, DGo, Yours
    <3>2. /\ ~Fire /\ This'.last /\ This'.cpt = This.cpt
          /\ This'.m2h_complete <=> c2h_finish /\ m2h_finish
      BY <3>1, Zenon DEF ThisMoves
    <3>3. Yours' /\ ~cpt'.c2h_was /\ ~cpt'.c2h_cpt_complete /\ ~cpt'.c2h_started
      BY <1>1, <1>2, <2>3, <3>1, <3>2, Zenon DEF D2, Yours
    <3>4. This'.m2h_complete => Quiet'
      <4> SUFFICES ASSUME c2h_finish, m2h_finish PROVE Quiet'
        BY <3>2
      <4>1. c2h.state = "idle"
        BY DEF c2h_finish
      <4>2. ~m2h_start /\ request = <<>>
        BY <4>1, IdleAlone DEF Staged
      <4>3. reading = <<>> /\ m2hq = <<>> /\ tmp = <<>>
        BY <3>1, <4>2 DEF Staged, DStage, Drainage
      <4>4. tmp' = tmp
        BY PortCases DEF Staged
      <4> QED
        BY <3>2, <4>1, <4>3, <4>4, QuietMade DEF Staged
    <3> QED
      BY <3>3, <3>4, Zenon DEF D2, D3, Ended
  <2>4. CASE D3
    <3>1. ~DStart /\ DGo /\ This.last /\ ~cpt.c2h_cpt_complete /\ This.m2h_complete /\ Quiet
      BY <2>4, Zenon DEF D3, DStart, DGo, Yours, Ended
    <3>2. ~Fire /\ This'.last /\ This'.cpt = This.cpt /\ This'.m2h_complete
      BY <3>1, Zenon DEF ThisMoves
    <3>3. Quiet'
      BY <3>1, <3>2, QuietStays
    <3>4. Ended'
      BY <1>1, <1>2, <2>4, <3>1, <3>2, <3>3, Zenon DEF D3, Ended, Yours
    <3>5. cpt'.cpt_addr = This'.cpt
      BY <1>2, <2>4, <3>1, <3>2, Zenon DEF D3, Ended, Yours
    <3> QED
      BY <1>2, <2>4, <3>1, <3>4, <3>5, Zenon DEF D3, D4
  <2>5. CASE D4
    <3>1. ~DStart /\ ~DGo /\ This.last /\ ~cpt.c2h_cpt_complete /\ This.m2h_complete /\ Quiet
      BY <2>5, Zenon DEF D4, DStart, DGo, Yours, Ended
    <3>2. ~Fire /\ This'.last /\ This'.cpt = This.cpt /\ This'.m2h_complete
      BY <3>1, Zenon DEF ThisMoves
    <3>3. Quiet'
      BY <3>1, <3>2, QuietStays
    <3>4. Ended' /\ cpt'.c2h_was
      BY <1>1, <1>2, <2>5, <3>1, <3>2, <3>3, Zenon DEF D4, Ended, Yours
    <3>5. ~HGo
      BY <2>5, OneGoes, Zenon DEF D4
    <3>6. cpt'.cpt_addr = This'.cpt
      BY <1>2, <2>5, <3>1, <3>2, <3>5, Zenon DEF D4
    <3> QED
      BY <1>2, <2>5, <3>1, <3>4, <3>6, Zenon DEF D4, D5
  <2>6. CASE D5
    <3>1. ~DStart /\ ~DGo /\ This.last /\ cpt.c2h_cpt_complete /\ This.m2h_complete
      BY <2>6, Zenon DEF D5, DStart, DGo, Yours, Ended
    <3>2. /\ ~This'.last /\ ~This'.working /\ This'.continue /\ out' = out /\ out # Window
      BY <3>1, Zenon DEF ThisMoves
    <3> QED
      BY <1>2, <2>6, <3>1, <3>2, Zenon DEF D0, D5
  <2> QED
    BY <2>1, <2>2, <2>3, <2>4, <2>5, <2>6 DEF Staged, DStage
<1> QED
  BY <1>4, <1>5 DEF DStage

(* The registers of the window after an edge. *)
LEMMA WindowIs ==
  ASSUME ETypes, Tick
  PROVE  /\ Leave => ~win'.cpt_working /\ ~win'.h2m_complete
         /\ ~Leave => /\ win'.cpt_working <=> win.cpt_working \/ (h2d.complete /\ ~was.h2d_complete)
                      /\ win'.h2m_complete => win.h2m_complete \/ (out = Window /\ Drained /\ tmp = <<>>)
                      /\ win.h2m_complete => win'.h2m_complete
<1> DEFINE start  == h2d.complete /\ ~was.h2d_complete
           count1 == out = Window /\ win.hold1 # 0
           count2 == out = Window /\ win.hold1 = 0 /\ Drained
           raise  == count2 /\ win.hold2 = 0 /\ tmp = <<>>
           n1 == IF count1 THEN win.hold1 - 1 ELSE win.hold1
           n2 == IF count2 THEN (win.hold2 + HoldSpan - 1) % HoldSpan ELSE win.hold2
<1>1. win' = IF Leave
             THEN [cpt_working |-> FALSE, h2m_complete |-> FALSE,
                   hold1 |-> Drain, hold2 |-> Drain]
             ELSE [cpt_working  |-> win.cpt_working \/ start,
                   h2m_complete |-> win.h2m_complete \/ raise,
                   hold1 |-> n1, hold2 |-> n2]
  BY Zenon DEF Tick, WindowStep
<1> HIDE DEF n1, n2
<1>2. raise => out = Window /\ Drained /\ tmp = <<>>
  OBVIOUS
<1> HIDE DEF raise, start
<1>3. CASE Leave
  BY <1>1, <1>3
<1>4. CASE ~Leave
  <2>1. /\ win'.cpt_working = (win.cpt_working \/ start)
        /\ win'.h2m_complete = (win.h2m_complete \/ raise)
    BY <1>1, <1>4
  <2> QED
    BY <1>2, <1>4, <2>1, Zenon DEF start
<1> QED
  BY <1>3, <1>4

LEMMA PathIs ==
  ASSUME CTypes, Tick
  PROVE  /\ (h2d.last /\ h2d.complete /\ cpt.h2c_cpt_complete)
              => ~h2d'.last /\ ~h2d'.complete /\ h2d'.n = h2d.n
         /\ ~(h2d.last /\ h2d.complete /\ cpt.h2c_cpt_complete) => h2d' = h2d
<1>1. H2DStep
  BY DEF Tick
<1> QED
  BY <1>1 DEF H2DStep, CTypes

LEMMA AtWindow ==
  ASSUME Staged, out = Window
  PROVE  ~Fire
<1>1. ~(out \in Queues)
  BY NotWindow
<1> QED
  BY <1>1, FireIs DEF Staged

LEMMA TickHStage ==
  ASSUME Staged, Tick, UnitMoves(cpt')
  PROVE  HStage'
<1>1. was'.h2d_last = h2d.last /\ was'.h2d_complete = h2d.complete
  BY WasIs
<1>2. /\ cpt'.h2c_was <=> win.h2m_complete
      /\ HStart => cpt'.h2c_cpt_addr = H2DId(h2d.n)
      /\ ~HStart => cpt'.h2c_cpt_addr = cpt.h2c_cpt_addr
      /\ cpt'.h2c_cpt_complete <=> (Written(cpt) /\ cpt.h2c_started) \/ (cpt.h2c_cpt_complete /\ ~HStart)
      /\ cpt'.h2c_started <=> (cpt.h2c_started /\ ~Written(cpt)) \/ (~cpt.h2c_started /\ HGo)
      /\ HGo /\ ~DGo => cpt'.cpt_addr = cpt.h2c_cpt_addr
      /\ ~HGo /\ ~DGo => cpt'.cpt_addr = cpt.cpt_addr
  BY Zenon DEF UnitMoves
<1>3. /\ (h2d.last /\ h2d.complete /\ cpt.h2c_cpt_complete)
           => ~h2d'.last /\ ~h2d'.complete /\ h2d'.n = h2d.n
      /\ ~(h2d.last /\ h2d.complete /\ cpt.h2c_cpt_complete) => h2d' = h2d
  BY PathIs DEF Staged
<1>4. /\ Leave => ~win'.cpt_working /\ ~win'.h2m_complete /\ out' # Window
      /\ ~Leave => /\ win'.cpt_working <=> win.cpt_working \/ (h2d.complete /\ ~was.h2d_complete)
                   /\ win'.h2m_complete => win.h2m_complete \/ (out = Window /\ Drained /\ tmp = <<>>)
                   /\ win.h2m_complete => win'.h2m_complete
                   /\ out = Window => out' = Window
      /\ out' = Window => out = Window \/ win.cpt_working
  BY WindowIs, WindowStays DEF Staged
<1>5. out = Window => win.cpt_working
  BY DEF Staged, HStage
<1>6. out' = Window => win'.cpt_working
  BY <1>4, <1>5, Zenon
<1>7. Leave <=> out = Window /\ win.h2m_complete /\ cpt.h2c_cpt_complete
  BY DEF Leave
<1>8. Quiet /\ out = Window => Quiet'
  BY AtWindow, QuietStays
<1>9. Open => ~DGo
  BY OneGoes, Zenon DEF Open
<1>10. H0' \/ H1' \/ H2' \/ H3' \/ H4' \/ H5' \/ H6'
  <2>1. CASE H0
    <3>1. h2d' = h2d /\ ~HGo /\ ~HStart /\ ~Leave /\ out # Window
      BY <1>3, <1>5, <1>7, <2>1, Zenon DEF H0, HGo, HStart, WinOff
    <3> QED
      BY <1>1, <1>2, <1>4, <2>1, <3>1, Zenon DEF H0, WinOff
  <2>2. CASE H1
    <3>1. h2d' = h2d /\ ~HGo /\ HStart /\ ~Leave /\ out # Window
      BY <1>3, <1>5, <1>7, <2>2, Zenon DEF H1, HGo, HStart, WinOff
    <3> QED
      BY <1>1, <1>2, <1>4, <2>2, <3>1, Zenon DEF H1, H2, WinOff, Mine
  <2>3. CASE H2
    <3>1. h2d' = h2d /\ ~HGo /\ ~HStart /\ ~Leave /\ out # Window
      BY <1>3, <1>5, <1>7, <2>3, Zenon DEF H2, HGo, HStart, WinOff, Mine
    <3>2. Mine'
      BY <1>1, <1>2, <2>3, <3>1, Zenon DEF H2, Mine
    <3> QED
      BY <1>1, <1>2, <1>4, <2>3, <3>1, <3>2, Zenon DEF H2, H3, WinOff
  <2>4. CASE H3
    <3>1. h2d' = h2d /\ ~HGo /\ ~HStart /\ ~Leave
      BY <1>3, <1>7, <2>4, Zenon DEF H3, HGo, HStart, Mine
    <3>2. Mine'
      BY <1>1, <1>2, <2>4, <3>1, Zenon DEF H3, Mine
    <3>3. win'.h2m_complete => out' = Window /\ Quiet'
      <4> SUFFICES ASSUME win'.h2m_complete PROVE out' = Window /\ Quiet'
        OBVIOUS
      <4>1. out = Window /\ Drained /\ tmp = <<>>
        BY <1>4, <2>4, <3>1, Zenon DEF H3
      <4>2. out' = Window
        BY <1>4, <3>1, <4>1
      <4>3. ~Fire /\ tmp' = tmp
        BY <4>1, AtWindow, PortCases DEF Staged
      <4> QED
        BY <4>1, <4>2, <4>3, QuietMade DEF Staged, Drained, c2h_finish
    <3>4. ~cpt'.h2c_was /\ ~cpt'.h2c_cpt_complete /\ ~cpt'.h2c_started /\ h2d'.complete /\ was'.h2d_complete
          /\ win'.cpt_working
      BY <1>1, <1>2, <1>4, <2>4, <3>1, Zenon DEF H3
    <3> QED
      BY <3>2, <3>3, <3>4, Zenon DEF H3, H4, Open
  <2>5. CASE H4
    <3>1. h2d' = h2d /\ HGo /\ ~DGo /\ ~HStart /\ ~Leave /\ Quiet' /\ out' = Window
      BY <1>3, <1>4, <1>7, <1>8, <1>9, <2>5, Zenon DEF H4, HGo, HStart, Mine, Open
    <3>2. Open'
      BY <1>1, <1>2, <1>4, <2>5, <3>1, Zenon DEF H4, Mine, Open
    <3>3. cpt'.cpt_addr = H2DId(h2d'.n)
      BY <1>2, <2>5, <3>1, Zenon DEF H4, Mine, Open
    <3> QED
      BY <1>2, <2>5, <3>1, <3>2, <3>3, Zenon DEF H4, H5, Open
  <2>6. CASE H5
    <3>1. h2d' = h2d /\ ~HGo /\ ~DGo /\ ~HStart /\ ~Leave /\ Quiet' /\ out' = Window
      BY <1>3, <1>4, <1>7, <1>8, <1>9, <2>6, Zenon DEF H5, HGo, HStart, Mine, Open
    <3>2. Open'
      BY <1>1, <1>2, <1>4, <2>6, <3>1, Zenon DEF H5, Mine, Open
    <3>3. cpt'.cpt_addr = H2DId(h2d'.n)
      BY <1>2, <2>6, <3>1, Zenon DEF H5
    <3> QED
      BY <1>2, <2>6, <3>1, <3>2, <3>3, Zenon DEF H5, H6, Open
  <2>7. CASE H6
    <3>1. ~h2d'.last /\ ~h2d'.complete /\ ~HGo /\ ~HStart /\ Leave
      BY <1>3, <1>7, <2>7, Zenon DEF H6, HGo, HStart, Mine, Open
    <3> QED
      BY <1>1, <1>2, <1>4, <2>7, <3>1, Zenon DEF H6, H0, Open, Mine, WinOff
  <2> QED
    BY <2>1, <2>2, <2>3, <2>4, <2>5, <2>6, <2>7 DEF Staged, HStage
<1> QED
  BY <1>6, <1>10 DEF HStage

-----------------------------------------------------------------------------
(* The completion unit and the slots. *)

Offer == IF c2h.state = "send" THEN SlotsOf(c2h.pkt) ELSE <<>>

LEMMA OfferType ==
  ASSUME ETypes
  PROVE  Offer \in Seq(SlotType)
<1>1. c2h.pkt \in [id : Ids, off : Nat, len : 0 .. AddrSpace]
  BY DEF ETypes
<1> QED
  BY <1>1, SlotsType DEF Offer

LEMMA WantedIs ==
  ASSUME ETypes, STypes
  PROVE  /\ ~FlagSlot => Wanted = slots \o Offer
         /\ UnitBusy /\ (Asking \/ Placing \/ Placed) => Wanted = <<>>
<1> DEFINE flags == \A k \in 1 .. Len(slots) : slots[k].off = Flag
           data == IF flags THEN <<>> ELSE slots
<1>1. Wanted = data \o Offer
  BY Zenon DEF Wanted, Offer
<1>2. slots \in Seq(SlotType) /\ Len(slots) \in Nat
  BY DEF STypes
<1>3. ASSUME ~FlagSlot PROVE data = slots
  <2>1. CASE slots = <<>>
    BY <2>1
  <2>2. CASE slots # <<>>
    <3>1. 1 \in 1 .. Len(slots)
      BY <1>2, <2>2
    <3>2. ~flags
      BY <1>3, <3>1 DEF FlagSlot
    <3> QED
      BY <3>2
  <2> QED
    BY <2>1, <2>2
<1>4. ASSUME UnitBusy, Asking \/ Placing \/ Placed PROVE Wanted = <<>>
  <2>1. Offer = <<>>
    BY <1>4 DEF UnitBusy, Quiet, Offer
  <2>2. slots = <<>> \/ slots = <<FlagOf>>
    BY <1>4 DEF Asking, Placing, Placed, FlagOf
  <2>3. flags
    BY <2>2 DEF FlagOf
  <2>4. data = <<>>
    BY <2>3
  <2> HIDE DEF data
  <2>5. Wanted = <<>> \o <<>>
    BY <1>1, <2>1, <2>4
  <2> QED
    BY <2>5
<1> HIDE DEF data
<1> QED
  BY <1>1, <1>3, <1>4

(* A stream at rest wants nothing. *)
LEMMA QuietEmpty ==
  ASSUME ETypes, STypes, Stream, Quiet, ~FlagSlot
  PROVE  slots = <<>> /\ Offer = <<>>
<1>1. OnTheWay = <<>> \o <<>> \o <<>> \o <<>> \o <<>>
  BY DEF Quiet, OnTheWay
<1>2. OnTheWay = <<>>
  BY <1>1
<1>3. Len(Wanted) = 0
  BY <1>2 DEF Stream, Paired
<1>4. Offer = <<>> /\ slots \in Seq(SlotType)
  BY DEF Quiet, Offer, STypes
<1>5. Wanted = slots
  <2>1. Wanted = slots \o <<>>
    BY <1>4, WantedIs
  <2> QED
    BY <1>4, <2>1, ConcatEmptySeq
<1> QED
  BY <1>3, <1>4, <1>5

(* A packet's slots are of data. *)
LEMMA OfferGood ==
  ASSUME ETypes, STypes, HTypes, Stream, Names, ~FlagSlot, c2h.state = "send"
  PROVE  \A k \in 1 .. Len(Offer) : Offer[k].off < Flag
<1> SUFFICES ASSUME NEW k \in 1 .. Len(Offer) PROVE Offer[k].off < Flag
  OBVIOUS
<1>1. Offer \in Seq(SlotType) /\ slots \in Seq(SlotType) /\ Wanted = slots \o Offer
  BY OfferType, WantedIs DEF STypes
<1> DEFINE m == Len(slots) + k
<1>2. m \in 1 .. Len(Wanted) /\ Wanted[m] = Offer[k]
  BY <1>1, ConcatProperties
<1>3. Good(Wanted[m], posted)
  BY <1>2 DEF Stream, Paired
<1>4. Good(Offer[k], posted)
  BY <1>2, <1>3
<1> DEFINE c == posted[Offer[k].id.n]
<1>5. Sound(c) /\ Offer[k].off < c.len
  BY <1>4 DEF Good, Names, PostedNamed
<1>6. c.len =< AddrSpace /\ c.len \in Nat /\ AddrSpace \in Nat
  BY <1>5, ConstantsAssumption DEF Sound, Job
<1>7. Offer[k] \in SlotType
  BY <1>1
<1> QED
  BY <1>5, <1>6, <1>7 DEF SlotType, Flag

(* What an edge does to the completion unit.                                 *)
StaysIdle == UnitIdle /\ ~HGo /\ ~DGo /\ UnitIdle' /\ (PortRests \/ PortTakes)
Begins    == UnitIdle /\ (HGo \/ DGo) /\ ~Fire /\ Quiet /\ slots = <<>>
             /\ UnitBusy' /\ Asking' /\ PortRests
Works     == /\ UnitBusy /\ UnitBusy' /\ ~Fire /\ ~HGo /\ ~DGo
             /\ \/ Asking /\ Asking' /\ PortRests
                \/ Asking /\ Placing' /\ PortPlaces
                \/ Placing /\ Placing' /\ PortRests
                \/ Placing /\ Placed' /\ PortLands
Ends      == UnitBusy /\ Placed /\ UnitIdle' /\ Quiet' /\ ~Fire /\ ~HGo /\ ~DGo /\ PortRests
             /\ slots = <<>>

LEMMA FlagSlotNot ==
  ASSUME slots = <<>>
  PROVE  ~FlagSlot
BY DEF FlagSlot

LEMMA BusyNoFire ==
  ASSUME Staged, UnitBusy \/ HGo \/ DGo
  PROVE  ~Fire /\ Quiet
<1>1. CASE DGo
  <2>1. ~cpt.c2h_cpt_complete /\ Quiet
    BY <1>1, OneGoes DEF D3, Ended
  <2> QED
    BY <2>1 DEF Fire, CmdOutReady
<1>2. CASE HGo
  <2>1. Open
    BY <1>2, OneGoes DEF H4
  <2> QED
    BY <2>1, AtWindow DEF Open
<1>3. CASE UnitBusy
  <2>1. CASE cpt.h2c_started
    <3>1. Open
      BY <2>1, Zenon DEF Staged, HStage, H0, H1, H2, H3, H4, H5, H6
    <3> QED
      BY <3>1, AtWindow DEF Open
  <2>2. CASE cpt.c2h_started
    <3>1. D4
      BY <2>2, Zenon DEF Staged, DStage, D0, D1, D2, D3, D4, D5
    <3> QED
      BY <3>1 DEF D4, Ended, Fire, CmdOutReady
  <2> QED
    BY <1>3, <2>1, <2>2 DEF UnitBusy
<1> QED
  BY <1>1, <1>2, <1>3

LEMMA UnitCases ==
  ASSUME Staged, HTypes, Stream, Names, Tick, UnitMoves(cpt')
  PROVE  (StaysIdle \/ Begins \/ Works \/ Ends) /\ UnitStage'
<1>1. /\ cpt'.h2c_started <=> (cpt.h2c_started /\ ~Written(cpt)) \/ (~cpt.h2c_started /\ HGo)
      /\ cpt'.c2h_started <=> (cpt.c2h_started /\ ~Written(cpt)) \/ (~cpt.c2h_started /\ DGo)
      /\ ~cpt'.p2p_started
      /\ cpt'.cmd_valid <=> (cpt.cmd_valid \/ HGo \/ DGo) /\ ~CptCmdFire
      /\ cpt'.data_valid <=> (cpt.data_valid \/ HGo \/ DGo) /\ ~CptDataFire
      /\ cpt'.cmd_fire <=> (cpt.cmd_fire \/ CptCmdFire) /\ ~Written(cpt)
      /\ cpt'.data_fire <=> (cpt.data_fire \/ CptDataFire) /\ ~Written(cpt)
      /\ ~HGo /\ ~DGo => cpt'.cpt_addr = cpt.cpt_addr
  BY Zenon DEF UnitMoves, Staged, UnitStage
<1>2. /\ PortRests \/ PortTakes \/ PortPlaces \/ PortLands
      /\ ~data_ready'
  BY PortCases DEF Staged
<1>3. CASE UnitIdle /\ ~HGo /\ ~DGo
  <2>1. PortRests \/ PortTakes
    BY <1>2, <1>3, Zenon DEF UnitIdle, PortPlaces, PortLands, Asking, Placing
  <2>2. ~FlagSlot'
    <3>1. slots \in Seq(SlotType) /\ ~FlagSlot
      BY <1>3 DEF Staged, STypes, UnitIdle
    <3>2. CASE PortRests
      BY <3>1, <3>2 DEF PortRests, FlagSlot
    <3>3. CASE PortTakes
      <4>1. c2h.state = "send" /\ slots' = slots \o Offer
        BY <3>3 DEF PortTakes, C2HCmdFire, Offer
      <4>2. \A k \in 1 .. Len(Offer) : Offer[k].off < Flag
        BY <3>1, <4>1, OfferGood DEF Staged
      <4>3. Offer \in Seq(SlotType)
        BY OfferType DEF Staged
      <4>4. \A k \in 1 .. Len(Offer) : Offer[k].off # Flag
        BY <4>2, <4>3, ConstantsAssumption DEF SlotType, Flag
      <4>5. \A k \in 1 .. Len(slots) : slots[k].off # Flag
        BY <3>1 DEF FlagSlot
      <4>6. \A k \in 1 .. Len(slots \o Offer) : (slots \o Offer)[k].off # Flag
        <5> TAKE k \in 1 .. Len(slots \o Offer)
        <5>1. CASE k =< Len(slots)
          BY <3>1, <4>3, <4>5, <5>1, ConcatProperties
        <5>2. CASE k > Len(slots)
          <6>1. k - Len(slots) \in 1 .. Len(Offer)
            BY <3>1, <4>3, <5>2, ConcatProperties
          <6>2. (slots \o Offer)[k] = Offer[k - Len(slots)]
            BY <3>1, <4>3, <5>2, ConcatProperties
          <6> QED
            BY <4>4, <6>1, <6>2
        <5> QED
          BY <3>1, <5>1, <5>2
      <4> QED
        BY <4>1, <4>6 DEF FlagSlot
    <3> QED
      BY <2>1, <3>2, <3>3
  <2>3. ~CptCmdFire /\ ~CptDataFire
    BY <1>3 DEF UnitIdle, CptCmdFire, CptDataFire
  <2>4. UnitIdle'
    BY <1>1, <1>3, <2>2, <2>3, Zenon DEF UnitIdle
  <2> QED
    BY <1>1, <1>2, <1>3, <2>1, <2>4, Zenon DEF StaysIdle, UnitStage
<1>4. CASE UnitIdle /\ (HGo \/ DGo)
  <2>1. ~Fire /\ Quiet /\ Quiet'
    BY <1>4, BusyNoFire, QuietStays
  <2>2. slots = <<>>
    BY <1>4, <2>1, QuietEmpty DEF Staged, UnitIdle
  <2>3. ~CptCmdFire /\ ~CptDataFire /\ ~C2HCmdFire
    BY <1>4, <2>1 DEF UnitIdle, CptCmdFire, CptDataFire, C2HCmdFire, Quiet
  <2>4. PortRests
    BY <1>2, <2>3, Zenon DEF PortTakes, PortPlaces, PortLands
  <2>5. slots' = <<>>
    BY <2>2, <2>4 DEF PortRests
  <2>6. ~Written(cpt)
    BY <1>4 DEF UnitIdle, Written
  <2>7. Asking' /\ UnitBusy'
    BY <1>1, <1>4, <2>1, <2>3, <2>5, <2>6, Zenon DEF UnitIdle, Asking, UnitBusy
  <2> QED
    BY <1>1, <1>2, <1>4, <2>1, <2>2, <2>4, <2>7, Zenon DEF Begins, UnitStage
<1>5. CASE UnitBusy /\ (Asking \/ Placing \/ Placed)
  <2>1. ~HGo /\ ~DGo
    <3>1. HGo => ~cpt.c2h_started /\ ~cpt.h2c_started
      BY OneGoes DEF H4
    <3>2. DGo => ~cpt.c2h_started /\ ~cpt.h2c_started
      BY OneGoes DEF D3
    <3> QED
      BY <1>5, <3>1, <3>2 DEF UnitBusy
  <2>2. ~Fire /\ Quiet'
    BY <1>5, BusyNoFire, QuietStays DEF UnitBusy
  <2>3. cpt'.cpt_addr = cpt.cpt_addr
    BY <1>1, <2>1
  <2>4. ~UnitIdle
    BY <1>5 DEF UnitIdle, UnitBusy
  <2>5. ~Placed => UnitBusy'
    <3>1. ~Placed => ~Written(cpt)
      BY <1>5, Zenon DEF Asking, Placing, Written
    <3> QED
      BY <1>1, <1>5, <2>2, <3>1, Zenon DEF UnitBusy
  <2>6. CASE Asking /\ PortRests
    <3>1. ~CptCmdFire /\ ~CptDataFire /\ slots' = <<>>
      BY <2>6 DEF PortRests, Asking
    <3>2. Asking' /\ ~Placed
      BY <1>1, <2>1, <2>6, <3>1, Zenon DEF Asking, Placed, Written
    <3> QED
      BY <1>1, <1>2, <1>5, <2>1, <2>2, <2>5, <2>6, <3>2, Zenon DEF Works, UnitStage
  <2>7. CASE Asking /\ PortPlaces
    <3>1. CptCmdFire /\ ~CptDataFire /\ slots' = <<FlagOf>>
      BY <2>7 DEF PortPlaces
    <3>2. slots' = <<[id |-> cpt'.cpt_addr, off |-> Flag]>>
      BY <2>3, <3>1 DEF FlagOf
    <3>3. Placing' /\ ~Placed
      BY <1>1, <2>1, <2>7, <3>1, <3>2, Zenon DEF Asking, Placing, Placed, Written
    <3> QED
      BY <1>1, <1>2, <1>5, <2>1, <2>2, <2>5, <2>7, <3>3, Zenon DEF Works, UnitStage
  <2>8. CASE Placing /\ PortRests
    <3>1. ~CptCmdFire /\ ~CptDataFire /\ slots' = slots
      BY <2>8 DEF PortRests
    <3>2. slots' = <<[id |-> cpt'.cpt_addr, off |-> Flag]>>
      BY <2>3, <2>8, <3>1 DEF Placing
    <3>3. Placing' /\ ~Placed
      BY <1>1, <2>1, <2>8, <3>1, <3>2, Zenon DEF Placing, Placed, Written
    <3> QED
      BY <1>1, <1>2, <1>5, <2>1, <2>2, <2>5, <2>8, <3>3, Zenon DEF Works, UnitStage
  <2>9. CASE Placing /\ PortLands
    <3>1. ~CptCmdFire /\ CptDataFire /\ slots' = <<>>
      BY <2>9 DEF PortLands
    <3>2. Placed' /\ ~Placed
      BY <1>1, <2>1, <2>9, <3>1, Zenon DEF Placing, Placed, Written
    <3> QED
      BY <1>1, <1>2, <1>5, <2>1, <2>2, <2>5, <2>9, <3>2, Zenon DEF Works, UnitStage
  <2>10. CASE Placed
    <3>1. ~CptCmdFire /\ ~CptDataFire /\ slots = <<>> /\ Written(cpt)
      BY <2>10 DEF Placed, CptCmdFire, CptDataFire, Written
    <3>2. PortRests
      BY <1>2, <2>4, <3>1, Zenon DEF PortTakes, PortPlaces, PortLands
    <3>3. slots' = <<>>
      BY <3>1, <3>2 DEF PortRests
    <3>4. ~FlagSlot'
      BY <3>3 DEF FlagSlot
    <3>5. UnitIdle'
      BY <1>1, <2>1, <2>10, <3>1, <3>4, Zenon DEF UnitIdle, Placed
    <3> QED
      BY <1>1, <1>2, <1>5, <2>1, <2>2, <2>10, <3>1, <3>2, <3>5, Zenon DEF Ends, UnitStage
  <2> QED
    BY <1>2, <1>5, <2>4, <2>6, <2>7, <2>8, <2>9, <2>10, Zenon DEF PortTakes, PortPlaces, PortLands, Asking, Placing
<1> QED
  BY <1>3, <1>4, <1>5 DEF Staged, UnitStage

-----------------------------------------------------------------------------
(* Beats and the slots that want them. *)

LEMMA BeatsType ==
  ASSUME NEW r \in [addr : 0 .. AddrSpace - 1, len : 0 .. AddrSpace],
         r.addr + r.len =< AddrSpace
  PROVE  /\ BeatsOf(r) \in Seq(0 .. AddrSpace - 1) /\ Len(BeatsOf(r)) = r.len
         /\ \A k \in 1 .. r.len : BeatsOf(r)[k] = r.addr + k - 1
<1>1. r.len \in Nat /\ r.addr \in Nat /\ AddrSpace \in Nat
  BY ConstantsAssumption
<1>2. \A k \in 1 .. r.len : r.addr + k - 1 \in 0 .. AddrSpace - 1
  BY <1>1
<1> QED
  BY <1>1, <1>2 DEF BeatsOf

LEMMA Joined ==
  ASSUME NEW S, NEW s \in Seq(S), NEW t \in Seq(S), NEW j \in 1 .. Len(s \o t)
  PROVE  \/ j \in 1 .. Len(s) /\ (s \o t)[j] = s[j]
         \/ j - Len(s) \in 1 .. Len(t) /\ (s \o t)[j] = t[j - Len(s)] /\ j > Len(s)
<1>1. Len(s) \in Nat /\ Len(t) \in Nat /\ j \in 1 .. Len(s) + Len(t)
  BY ConcatProperties
<1>2. CASE j =< Len(s)
  BY <1>1, <1>2, ConcatProperties
<1>3. CASE j > Len(s)
  BY <1>1, <1>3, ConcatProperties
<1> QED
  BY <1>1, <1>2, <1>3

LEMMA PairedAppend ==
  ASSUME NEW p, NEW way, NEW want, Paired(way, want, p),
         NEW k \in [id : Ids, off : Nat, len : 0 .. AddrSpace],
         NEW r \in [addr : 0 .. AddrSpace - 1, len : 0 .. AddrSpace],
         r.addr + r.len =< AddrSpace,
         r.addr = p[k.id.n].m2h + k.off, r.len = k.len, p[k.id.n].m2h \in Nat,
         \A j \in 1 .. k.len : Good(SlotsOf(k)[j], p)
  PROVE  Paired(way \o BeatsOf(r), want \o SlotsOf(k), p)
<1> DEFINE a == BeatsOf(r)
           b == SlotsOf(k)
<1>1. /\ way \in Seq(0 .. AddrSpace - 1) /\ want \in Seq(SlotType) /\ Len(way) = Len(want)
      /\ \A j \in 1 .. Len(want) : Good(want[j], p) /\ way[j] = Source(want[j], p)
  BY DEF Paired
<1>2. /\ a \in Seq(0 .. AddrSpace - 1) /\ Len(a) = k.len
      /\ \A j \in 1 .. k.len : a[j] = r.addr + j - 1
  BY BeatsType
<1>3. /\ b \in Seq(SlotType) /\ Len(b) = k.len
      /\ \A j \in 1 .. k.len : b[j] = [id |-> k.id, off |-> k.off + j - 1]
  BY SlotsType
<1>4. \A j \in 1 .. k.len : Good(b[j], p) /\ a[j] = Source(b[j], p)
  <2> TAKE j \in 1 .. k.len
  <2>1. b[j].id = k.id /\ b[j].off = k.off + j - 1
    BY <1>3
  <2>2. Source(b[j], p) = p[k.id.n].m2h + (k.off + j - 1)
    BY <2>1 DEF Source
  <2>3. a[j] = (p[k.id.n].m2h + k.off) + j - 1
    BY <1>2
  <2>4. k.off \in Nat /\ j \in Nat
    BY ConstantsAssumption
  <2> QED
    BY <2>2, <2>3, <2>4
<1> HIDE DEF a, b
<1>5. /\ way \o a \in Seq(0 .. AddrSpace - 1) /\ want \o b \in Seq(SlotType)
      /\ Len(way \o a) = Len(way) + Len(a) /\ Len(want \o b) = Len(want) + Len(b)
  <2>1. way \o a \in Seq(0 .. AddrSpace - 1) /\ Len(way \o a) = Len(way) + Len(a)
    <3>1. way \in Seq(0 .. AddrSpace - 1) /\ a \in Seq(0 .. AddrSpace - 1)
      BY <1>1, <1>2
    <3> QED
      BY ONLY <3>1, ConcatProperties
  <2>2. want \o b \in Seq(SlotType) /\ Len(want \o b) = Len(want) + Len(b)
    <3>1. want \in Seq(SlotType) /\ b \in Seq(SlotType)
      BY <1>1, <1>3
    <3> QED
      BY ONLY <3>1, ConcatProperties
  <2> QED
    BY <2>1, <2>2
<1>6. \A j \in 1 .. Len(want \o b) :
        Good((want \o b)[j], p) /\ (way \o a)[j] = Source((want \o b)[j], p)
  <2> TAKE j \in 1 .. Len(want \o b)
  <2>1. \/ /\ j \in 1 .. Len(want) /\ (want \o b)[j] = want[j] /\ (way \o a)[j] = way[j]
        \/ \E i \in 1 .. k.len : (want \o b)[j] = b[i] /\ (way \o a)[j] = a[i]
    <3>1. \/ j \in 1 .. Len(want) /\ (want \o b)[j] = want[j]
          \/ j - Len(want) \in 1 .. Len(b) /\ (want \o b)[j] = b[j - Len(want)] /\ j > Len(want)
      BY <1>1, <1>3, Joined
    <3>2. \/ j \in 1 .. Len(way) /\ (way \o a)[j] = way[j]
          \/ j - Len(way) \in 1 .. Len(a) /\ (way \o a)[j] = a[j - Len(way)] /\ j > Len(way)
      <4>1. j \in 1 .. Len(way \o a)
        BY <1>1, <1>2, <1>3, <1>5
      <4> QED
        BY <1>1, <1>2, <4>1, Joined
    <3>3. ~(j \in 1 .. Len(want) /\ j > Len(want))
      <4>1. Len(want) \in Nat
        BY <1>1
      <4> QED
        BY <4>1
    <3> QED
      BY <1>1, <1>2, <1>3, <3>1, <3>2, <3>3, Zenon
  <2> QED
    BY <1>1, <1>4, <2>1
<1>7. Len(way \o a) = Len(want \o b)
  BY <1>1, <1>2, <1>3, <1>5
<1>8. Paired(way \o a, want \o b, p)
  BY <1>5, <1>6, <1>7, Zenon DEF Paired
<1> QED
  BY <1>8 DEF a, b

LEMMA PairedTail ==
  ASSUME NEW p, NEW way, NEW want, Paired(way, want, p), way # <<>>
  PROVE  /\ Paired(Tail(way), Tail(want), p) /\ want # <<>>
         /\ Good(Head(want), p) /\ Head(way) = Source(Head(want), p)
<1>1. /\ way \in Seq(0 .. AddrSpace - 1) /\ want \in Seq(SlotType) /\ Len(way) = Len(want)
      /\ \A j \in 1 .. Len(want) : Good(want[j], p) /\ way[j] = Source(want[j], p)
  BY DEF Paired
<1>2. want # <<>>
  BY <1>1
<1>3. /\ Head(way) = way[1] /\ Tail(way) \in Seq(0 .. AddrSpace - 1)
      /\ Len(Tail(way)) = Len(way) - 1 /\ Len(way) \in Nat \ {0}
      /\ \A j \in 1 .. Len(way) - 1 : Tail(way)[j] = way[j + 1]
  BY <1>1, HeadTail
<1>4. /\ Head(want) = want[1] /\ Tail(want) \in Seq(SlotType)
      /\ Len(Tail(want)) = Len(want) - 1
      /\ \A j \in 1 .. Len(want) - 1 : Tail(want)[j] = want[j + 1]
  BY <1>1, <1>2, HeadTail
<1>5. Good(Head(want), p) /\ Head(way) = Source(Head(want), p)
  <2>1. 1 \in 1 .. Len(want)
    BY <1>1, <1>3
  <2> QED
    BY <1>1, <1>3, <1>4, <2>1
<1>6. \A j \in 1 .. Len(Tail(want)) :
        Good(Tail(want)[j], p) /\ Tail(way)[j] = Source(Tail(want)[j], p)
  <2> TAKE j \in 1 .. Len(Tail(want))
  <2>1. j \in 1 .. Len(want) - 1 /\ j + 1 \in 1 .. Len(want)
    BY <1>1, <1>3, <1>4
  <2>2. Tail(want)[j] = want[j + 1] /\ Tail(way)[j] = way[j + 1]
    BY <1>1, <1>3, <1>4, <2>1
  <2> QED
    BY <1>1, <2>1, <2>2
<1> QED
  BY <1>1, <1>2, <1>3, <1>4, <1>5, <1>6 DEF Paired

(* The beats on their way, part by part. *)
Carried == tmp \o m2hq \o reading
Asked   == IF request # <<>> THEN BeatsOf(request[1]) ELSE <<>>
Pulsed  == IF m2h_start THEN BeatsOf(M2HRequest) ELSE <<>>

LEMMA AskedType ==
  ASSUME QTypes, ETypes, InRange
  PROVE  Asked \in Seq(0 .. AddrSpace - 1) /\ Pulsed \in Seq(0 .. AddrSpace - 1)
<1>1. Asked \in Seq(0 .. AddrSpace - 1)
  <2>1. CASE request # <<>>
    <3>1. request[1] \in [addr : 0 .. AddrSpace - 1, len : 0 .. AddrSpace]
      <4>1. request \in Seq([addr : 0 .. AddrSpace - 1, len : 0 .. AddrSpace])
        BY DEF ETypes
      <4> QED
        BY <2>1, <4>1, HeadTail
    <3>2. request[1].addr + request[1].len =< AddrSpace
      BY <2>1 DEF InRange
    <3> QED
      BY <2>1, <3>1, <3>2, BeatsType DEF Asked
  <2>2. CASE request = <<>>
    BY <2>2 DEF Asked
  <2> QED
    BY <2>1, <2>2
<1>2. Pulsed \in Seq(0 .. AddrSpace - 1)
  <2>1. CASE m2h_start
    <3>1. M2HRequest \in [addr : 0 .. AddrSpace - 1, len : 0 .. AddrSpace]
      BY RequestType
    <3>2. M2HRequest.addr + M2HRequest.len =< AddrSpace
      BY <2>1 DEF InRange
    <3> QED
      BY <2>1, <3>1, <3>2, BeatsType DEF Pulsed
  <2>2. CASE ~m2h_start
    BY <2>2 DEF Pulsed
  <2> QED
    BY <2>1, <2>2
<1> QED
  BY <1>1, <1>2

LEMMA CarriedType ==
  ASSUME STypes
  PROVE  Carried \in Seq(0 .. AddrSpace - 1)
<1>1. tmp \in Seq(0 .. AddrSpace - 1) /\ m2hq \in Seq(0 .. AddrSpace - 1)
      /\ reading \in Seq(0 .. AddrSpace - 1)
  BY DEF STypes
<1>2. tmp \o m2hq \in Seq(0 .. AddrSpace - 1)
  BY <1>1, ConcatProperties
<1> QED
  BY <1>1, <1>2, ConcatProperties DEF Carried

LEMMA WayIs == OnTheWay = Carried \o Asked \o Pulsed
BY Zenon DEF OnTheWay, Carried, Asked, Pulsed

LEMMA WorkingOwn ==
  ASSUME AllFired, Names, NEW i \in Queues, head[i].working
  PROVE  Own(job[i], i) /\ Sound(job[i]) /\ head[i].cpt = job[i].id /\ job[i] # NoJob
<1>1. Sound(job[i]) /\ head[i].cpt = job[i].id
  BY DEF AllFired, Fired
<1>2. job[i] # NoJob
  BY <1>1 DEF Sound, NoJob
<1>3. JobNamed(i)
  BY DEF Names
<1> QED
  BY <1>1, <1>2, <1>3 DEF JobNamed

LEMMA SentGood ==
  ASSUME QTypes, HTypes, AllFlags, AllFired, Regular, Names, Fire
  PROVE  /\ \A j \in 1 .. C2HPacket.len : Good(SlotsOf(C2HPacket)[j], posted)
         /\ head[out].m2h_addr = posted[C2HPacket.id.n].m2h + C2HPacket.off
         /\ posted[C2HPacket.id.n].m2h \in Nat
         /\ head[out].m2h_addr + head[out].length =< AddrSpace
<1> DEFINE k == C2HPacket
           c == job[out]
           o == sent[out]
<1>1. /\ k.id = c.id /\ k.off = o /\ k.len = head[out].length
      /\ head[out].length \in 1 .. c.len /\ o + head[out].length =< c.len
      /\ head[out].m2h_addr = c.m2h + o
      /\ c.m2h + c.len =< AddrSpace
  BY PacketSent
<1>2. out \in Queues /\ head[out].working
  BY FireIs
<1>3. Own(c, out) /\ c \in Job /\ o \in Nat
  BY <1>2, WorkingOwn DEF HTypes
<1>4. c.id.n \in 1 .. Len(posted) /\ c = posted[c.id.n]
  BY <1>3 DEF Own
<1>5. k \in [id : Ids, off : Nat, len : 0 .. AddrSpace]
  BY PacketType
<1>6. /\ c.m2h \in Nat /\ c.len \in Nat /\ AddrSpace \in Nat
  BY <1>3, ConstantsAssumption DEF Job
<1>7. \A j \in 1 .. k.len : SlotsOf(k)[j] = [id |-> k.id, off |-> k.off + j - 1]
  BY <1>5, SlotsType
<1> HIDE DEF k, c, o
<1>8. \A j \in 1 .. k.len : Good(SlotsOf(k)[j], posted)
  <2> TAKE j \in 1 .. k.len
  <2> DEFINE s == SlotsOf(k)[j]
  <2>1. s.id = c.id /\ s.off = o + j - 1
    <3> DEFINE e == o + j - 1
    <3>1. s = [id |-> k.id, off |-> k.off + j - 1]
      BY <1>7
    <3>2. k.id = c.id /\ k.off = o
      BY <1>1
    <3>3. s = [id |-> c.id, off |-> e]
      BY ONLY <3>1, <3>2
    <3> HIDE DEF e, s
    <3>4. s.id = c.id /\ s.off = e
      BY ONLY <3>3
    <3> QED
      BY <3>4 DEF e
  <2>2. s.off < c.len
    <3> DEFINE l == head[out].length
    <3>1. o + l =< c.len /\ l \in 1 .. c.len /\ k.len = l
      BY <1>1
    <3> HIDE DEF l, s
    <3>2. j \in Nat /\ j =< l /\ l \in Nat
      BY <1>6, <3>1
    <3>3. o + j - 1 < c.len
      BY <1>3, <1>6, <3>1, <3>2
    <3> QED
      BY <2>1, <3>3
  <2> HIDE DEF s
  <2>3. Good(s, posted)
    BY <1>4, <2>1, <2>2, Zenon DEF Good
  <2> QED
    BY <2>3 DEF s
<1>9. head[out].m2h_addr + head[out].length =< AddrSpace
  BY <1>1, <1>3, <1>6
<1>10. posted[k.id.n] = c
  BY <1>1, <1>4
<1> QED
  BY <1>1, <1>6, <1>8, <1>9, <1>10 DEF k

LEMMA EmptyJoin ==
  ASSUME NEW S, NEW s \in Seq(S)
  PROVE  s \o <<>> = s /\ <<>> \o s = s
BY ConcatEmptySeq

(* An edge appends what is sent to the beats on their way. *)
LEMMA TickWay ==
  ASSUME QTypes, ETypes, STypes, AllFlags, Regular, Pace, InRange, Tick, tmp' = tmp
  PROVE  /\ ~Fire => OnTheWay' = OnTheWay
         /\ Fire => OnTheWay' = OnTheWay \o BeatsOf(M2HRequest')
<1>1. Carried' = Carried
  BY ReaderIs DEF Carried
<1>2. OnTheWay = Carried \o Asked \o Pulsed
  BY WayIs
<1>3. OnTheWay' = Carried \o Asked' \o Pulsed'
  BY <1>1, Zenon DEF OnTheWay, Carried, Asked, Pulsed
<1>4. /\ Carried \in Seq(0 .. AddrSpace - 1) /\ Asked \in Seq(0 .. AddrSpace - 1)
      /\ Pulsed \in Seq(0 .. AddrSpace - 1)
  BY CarriedType, AskedType
<1>5. m2h_start' <=> Fire
  BY ReaderIs
<1>6. CASE m2h_start
  <2>1. request = <<>> /\ c2h.state = "send"
    BY <1>6 DEF Pace
  <2>2. ~Fire
    BY <2>1, FireIs
  <2>3. request' = <<M2HRequest>> /\ ~m2h_start'
    BY <1>5, <1>6, <2>2, ReaderIs
  <2>4. Asked = <<>> /\ Pulsed = BeatsOf(M2HRequest)
    BY <1>6, <2>1 DEF Asked, Pulsed
  <2>5. Asked' = BeatsOf(M2HRequest) /\ Pulsed' = <<>>
    <3>1. request'[1] = M2HRequest /\ request' # <<>>
      BY <2>3
    <3> QED
      BY <2>3, <3>1 DEF Asked, Pulsed
  <2>6. OnTheWay = Carried \o Pulsed
    BY <1>2, <1>4, <2>4, EmptyJoin
  <2>7. OnTheWay' = (Carried \o Pulsed) \o <<>>
    BY <1>3, <2>4, <2>5
  <2>8. Carried \o Pulsed \in Seq(0 .. AddrSpace - 1)
    BY <1>4, ConcatProperties
  <2> QED
    BY <2>2, <2>6, <2>7, <2>8, EmptyJoin
<1>7. CASE ~m2h_start
  <2>1. request' = request /\ Asked' = Asked /\ Pulsed = <<>>
    BY <1>7, ReaderIs DEF Asked, Pulsed
  <2>2. Carried \o Asked \in Seq(0 .. AddrSpace - 1)
    BY <1>4, ConcatProperties
  <2>3. OnTheWay = Carried \o Asked
    BY <1>2, <2>1, <2>2, EmptyJoin
  <2>4. CASE Fire
    <3>1. Pulsed' = BeatsOf(M2HRequest')
      BY <1>5, <2>4 DEF Pulsed
    <3> QED
      BY <1>3, <2>1, <2>3, <2>4, <3>1
  <2>5. CASE ~Fire
    <3>1. Pulsed' = <<>>
      BY <1>5, <2>5 DEF Pulsed
    <3>2. OnTheWay' = (Carried \o Asked) \o <<>>
      BY <1>3, <2>1, <3>1
    <3> QED
      BY <2>2, <2>3, <2>5, <3>2, EmptyJoin
  <2> QED
    BY <2>4, <2>5
<1> QED
  BY <1>6, <1>7

LEMMA OfferIs ==
  ASSUME ETypes, Tick
  PROVE  /\ Fire => Offer = <<>> /\ Offer' = SlotsOf(C2HPacket)
         /\ C2HCmdFire => Offer = SlotsOf(c2h.pkt) /\ Offer' = <<>>
         /\ ~Fire /\ ~C2HCmdFire => Offer' = Offer
<1>1. EngineMoves(c2h')
  BY EngineFields
<1>2. Fire => c2h.state = "idle"
  BY DEF Fire, CmdOutReady, c2h_finish
<1>3. C2HCmdFire => c2h.state = "send"
  BY DEF C2HCmdFire
<1>4. CASE c2h.state = "idle" /\ ~Fire /\ c2h' = c2h
  BY <1>3, <1>4 DEF Offer
<1>5. CASE c2h.state = "idle" /\ Fire /\ c2h'.state = "send" /\ c2h'.pkt = C2HPacket
  BY <1>3, <1>5 DEF Offer
<1>6. CASE c2h.state = "send" /\ C2HCmdFire /\ c2h'.state = "done"
  BY <1>2, <1>6 DEF Offer
<1>7. CASE c2h.state = "send" /\ ~C2HCmdFire /\ c2h'.state = "send" /\ c2h'.pkt = c2h.pkt
  BY <1>2, <1>7 DEF Offer
<1>8. CASE c2h.state = "done" /\ (c2h'.state = "idle" \/ c2h'.state = "done")
  BY <1>2, <1>3, <1>8 DEF Offer
<1> QED
  BY <1>1, <1>4, <1>5, <1>6, <1>7, <1>8, Zenon DEF EngineMoves

(* An edge appends what is sent to the slots that want data. *)
LEMMA TickWanted ==
  ASSUME ETypes, STypes, Stream, Staged, Tick, STypes', ETypes', UnitStage',
         StaysIdle \/ Begins \/ Works \/ Ends
  PROVE  /\ ~Fire => Wanted' = Wanted
         /\ Fire => Wanted' = Wanted \o SlotsOf(C2HPacket) /\ UnitIdle'
<1>1. /\ Fire => Offer = <<>> /\ Offer' = SlotsOf(C2HPacket)
      /\ C2HCmdFire => Offer = SlotsOf(c2h.pkt) /\ Offer' = <<>>
      /\ ~Fire /\ ~C2HCmdFire => Offer' = Offer
  BY OfferIs
<1>2. /\ UnitIdle => Wanted = slots \o Offer
      /\ UnitBusy => Wanted = <<>>
  <2>1. UnitBusy => ~UnitIdle
    BY DEF UnitBusy, UnitIdle
  <2> QED
    BY <2>1, WantedIs DEF UnitIdle, Staged, UnitStage
<1>3. /\ UnitIdle' => Wanted' = slots' \o Offer'
      /\ UnitBusy' => Wanted' = <<>>
  <2> DEFINE flags == \A k \in 1 .. Len(slots') : slots'[k].off = Flag
             data == IF flags THEN <<>> ELSE slots'
  <2>1. Wanted' = data \o Offer'
    BY Zenon DEF Wanted, Offer
  <2>2. slots' \in Seq(SlotType) /\ Len(slots') \in Nat
    BY DEF STypes
  <2>3. ASSUME UnitIdle' PROVE data = slots'
    <3>1. CASE slots' = <<>>
      BY <3>1
    <3>2. CASE slots' # <<>>
      <4>1. 1 \in 1 .. Len(slots')
        BY <2>2, <3>2
      <4>2. ~flags
        BY <2>3, <4>1 DEF UnitIdle, FlagSlot
      <4> QED
        BY <4>2
    <3> QED
      BY <3>1, <3>2
  <2>4. ASSUME UnitBusy' PROVE Wanted' = <<>>
    <3>1. Offer' = <<>>
      BY <2>4 DEF UnitBusy, Quiet, Offer
    <3>2. Asking' \/ Placing' \/ Placed'
      BY <2>4 DEF UnitStage, UnitBusy, UnitIdle
    <3>3. slots' = <<>> \/ slots' = <<FlagOf'>>
      BY <3>2 DEF Asking, Placing, Placed, FlagOf
    <3>4. FlagOf'.off = Flag
      BY DEF FlagOf, Flag
    <3>5. flags
      BY <3>3, <3>4
    <3>6. data = <<>>
      BY <3>5
    <3> HIDE DEF data
    <3>7. Wanted' = <<>> \o <<>>
      BY <2>1, <3>1, <3>6
    <3> QED
      BY <3>7
  <2> HIDE DEF data
  <2> QED
    BY <2>1, <2>3, <2>4
<1>4. slots \in Seq(SlotType) /\ slots' \in Seq(SlotType) /\ Offer \in Seq(SlotType)
  BY OfferType DEF STypes
<1>5. C2HCmdFire => ~Fire
  BY DEF C2HCmdFire, Fire, CmdOutReady, c2h_finish
<1>6. CASE StaysIdle
  <2>1. Wanted = slots \o Offer /\ Wanted' = slots' \o Offer'
    BY <1>2, <1>3, <1>6 DEF StaysIdle
  <2>2. CASE PortTakes
    <3>1. slots' = slots \o Offer /\ Offer' = <<>> /\ ~Fire
      BY <1>1, <1>5, <2>2 DEF PortTakes
    <3>2. Wanted' = (slots \o Offer) \o <<>>
      BY <2>1, <3>1
    <3>3. slots \o Offer \in Seq(SlotType)
      BY <1>4, ConcatProperties
    <3> QED
      BY <2>1, <3>1, <3>2, <3>3, EmptyJoin
  <2>3. CASE PortRests
    <3>1. slots' = slots /\ ~C2HCmdFire
      BY <2>3 DEF PortRests
    <3>2. Fire => Wanted = slots
      BY <1>1, <1>4, <2>1, EmptyJoin
    <3> QED
      BY <1>1, <1>6, <2>1, <3>1, <3>2 DEF StaysIdle
  <2> QED
    BY <1>6, <2>2, <2>3 DEF StaysIdle
<1>7. CASE Begins
  <2>1. ~Fire /\ Wanted' = <<>> /\ slots = <<>> /\ Offer = <<>>
    BY <1>3, <1>7 DEF Begins, Quiet, Offer
  <2>2. Wanted = <<>> \o <<>>
    BY <1>2, <1>7, <2>1 DEF Begins
  <2> QED
    BY <2>1, <2>2
<1>8. CASE Works
  BY <1>2, <1>3, <1>8 DEF Works
<1>9. CASE Ends
  <2>1. ~Fire /\ Wanted = <<>> /\ slots' = <<>> /\ Offer' = <<>>
    BY <1>2, <1>9 DEF Ends, Quiet, Offer, PortRests
  <2>2. Wanted' = <<>> \o <<>>
    BY <1>3, <1>9, <2>1 DEF Ends
  <2> QED
    BY <2>1, <2>2
<1> QED
  BY <1>6, <1>7, <1>8, <1>9

LEMMA TickStream ==
  ASSUME Staged, HTypes, AllFired, InRange, Stream, Names, Tick,
         STypes', ETypes', UnitStage', StaysIdle \/ Begins \/ Works \/ Ends
  PROVE  Stream'
<1>1. QTypes /\ ETypes /\ STypes /\ AllFlags /\ Regular /\ Pace
  BY DEF Staged
<1>2. posted' = posted
  BY ReaderIs
<1>3. tmp' = tmp
  BY <1>1, PortCases DEF Staged
<1>4. CASE Fire
  <2> DEFINE k == C2HPacket
             r == M2HRequest'
  <2>1. OnTheWay' = OnTheWay \o BeatsOf(r) /\ Wanted' = Wanted \o SlotsOf(k)
    BY <1>1, <1>3, <1>4, TickWay, TickWanted
  <2>2. r = [addr |-> head[out].m2h_addr, len |-> head[out].length]
    BY <1>1, <1>4, RequestSent
  <2>3. /\ \A j \in 1 .. k.len : Good(SlotsOf(k)[j], posted)
        /\ head[out].m2h_addr = posted[k.id.n].m2h + k.off
        /\ posted[k.id.n].m2h \in Nat
        /\ head[out].m2h_addr + head[out].length =< AddrSpace
    BY <1>1, <1>4, SentGood
  <2>4. k.len = head[out].length /\ head[out].length >= 1
    <3>1. k.len = head[out].length /\ head[out].length \in 1 .. job[out].len
      BY <1>1, <1>4, PacketSent
    <3> QED
      BY <3>1
  <2>5. k \in [id : Ids, off : Nat, len : 0 .. AddrSpace]
    BY <1>1, PacketType
  <2>6. r \in [addr : 0 .. AddrSpace - 1, len : 0 .. AddrSpace]
    <3>1. head[out] \in HeadType
      BY <1>1, <1>4, FireIs DEF QTypes
    <3>2. head[out].m2h_addr \in 0 .. AddrSpace - 1 /\ head[out].length \in 0 .. AddrSpace
      BY <3>1 DEF HeadType
    <3> QED
      BY <2>2, <3>2
  <2>7. r.addr = head[out].m2h_addr /\ r.len = head[out].length
    BY <2>2
  <2>8. c2h'.state = "send" /\ c2h'.pkt = k
    BY <1>1, <1>4, EngineBusy
  <2> HIDE DEF k, r
  <2>9. Paired(OnTheWay, Wanted, posted)
    BY DEF Stream
  <2>10. r.addr + r.len =< AddrSpace /\ r.addr = posted[k.id.n].m2h + k.off /\ r.len = k.len
    BY <2>3, <2>4, <2>7
  <2>11. Paired(OnTheWay \o BeatsOf(r), Wanted \o SlotsOf(k), posted)
    BY <2>3, <2>5, <2>6, <2>9, <2>10, PairedAppend
  <2>12. Paired(OnTheWay', Wanted', posted')
    BY <1>2, <2>1, <2>11
  <2>13. M2HRequest' = [addr |-> Source(c2h'.pkt, posted'), len |-> c2h'.pkt.len]
    <3>1. r = [addr |-> r.addr, len |-> r.len]
      BY <2>2, <2>7
    <3> QED
      BY <1>2, <2>8, <2>10, <3>1 DEF Source, r
  <2>14. c2h'.pkt.len >= 1
    BY <2>4, <2>8
  <2> QED
    BY <2>12, <2>13, <2>14, Zenon DEF Stream
<1>5. CASE ~Fire
  <2>1. OnTheWay' = OnTheWay /\ Wanted' = Wanted
    BY <1>1, <1>3, <1>5, TickWay, TickWanted
  <2>2. ~m2h_start'
    BY <1>5, ReaderIs
  <2>3. Paired(OnTheWay', Wanted', posted')
    BY <1>2, <2>1 DEF Stream
  <2>4. c2h'.state = "send" => c2h'.pkt.len >= 1
    <3> SUFFICES ASSUME c2h'.state = "send" PROVE c2h'.pkt.len >= 1
      OBVIOUS
    <3>1. c2h.state = "send" /\ c2h'.pkt = c2h.pkt
      BY <1>1, <1>5, EngineFields DEF EngineMoves
    <3> QED
      BY <3>1 DEF Stream
  <2> QED
    BY <2>2, <2>3, <2>4, Zenon DEF Stream
<1> QED
  BY <1>4, <1>5

-----------------------------------------------------------------------------
(* Names. *)

(* A queue after an edge, element by element.                                *)
Popped(i) == IF CmdInFire(i) THEN 1 ELSE 0
Arrives(i) == req # <<>> /\ req[1].q = i

LEMMA FifoElements ==
  ASSUME QTypes, NEW i \in Queues, NEW k \in 1 .. Len(FifoNext(i))
  PROVE  \/ k + Popped(i) \in 1 .. Len(fifo[i]) /\ FifoNext(i)[k] = fifo[i][k + Popped(i)]
         \/ Arrives(i) /\ k + Popped(i) = Len(fifo[i]) + 1 /\ FifoNext(i)[k] = req[1].cmd
<1> DEFINE f == fifo[i]
           left == IF CmdInFire(i) THEN Tail(f) ELSE f
           d == Popped(i)
           here == req # <<>> /\ req[1].q = i /\ Len(f) < QDepth
<1>1. f \in Seq(Job) /\ Len(f) \in Nat
  BY DEF QTypes
<1>2. /\ left \in Seq(Job) /\ Len(left) = Len(f) - d /\ d \in {0, 1}
      /\ \A j \in 1 .. Len(left) : left[j] = f[j + d]
  <2>1. CASE CmdInFire(i)
    <3>1. f # <<>> /\ left = Tail(f) /\ d = 1
      BY <2>1 DEF CmdInFire, Popped
    <3> HIDE DEF left, d, f
    <3> QED
      BY <1>1, <3>1, HeadTail
  <2>2. CASE ~CmdInFire(i)
    <3>1. left = f /\ d = 0
      BY <2>2 DEF Popped
    <3> HIDE DEF left, d, f
    <3> QED
      BY <1>1, <3>1
  <2> QED
    BY <2>1, <2>2
<1>3. FifoNext(i) = IF here THEN Append(left, req[1].cmd) ELSE left
  BY DEF FifoNext
<1>4. here => Arrives(i)
  BY DEF Arrives
<1>5. here => req[1].cmd \in Job
  <2>1. req \in Seq([q : Queues, cmd : Job])
    BY DEF QTypes
  <2>2. req # <<>> => req[1] \in [q : Queues, cmd : Job]
    BY <2>1, HeadTail
  <2> QED
    BY <2>2
<1> DEFINE e == req[1].cmd
<1> HIDE DEF left, d, here, f, e
<1>6. CASE here
  <2>1. FifoNext(i) = Append(left, e)
    BY <1>3, <1>6 DEF e
  <2>2. k \in 1 .. Len(left) + 1 /\ Len(left) \in Nat
    BY <1>2, <2>1
  <2>3. CASE k = Len(left) + 1
    <3>1. FifoNext(i)[k] = e /\ k + d = Len(f) + 1
      BY <1>1, <1>2, <2>1, <2>2, <2>3
    <3> QED
      BY <1>4, <1>6, <3>1 DEF d, e, f
  <2>4. CASE k # Len(left) + 1
    <3>1. k \in 1 .. Len(left)
      BY <2>2, <2>4
    <3>2. FifoNext(i)[k] = left[k]
      BY <1>2, <2>1, <3>1
    <3>3. k + d \in 1 .. Len(f)
      BY <1>1, <1>2, <3>1
    <3> QED
      BY <1>2, <3>1, <3>2, <3>3 DEF d, f
  <2> QED
    BY <2>3, <2>4
<1>7. CASE ~here
  <2>1. FifoNext(i) = left
    BY <1>3, <1>7
  <2>2. k \in 1 .. Len(left)
    BY <2>1
  <2>3. k + d \in 1 .. Len(f)
    BY <1>1, <1>2, <2>2
  <2> QED
    BY <1>2, <2>1, <2>2, <2>3 DEF d, f
<1> QED
  BY <1>6, <1>7

LEMMA LastPosted ==
  ASSUME QTypes, HTypes, Names, req # <<>>
  PROVE  /\ Own(req[1].cmd, req[1].q) /\ req[1].cmd.id.n = Len(posted) /\ Len(posted) \in Nat
         /\ \A i \in Queues : /\ job[i].id.n < Len(posted)
                              /\ \A k \in 1 .. Len(fifo[i]) : fifo[i][k].id.n < Len(posted)
<1>1. /\ Len(posted) >= 1 /\ req[1].cmd = posted[Len(posted)] /\ req[1].cmd.id.q = req[1].q
      /\ \A i \in Queues : /\ job[i].id.n < Len(posted)
                           /\ \A k \in 1 .. Len(fifo[i]) : fifo[i][k].id.n < Len(posted)
  BY DEF Names, ReqNamed
<1>2. Len(posted) \in 1 .. Len(posted) /\ Len(posted) \in Nat
  BY <1>1 DEF HTypes
<1>3. posted[Len(posted)].id.n = Len(posted)
  BY <1>2 DEF Names, PostedNamed
<1> QED
  BY <1>1, <1>2, <1>3 DEF Own

LEMMA TickNames ==
  ASSUME QTypes, HTypes, AllFlags, Regular, Names, Tick
  PROVE  Names'
<1>1. posted' = posted /\ req' = <<>>
  BY ReaderIs
<1>2. PostedNamed'
  BY <1>1 DEF Names, PostedNamed
<1>3. ReqNamed'
  BY <1>1 DEF ReqNamed
<1>4. ASSUME NEW i \in Queues PROVE FifoNamed(i)' /\ JobNamed(i)'
  <2> DEFINE d == Popped(i)
             f == fifo[i]
             g == fifo'[i]
             j == IF CmdInFire(i) THEN f[1] ELSE job[i]
  <2>1. g = FifoNext(i)
    BY <1>4, TickHead
  <2>2. job'[i] = j
    <3>1. CmdInFire(i) => Head(f) = f[1]
      BY NextCommand
    <3> QED
      BY <3>1, HistoryIs
  <2>3. /\ FifoNamed(i) /\ JobNamed(i)
    BY DEF Names
  <2>4. d \in {0, 1} /\ (CmdInFire(i) <=> d = 1) /\ Len(f) \in Nat
    BY DEF Popped, QTypes
  <2>5. \A k \in 1 .. Len(g) :
          \/ k + d \in 1 .. Len(f) /\ g[k] = f[k + d]
          \/ Arrives(i) /\ k + d = Len(f) + 1 /\ g[k] = req[1].cmd
    BY <2>1, FifoElements
  <2>6. j.id.n \in Int
    <3>1. j \in Job
      <4>1. CmdInFire(i) => f[1] \in Job
        BY CommandWaits
      <4>2. job[i] \in Job
        BY DEF HTypes
      <4> QED
        BY <4>1, <4>2
    <3> QED
      BY <3>1, ConstantsAssumption DEF Job, Ids
  <2>7. \A m \in 1 + d .. Len(f) : Own(f[m], i) /\ j.id.n < f[m].id.n
    <3> TAKE m \in 1 + d .. Len(f)
    <3>1. m \in 1 .. Len(f)
      BY <2>4
    <3>2. Own(f[m], i) /\ job[i].id.n < f[m].id.n /\ \A l \in 1 .. m - 1 : f[l].id.n < f[m].id.n
      BY <2>3, <3>1 DEF FifoNamed
    <3>3. CmdInFire(i) => 1 \in 1 .. m - 1
      BY <2>4
    <3> QED
      BY <3>2, <3>3
  <2>8. Arrives(i) => /\ Own(req[1].cmd, i) /\ j.id.n < req[1].cmd.id.n
                      /\ \A m \in 1 .. Len(f) : f[m].id.n < req[1].cmd.id.n
    <3> SUFFICES ASSUME Arrives(i)
                 PROVE  /\ Own(req[1].cmd, i) /\ j.id.n < req[1].cmd.id.n
                        /\ \A m \in 1 .. Len(f) : f[m].id.n < req[1].cmd.id.n
      OBVIOUS
    <3>1. /\ Own(req[1].cmd, i) /\ req[1].cmd.id.n = Len(posted)
          /\ job[i].id.n < Len(posted)
          /\ \A m \in 1 .. Len(f) : f[m].id.n < Len(posted)
      BY LastPosted DEF Arrives
    <3>2. CmdInFire(i) => 1 \in 1 .. Len(f)
      BY NextCommand
    <3> QED
      BY <3>1, <3>2
  <2>9. ASSUME NEW k \in 1 .. Len(g)
        PROVE  /\ Own(g[k], i) /\ j.id.n < g[k].id.n
               /\ \A l \in 1 .. k - 1 : g[l].id.n < g[k].id.n
    <3> HIDE DEF d, f, g, j
    <3>0. k \in Nat /\ k >= 1
      BY <2>9
    <3>1. CASE k + d \in 1 .. Len(f) /\ g[k] = f[k + d]
      <4>1. k + d \in 1 + d .. Len(f)
        BY <2>4, <2>9, <3>0, <3>1
      <4>2. Own(g[k], i) /\ j.id.n < g[k].id.n
        BY <2>7, <3>1, <4>1
      <4>3. \A l \in 1 .. k - 1 : g[l].id.n < g[k].id.n
        <5> TAKE l \in 1 .. k - 1
        <5>1. l \in 1 .. Len(g) /\ l + d # Len(f) + 1 /\ l + d \in 1 .. (k + d) - 1
          BY <2>4, <2>9, <3>1, <3>0
        <5>2. g[l] = f[l + d]
          BY <2>5, <5>1
        <5>3. f[l + d].id.n < f[k + d].id.n
          BY <2>3, <3>1, <5>1 DEF FifoNamed, f
        <5> QED
          BY <3>1, <5>2, <5>3
      <4> QED
        BY <4>2, <4>3
    <3>2. CASE Arrives(i) /\ k + d = Len(f) + 1 /\ g[k] = req[1].cmd
      <4>1. Own(g[k], i) /\ j.id.n < g[k].id.n
        BY <2>8, <3>2
      <4>2. \A l \in 1 .. k - 1 : g[l].id.n < g[k].id.n
        <5> TAKE l \in 1 .. k - 1
        <5>1. l \in 1 .. Len(g) /\ l + d # Len(f) + 1
          BY <2>4, <2>9, <3>2, <3>0
        <5>2. l + d \in 1 .. Len(f) /\ g[l] = f[l + d]
          BY <2>5, <5>1
        <5> QED
          BY <2>8, <3>2, <5>2
      <4> QED
        BY <4>1, <4>2
    <3> QED
      BY <2>5, <2>9, <3>1, <3>2
  <2>10. FifoNamed(i)'
    <3> SUFFICES ASSUME NEW k \in 1 .. Len(fifo'[i])
                 PROVE  /\ Own(fifo[i][k], i)' /\ job'[i].id.n < fifo'[i][k].id.n
                        /\ \A l \in 1 .. k - 1 : fifo'[i][l].id.n < fifo'[i][k].id.n
      BY DEF FifoNamed
    <3>1. /\ Own(fifo'[i][k], i) /\ j.id.n < fifo'[i][k].id.n
          /\ \A l \in 1 .. k - 1 : fifo'[i][l].id.n < fifo'[i][k].id.n
      BY <2>9
    <3> QED
      BY <1>1, <2>2, <3>1 DEF Own
  <2>11. JobNamed(i)'
    <3>1. CmdInFire(i) => Own(f[1], i)
      BY NextCommand
    <3>2. j = NoJob \/ Own(j, i)
      BY <2>3, <3>1 DEF JobNamed
    <3> QED
      BY <1>1, <2>2, <3>2 DEF JobNamed, Own
  <2> QED
    BY <2>10, <2>11
<1> QED
  BY <1>2, <1>3, <1>4 DEF Names

-----------------------------------------------------------------------------
(* Types after an edge, part by part. *)

LEMMA TickQTypes ==
  ASSUME QTypes, Tick
  PROVE  QTypes'
<1>1. req' = <<>> /\ fifo' = [i \in Queues |-> FifoNext(i)] /\ head' = [i \in Queues |-> HeadNext(i)]
  BY DEF Tick
<1>2. fifo' \in [Queues -> Seq(Job)] /\ \A i \in Queues : Len(fifo'[i]) =< QDepth
  BY <1>1, FifoNextType
<1>3. head' \in [Queues -> HeadType]
  BY <1>1, HeadNextType
<1>4. out' \in Queues \union {Window} /\ next' \in Queues
  <2>1. Succ(next) \in Queues
    BY ConstantsAssumption DEF QTypes, Succ, Queues
  <2>2. out' \in {Window, next, out} /\ next' \in {Succ(next), next}
    BY DEF Tick, Schedule
  <2> QED
    BY <2>1, <2>2 DEF QTypes
<1>5. req' \in Seq([q : Queues, cmd : Job]) /\ Len(req') =< 1
  BY <1>1
<1> QED
  BY <1>2, <1>3, <1>4, <1>5 DEF QTypes

LEMMA WindowType ==
  ASSUME ETypes, Tick
  PROVE  win' \in [cpt_working : BOOLEAN, h2m_complete : BOOLEAN,
                   hold1 : 0 .. HoldSpan - 1, hold2 : 0 .. HoldSpan - 1]
<1> DEFINE start  == h2d.complete /\ ~was.h2d_complete
           count1 == out = Window /\ win.hold1 # 0
           count2 == out = Window /\ win.hold1 = 0 /\ Drained
           raise  == count2 /\ win.hold2 = 0 /\ tmp = <<>>
           n1 == IF count1 THEN win.hold1 - 1 ELSE win.hold1
           n2 == IF count2 THEN (win.hold2 + HoldSpan - 1) % HoldSpan ELSE win.hold2
           w1 == win.cpt_working \/ start
           w2 == win.h2m_complete \/ raise
<1>1. win' = IF Leave
             THEN [cpt_working |-> FALSE, h2m_complete |-> FALSE, hold1 |-> Drain, hold2 |-> Drain]
             ELSE [cpt_working |-> w1, h2m_complete |-> w2, hold1 |-> n1, hold2 |-> n2]
  BY DEF Tick, WindowStep
<1>2. win.hold1 \in 0 .. HoldSpan - 1 /\ win.hold2 \in 0 .. HoldSpan - 1
      /\ HoldSpan \in Nat \ {0} /\ Drain \in 0 .. HoldSpan - 1
  BY ConstantsAssumption DEF ETypes
<1>3. n1 \in 0 .. HoldSpan - 1
  <2> HIDE DEF count2
  <2> QED BY <1>2
<1>4. n2 \in 0 .. HoldSpan - 1
  <2> HIDE DEF count2
  <2> QED BY <1>2
<1>5. w1 \in BOOLEAN /\ w2 \in BOOLEAN
  <2> HIDE DEF start, raise
  <2> QED BY Zenon
<1> HIDE DEF n1, n2, w1, w2
<1> QED
  BY <1>1, <1>2, <1>3, <1>4, <1>5

LEMMA TickETypes ==
  ASSUME QTypes, ETypes, Pace, Tick
  PROVE  ETypes'
<1>1. win' \in [cpt_working : BOOLEAN, h2m_complete : BOOLEAN,
                hold1 : 0 .. HoldSpan - 1, hold2 : 0 .. HoldSpan - 1]
  BY WindowType
<1>2. c2h' \in [state : {"idle", "send", "done"}, valid : BOOLEAN, hold : 0 .. 15,
                pkt : [id : Ids, off : Nat, len : 0 .. AddrSpace]]
  BY TickEngineType
<1>3. m2h_start' \in BOOLEAN /\ m2h_finish' \in BOOLEAN
  BY DEF Tick, ReaderStep, Fire, CmdOutReady, ETypes
<1>4. age' \in 0 .. Lat + 1
  <2>1. /\ m2h_start => age = 0
        /\ request # <<>> => age < Lat
        /\ age' = IF m2h_start \/ request # <<>> THEN age + 1 ELSE 0
    BY ReaderIs DEF Pace
  <2>2. age \in 0 .. Lat + 1 /\ Lat \in Nat
    BY ConstantsAssumption DEF ETypes
  <2> QED
    BY <2>1, <2>2
<1>5. /\ request' \in Seq([addr : 0 .. AddrSpace - 1, len : 0 .. AddrSpace])
      /\ Len(request') =< 1
  <2>1. CASE m2h_start
    <3> DEFINE r == M2HRequest
    <3>1. request' = <<r>> /\ r \in [addr : 0 .. AddrSpace - 1, len : 0 .. AddrSpace]
      BY <2>1, ReaderIs, RequestType
    <3> HIDE DEF r
    <3> QED
      BY <3>1
  <2>2. CASE ~m2h_start
    BY <2>2, ReaderIs DEF ETypes
  <2> QED
    BY <2>1, <2>2
<1> QED
  BY <1>1, <1>2, <1>3, <1>4, <1>5 DEF ETypes

LEMMA TickSTypes ==
  ASSUME Staged, Tick
  PROVE  STypes'
<1>1. /\ PortRests \/ PortTakes \/ PortPlaces \/ PortLands
      /\ tmp' = tmp /\ ~data_ready'
  BY PortCases DEF Staged
<1>2. reading' = reading /\ m2hq' = m2hq
  BY ReaderIs
<1>3. slots \in Seq(SlotType)
  BY DEF Staged, STypes
<1>4. slots' \in Seq(SlotType)
  <2>1. CASE PortRests
    BY <1>3, <2>1 DEF PortRests
  <2>2. CASE PortTakes
    <3>1. SlotsOf(c2h.pkt) \in Seq(SlotType)
      <4>1. c2h.pkt \in [id : Ids, off : Nat, len : 0 .. AddrSpace]
        BY DEF Staged, ETypes
      <4> QED
        BY <4>1, SlotsType
    <3>2. slots' = slots \o SlotsOf(c2h.pkt)
      BY <2>2 DEF PortTakes
    <3> DEFINE s == SlotsOf(c2h.pkt)
    <3> HIDE DEF s
    <3> QED
      BY <1>3, <3>1, <3>2 DEF s
  <2>3. CASE PortPlaces
    <3>1. FlagOf \in SlotType
      BY ConstantsAssumption DEF FlagOf, SlotType, Staged, CTypes, UnitType, Flag
    <3>2. slots' = <<FlagOf>>
      BY <2>3 DEF PortPlaces
    <3> DEFINE f == FlagOf
    <3> HIDE DEF f
    <3> QED
      BY <3>1, <3>2 DEF f
  <2>4. CASE PortLands
    BY <2>4 DEF PortLands
  <2> QED
    BY <1>1, <2>1, <2>2, <2>3, <2>4
<1>5. cmd_ready' \in BOOLEAN /\ data_ready' \in BOOLEAN
  BY DEF Tick, PortStep
<1> QED
  BY <1>1, <1>2, <1>4, <1>5 DEF Staged, STypes

LEMMA TickCTypes ==
  ASSUME Staged, Tick
  PROVE  CTypes'
<1>1. cpt' \in UnitType
  BY UnitFacts DEF Staged
<1>2. was' \in [h2d_last : BOOLEAN, h2d_complete : BOOLEAN, d2h_last : BOOLEAN]
  <2>1. was' = [h2d_last |-> h2d.last, h2d_complete |-> h2d.complete, d2h_last |-> This.last]
    BY DEF Tick, CompletionStep, This
  <2>2. h2d.last \in BOOLEAN /\ h2d.complete \in BOOLEAN
    BY DEF Staged, CTypes
  <2>3. This.last \in BOOLEAN
    BY SelType DEF Staged, HeadType
  <2> QED
    BY <2>1, <2>2, <2>3
<1>3. h2d' \in [last : BOOLEAN, complete : BOOLEAN, n : 0 .. MaxH2D]
  <2>1. h2d \in [last : BOOLEAN, complete : BOOLEAN, n : 0 .. MaxH2D]
    BY DEF Staged, CTypes
  <2>2. h2d' = h2d \/ h2d' = [h2d EXCEPT !.last = FALSE, !.complete = FALSE]
    BY DEF Tick, H2DStep
  <2> QED
    BY <2>1, <2>2
<1> QED
  BY <1>1, <1>2, <1>3 DEF CTypes

LEMMA TickHTypes ==
  ASSUME Staged, HTypes, AllFired, Names, Tick
  PROVE  HTypes'
<1>1. PortRests \/ PortTakes \/ PortPlaces \/ PortLands
  BY PortCases DEF Staged
<1>2. /\ host' \in SUBSET [id : Ids, off : Nat, beat : 0 .. FlagBeat]
      /\ notified' \in Seq(Ids)
  <2>1. CASE PortLands
    <3>1. FlagOf \in SlotType
      BY ConstantsAssumption DEF FlagOf, SlotType, Staged, CTypes, UnitType, Flag
    <3>2. FlagBeat \in 0 .. FlagBeat
      BY ConstantsAssumption DEF FlagBeat
    <3>3. Land(FlagOf, FlagBeat)
      BY <2>1 DEF PortLands
    <3> QED
      BY <3>1, <3>2, <3>3, LandType
  <2>2. CASE ~PortLands
    BY <1>1, <2>2 DEF PortRests, PortTakes, PortPlaces, HTypes
  <2> QED
    BY <2>1, <2>2
<1>3. posted' = posted
  BY ReaderIs
<1>4. job' \in [Queues -> Job]
  <2>1. job' = [i \in Queues |-> IF CmdInFire(i) THEN Head(fifo[i]) ELSE job[i]]
    BY DEF Tick, HistoryStep
  <2>2. \A i \in Queues : CmdInFire(i) => Head(fifo[i]) \in Job
    BY CommandWaits DEF Staged
  <2>3. \A i \in Queues : job[i] \in Job
    BY DEF HTypes
  <2> QED
    BY <2>1, <2>2, <2>3
<1>5. sent' \in [Queues -> Nat]
  <2>1. sent' = [i \in Queues |-> IF CmdInFire(i) THEN 0
                 ELSE IF Fire /\ Sel = i THEN sent[i] + head[i].length ELSE sent[i]]
    BY DEF Tick, HistoryStep
  <2>2. \A i \in Queues : sent[i] \in Nat /\ head[i].length \in Nat
    <3> TAKE i \in Queues
    <3>1. head[i] \in HeadType
      BY DEF Staged, QTypes
    <3> QED
      BY <3>1, ConstantsAssumption DEF HTypes, HeadType
  <2> QED
    BY <2>1, <2>2
<1> QED
  BY <1>2, <1>3, <1>4, <1>5 DEF HTypes

-----------------------------------------------------------------------------
(* What has been reported after an edge. *)

LEMMA HToldIs ==
  ASSUME HStage
  PROVE  /\ HTold <=> \/ ~h2d.last
                      \/ cpt.h2c_started /\ FlagDone
                      \/ h2d.last /\ cpt.h2c_cpt_complete /\ cpt.h2c_was
         /\ cpt.h2c_started <=> H5
         /\ h2d.last /\ h2d.complete /\ cpt.h2c_cpt_complete <=> H6
         /\ h2d.last /\ win.h2m_complete /\ cpt.h2c_cpt_complete => H6
         /\ h2d.last /\ cpt.h2c_cpt_complete /\ cpt.h2c_was => H6
         /\ H5 => ~H0 /\ ~H6 /\ win.h2m_complete /\ h2d.last
         /\ H6 => h2d.complete /\ h2d.last /\ cpt.h2c_cpt_complete
<1> USE DEF HStage
<1>1. CASE H0
  BY <1>1, Zenon DEF HTold, H0, H5, H6, Open, Mine, WinOff
<1>2. CASE H1
  BY <1>2, Zenon DEF HTold, H0, H1, H5, H6, Open, Mine, WinOff
<1>3. CASE H2
  BY <1>3, Zenon DEF HTold, H0, H2, H5, H6, Open, Mine, WinOff
<1>4. CASE H3
  BY <1>4, Zenon DEF HTold, H0, H3, H5, H6, Open, Mine, WinOff
<1>5. CASE H4
  BY <1>5, Zenon DEF HTold, H0, H4, H5, H6, Open, Mine, WinOff
<1>6. CASE H5
  BY <1>6, Zenon DEF HTold, H0, H5, H6, Open, Mine, WinOff
<1>7. CASE H6
  BY <1>7, Zenon DEF HTold, H0, H5, H6, Open, Mine, WinOff
<1> QED
  BY <1>1, <1>2, <1>3, <1>4, <1>5, <1>6, <1>7

LEMMA DToldIs ==
  ASSUME DStage
  PROVE  /\ DTold <=> \/ cpt.c2h_started /\ FlagDone
                      \/ This.last /\ cpt.c2h_cpt_complete /\ cpt.c2h_was
         /\ cpt.c2h_started <=> D4
         /\ This.last /\ This.m2h_complete /\ cpt.c2h_cpt_complete => D5
         /\ D4 => This.last /\ This.m2h_complete /\ ~D5
         /\ D5 => This.last /\ This.m2h_complete /\ cpt.c2h_cpt_complete
         /\ DTold => This.last /\ This.m2h_complete
<1> USE DEF DStage
<1>1. CASE D0
  BY <1>1, Zenon DEF DTold, D0, D4, D5, Ended, Yours
<1>2. CASE D1
  BY <1>2, Zenon DEF DTold, D1, D4, D5, Ended, Yours
<1>3. CASE D2
  BY <1>3, Zenon DEF DTold, D2, D4, D5, Ended, Yours
<1>4. CASE D3
  BY <1>4, Zenon DEF DTold, D3, D4, D5, Ended, Yours
<1>5. CASE D4
  BY <1>5, Zenon DEF DTold, D4, D5, Ended, Yours
<1>6. CASE D5
  BY <1>6, Zenon DEF DTold, D4, D5, Ended, Yours
<1> QED
  BY <1>1, <1>2, <1>3, <1>4, <1>5, <1>6

(* The flag of a command is written: by the unit, for the one path it        *)
(* serves.                                                                   *)
LandsH    == PortLands /\ H5
LandsD(i) == PortLands /\ D4 /\ Sel = i

(* What the unit's flags say while it works. *)
LEMMA UnitSays ==
  ASSUME UnitStage, UnitStage', UnitMoves(cpt'), StaysIdle \/ Begins \/ Works \/ Ends
  PROVE  /\ Written(cpt) <=> (UnitBusy /\ FlagDone)
         /\ PortLands => ~Written(cpt) /\ ~FlagDone /\ FlagDone' /\ UnitBusy
         /\ UnitBusy' /\ FlagDone' => PortLands
         /\ HGo \/ DGo => ~FlagDone'
<1>1. CASE StaysIdle
  BY <1>1, Zenon DEF StaysIdle, UnitIdle, UnitBusy, Written, FlagDone, PortRests, PortTakes, PortLands, CptDataFire
<1>2. CASE Begins
  BY <1>2, Zenon DEF Begins, UnitIdle, UnitBusy, Asking, Written, FlagDone, PortRests, PortLands, CptDataFire
<1>3. CASE Works
  BY <1>3, Zenon DEF Works, UnitBusy, Asking, Placing, Placed, Written, FlagDone, PortRests, PortPlaces, PortLands, CptDataFire
<1>4. CASE Ends
  BY <1>4, Zenon DEF Ends, UnitBusy, UnitIdle, Placed, Written, FlagDone, PortRests, PortLands, CptDataFire
<1> QED
  BY <1>1, <1>2, <1>3, <1>4

LEMMA TickHTold ==
  ASSUME Staged, Tick, HStage', UnitStage', UnitMoves(cpt'),
         StaysIdle \/ Begins \/ Works \/ Ends
  PROVE  /\ HTold' <=> HTold \/ LandsH
         /\ LandsH => ~HTold
<1>1. /\ HTold <=> \/ ~h2d.last
                   \/ cpt.h2c_started /\ FlagDone
                   \/ h2d.last /\ cpt.h2c_cpt_complete /\ cpt.h2c_was
      /\ cpt.h2c_started <=> H5
      /\ h2d.last /\ h2d.complete /\ cpt.h2c_cpt_complete <=> H6
      /\ h2d.last /\ win.h2m_complete /\ cpt.h2c_cpt_complete => H6
      /\ h2d.last /\ cpt.h2c_cpt_complete /\ cpt.h2c_was => H6
      /\ H5 => ~H0 /\ ~H6 /\ win.h2m_complete /\ h2d.last
      /\ H6 => h2d.complete /\ h2d.last /\ cpt.h2c_cpt_complete
  BY HToldIs DEF Staged
<1>2. HTold' <=> \/ ~h2d'.last
                 \/ cpt'.h2c_started /\ FlagDone'
                 \/ h2d'.last /\ cpt'.h2c_cpt_complete /\ cpt'.h2c_was
  <2> DEFINE h == h2d'
             c == cpt'
  <2>1. H0' \/ H1' \/ H2' \/ H3' \/ H4' \/ H5' \/ H6'
    BY DEF HStage
  <2>2. H0' => HTold' /\ ~h2d'.last
    BY Zenon DEF HTold, H0
  <2>3. H1' => h2d'.last /\ ~cpt'.h2c_was /\ ~cpt'.h2c_started
    BY Zenon DEF H1
  <2>4. H2' \/ H3' \/ H4' => h2d'.last /\ ~cpt'.h2c_cpt_complete /\ ~cpt'.h2c_started
    BY Zenon DEF H2, H3, H4, Open, Mine
  <2>5. H5' => h2d'.last /\ ~cpt'.h2c_cpt_complete /\ cpt'.h2c_started
    BY Zenon DEF H5, Open, Mine
  <2>6. H6' => h2d'.last /\ cpt'.h2c_cpt_complete /\ ~cpt'.h2c_started /\ cpt'.h2c_was
    BY Zenon DEF H6, Open, Mine
  <2>7. HTold' <=> H0' \/ (H5' /\ FlagDone') \/ H6'
    BY DEF HTold
  <2> QED
    BY <2>1, <2>2, <2>3, <2>4, <2>5, <2>6, <2>7, Zenon
<1>3. /\ Written(cpt) <=> (UnitBusy /\ FlagDone)
      /\ PortLands => ~Written(cpt) /\ ~FlagDone /\ FlagDone' /\ UnitBusy
      /\ UnitBusy' /\ FlagDone' => PortLands
      /\ HGo \/ DGo => ~FlagDone'
  BY UnitSays DEF Staged
<1>4. /\ H6 => ~h2d'.last
      /\ ~H6 => (h2d'.last <=> h2d.last)
  BY <1>1, PathIs DEF Staged
<1>5. cpt.h2c_started => UnitBusy
  BY DEF Staged, UnitStage, UnitIdle
<1>6. cpt'.h2c_started => UnitBusy'
  BY DEF UnitStage, UnitIdle
<1>7. /\ cpt'.h2c_was <=> win.h2m_complete
      /\ cpt'.h2c_cpt_complete <=> (Written(cpt) /\ cpt.h2c_started) \/ (cpt.h2c_cpt_complete /\ ~HStart)
      /\ cpt'.h2c_started <=> (cpt.h2c_started /\ ~Written(cpt)) \/ (~cpt.h2c_started /\ HGo)
  BY DEF UnitMoves
<1>8. H6 => HTold
  BY DEF HTold
<1>9. ASSUME HTold PROVE HTold'
  <2>1. CASE ~h2d.last
    BY <1>1, <1>2, <1>4, <2>1, Zenon
  <2>2. CASE cpt.h2c_started /\ FlagDone
    BY <1>1, <1>2, <1>3, <1>4, <1>5, <1>7, <2>2, Zenon
  <2>3. CASE h2d.last /\ cpt.h2c_cpt_complete /\ cpt.h2c_was
    BY <1>1, <1>2, <1>4, <2>3, Zenon
  <2> QED
    BY <1>1, <1>9, <2>1, <2>2, <2>3
<1>10. ASSUME LandsH PROVE HTold' /\ ~HTold
  <2>1. PortLands /\ H5 /\ cpt.h2c_started
    BY <1>1, <1>10 DEF LandsH
  <2> QED
    BY <1>1, <1>2, <1>3, <1>7, <2>1, Zenon
<1>11. ASSUME HTold', ~HTold PROVE LandsH
  <2>1. h2d.last /\ ~H6 /\ h2d'.last
    BY <1>1, <1>4, <1>8, <1>11
  <2>2. ~(h2d'.last /\ cpt'.h2c_cpt_complete /\ cpt'.h2c_was)
    BY <1>1, <1>3, <1>5, <1>7, <1>11, <2>1, Zenon
  <2>3. cpt'.h2c_started /\ FlagDone'
    BY <1>2, <1>11, <2>1, <2>2
  <2> QED
    BY <1>1, <1>3, <1>6, <1>7, <2>3, Zenon DEF LandsH
<1> QED
  BY <1>9, <1>10, <1>11

LEMMA DToldNext ==
  ASSUME DStage'
  PROVE  DTold' <=> \/ cpt'.c2h_started /\ FlagDone'
                    \/ This'.last /\ cpt'.c2h_cpt_complete /\ cpt'.c2h_was
<1>1. D0' \/ D1' \/ D2' \/ D3' \/ D4' \/ D5'
  BY DEF DStage
<1>2. D0' => ~This'.last /\ ~cpt'.c2h_started
  BY Zenon DEF D0
<1>3. D1' => ~cpt'.c2h_was /\ ~cpt'.c2h_started
  BY Zenon DEF D1
<1>4. D2' \/ D3' => ~cpt'.c2h_cpt_complete /\ ~cpt'.c2h_started
  BY Zenon DEF D2, D3
<1>5. D4' => ~cpt'.c2h_cpt_complete /\ cpt'.c2h_started
  BY Zenon DEF D4
<1>6. D5' => This'.last /\ cpt'.c2h_cpt_complete /\ ~cpt'.c2h_started /\ cpt'.c2h_was
  BY Zenon DEF D5, Ended, Yours
<1>7. DTold' <=> (D4' /\ FlagDone') \/ D5'
  BY DEF DTold
<1> QED
  BY <1>1, <1>2, <1>3, <1>4, <1>5, <1>6, <1>7, Zenon

LEMMA TickToldAt ==
  ASSUME Staged, Names, Tick, DStage', UnitStage', UnitMoves(cpt'), QTypes', AllFlags',
         StaysIdle \/ Begins \/ Works \/ Ends, NEW i \in Queues
  PROVE  /\ CmdInFire(i) => ~ToldAt(i)'
         /\ ~CmdInFire(i) => (ToldAt(i)' <=> ToldAt(i) \/ LandsD(i))
         /\ LandsD(i) => ~ToldAt(i) /\ ~CmdInFire(i)
<1> DEFINE n == head'[i]
<1>1. Loads(i, n) \/ Sends(i, n) \/ Finishes(i, n) \/ Rests(i, n)
  BY HeadMoves DEF Staged
<1>2. Flags(i) /\ QTypes /\ AllFlags /\ Regular
  BY DEF Staged, AllFlags
<1>3. /\ DTold <=> \/ cpt.c2h_started /\ FlagDone
                   \/ This.last /\ cpt.c2h_cpt_complete /\ cpt.c2h_was
      /\ cpt.c2h_started <=> D4
      /\ This.last /\ This.m2h_complete /\ cpt.c2h_cpt_complete => D5
      /\ D4 => This.last /\ This.m2h_complete /\ ~D5
      /\ D5 => This.last /\ This.m2h_complete /\ cpt.c2h_cpt_complete
      /\ DTold => This.last /\ This.m2h_complete
  BY DToldIs DEF Staged
<1>4. DTold' <=> \/ cpt'.c2h_started /\ FlagDone'
                 \/ This'.last /\ cpt'.c2h_cpt_complete /\ cpt'.c2h_was
  BY DToldNext
<1>5. DTold' => This'.last /\ This'.m2h_complete
  BY Zenon DEF DTold, D4, D5, Ended, Yours
<1>6. /\ Written(cpt) <=> (UnitBusy /\ FlagDone)
      /\ PortLands => ~Written(cpt) /\ ~FlagDone /\ FlagDone' /\ UnitBusy
      /\ UnitBusy' /\ FlagDone' => PortLands
      /\ HGo \/ DGo => ~FlagDone'
  BY UnitSays DEF Staged
<1>7. /\ cpt.c2h_started => UnitBusy
      /\ cpt'.c2h_started => UnitBusy'
  BY DEF Staged, UnitStage, UnitIdle
<1>8. /\ cpt'.c2h_was <=> This.m2h_complete
      /\ cpt'.c2h_cpt_complete <=> (Written(cpt) /\ cpt.c2h_started) \/ (cpt.c2h_cpt_complete /\ ~DStart)
      /\ cpt'.c2h_started <=> (cpt.c2h_started /\ ~Written(cpt)) \/ (~cpt.c2h_started /\ DGo)
  BY DEF UnitMoves
<1>9. Sel' = i => This' = n
  BY DEF This
<1>10. Sel = i => This = head[i]
  BY DEF This
<1>11. head[i].last => Sel = i /\ Sel' = i /\ head[i].working
  <2> SUFFICES ASSUME head[i].last PROVE Sel = i /\ Sel' = i /\ head[i].working
    OBVIOUS
  <2>1. Sel = i /\ head[i].working
    BY <1>2, LastIs
  <2>2. This.last
    BY <1>10, <2>1
  <2> QED
    BY <1>2, <2>1, <2>2, SelectionStays
<1> HIDE DEF n
<1>12. ASSUME CmdInFire(i) PROVE ~ToldAt(i)' /\ ~LandsD(i)
  <2>1. n.working /\ ~n.last /\ ~head[i].working
    BY <1>1, <1>12 DEF Loads, Sends, Finishes, Rests
  <2>2. ~(Sel' = i /\ DTold')
    BY <1>5, <1>9, <2>1
  <2>3. ~LandsD(i)
    BY <1>3, <1>10, <1>11, <2>1 DEF LandsD
  <2> QED
    BY <2>1, <2>2, <2>3 DEF ToldAt, n
<1>13. ASSUME ~CmdInFire(i), ToldAt(i) PROVE ToldAt(i)' /\ ~LandsD(i)
  <2>1. CASE ~head[i].working
    <3>1. ~n.working
      BY <1>1, <1>2, <1>13, <2>1 DEF Loads, Sends, Finishes, Rests, Flags
    <3>2. ~LandsD(i)
      BY <1>3, <1>10, <1>11, <2>1 DEF LandsD
    <3> QED
      BY <3>1, <3>2 DEF ToldAt, n
  <2>2. CASE head[i].working
    <3>1. Sel = i /\ DTold /\ head[i].last /\ head[i].m2h_complete
      BY <1>3, <1>10, <1>13, <2>2 DEF ToldAt
    <3>2. CASE D5
      <4>1. Finishes(i, n)
        BY <1>1, <1>2, <1>3, <1>10, <1>13, <3>1, <3>2 DEF Loads, Sends, Rests
      <4>2. ~n.working
        BY <4>1 DEF Finishes
      <4> QED
        BY <1>3, <3>2, <4>2 DEF ToldAt, LandsD, n
    <3>3. CASE D4 /\ FlagDone
      <4>1. cpt'.c2h_cpt_complete /\ cpt'.c2h_was /\ ~PortLands
        BY <1>3, <1>6, <1>7, <1>8, <1>10, <3>1, <3>3, Zenon
      <4>2. n.last \/ ~n.working
        BY <1>1, <1>13, <3>1 DEF Loads, Sends, Finishes, Rests
      <4>3. Sel' = i
        BY <1>11, <3>1
      <4> QED
        BY <1>4, <1>9, <4>1, <4>2, <4>3 DEF ToldAt, LandsD, n
    <3> QED
      BY <3>1, <3>2, <3>3 DEF DTold
  <2> QED
    BY <2>1, <2>2
<1>14. ASSUME ~CmdInFire(i), LandsD(i) PROVE ToldAt(i)'
  <2>1. PortLands /\ D4 /\ Sel = i /\ head[i].last
    BY <1>3, <1>10, <1>14 DEF LandsD
  <2>2. Sel' = i
    BY <1>11, <2>1
  <2>3. cpt'.c2h_started /\ FlagDone'
    BY <1>3, <1>6, <1>8, <2>1, Zenon
  <2> QED
    BY <1>4, <2>2, <2>3 DEF ToldAt
<1>15. ASSUME ~CmdInFire(i), ToldAt(i)', ~ToldAt(i) PROVE LandsD(i)
  <2>1. head[i].working /\ ~(Sel = i /\ DTold)
    BY <1>15 DEF ToldAt
  <2>2. CASE ~n.working
    <3>1. Finishes(i, n)
      BY <1>1, <1>15, <2>1, <2>2 DEF Loads, Sends, Rests
    <3>2. head[i].last /\ head[i].m2h_complete /\ cpt.c2h_cpt_complete
      BY <3>1 DEF Finishes
    <3>3. Sel = i /\ DTold
      BY <1>3, <1>10, <1>11, <3>2 DEF DTold
    <3> QED
      BY <2>1, <3>3
  <2>3. CASE n.working
    <3>1. Sel' = i /\ DTold' /\ n.last /\ n.m2h_complete
      BY <1>5, <1>9, <1>15, <2>3 DEF ToldAt, n
    <3>2. Rests(i, n)
      BY <1>1, <1>15, <3>1 DEF Loads, Sends, Finishes
    <3>3. head[i].last
      BY <3>1, <3>2 DEF Rests
    <3>4. Sel = i /\ This.last /\ ~DTold
      BY <1>10, <1>11, <2>1, <3>3
    <3>5. ~(cpt'.c2h_cpt_complete /\ cpt'.c2h_was)
      <4>1. ~(This.m2h_complete /\ cpt.c2h_cpt_complete)
        BY <1>3, <3>4 DEF DTold
      <4> QED
        BY <1>3, <1>6, <1>7, <1>8, <3>4, <4>1, Zenon
    <3>6. cpt'.c2h_started /\ FlagDone'
      BY <1>4, <3>1, <3>5
    <3> QED
      BY <1>3, <1>6, <1>7, <1>8, <3>4, <3>6, Zenon DEF LandsD
  <2> QED
    BY <2>2, <2>3
<1> QED
  BY <1>12, <1>13, <1>14, <1>15

-----------------------------------------------------------------------------
(* Reports after an edge. *)

LEMMA Appended ==
  ASSUME NEW S, NEW s \in Seq(S), NEW e \in S
  PROVE  /\ Len(s) \in Nat /\ Len(Append(s, e)) = Len(s) + 1
         /\ \A k \in 1 .. Len(s) : Append(s, e)[k] = s[k]
         /\ Append(s, e)[Len(s) + 1] = e
         /\ Append(s, e) \in Seq(S)
OBVIOUS

(* One more flag: its name is new, and everything reported stays so.         *)
LEMMA OneMore ==
  ASSUME NEW S, NEW s \in Seq(S), NEW e \in S, \A k \in 1 .. Len(s) : s[k] # e,
         \A j, k \in 1 .. Len(s) : j < k => s[j] # s[k]
  PROVE  /\ \A j, k \in 1 .. Len(Append(s, e)) : j < k => Append(s, e)[j] # Append(s, e)[k]
         /\ {Append(s, e)[k] : k \in 1 .. Len(Append(s, e))} = {s[k] : k \in 1 .. Len(s)} \union {e}
<1> DEFINE t == Append(s, e)
<1>1. /\ Len(s) \in Nat /\ Len(t) = Len(s) + 1
      /\ \A k \in 1 .. Len(s) : t[k] = s[k]
      /\ t[Len(s) + 1] = e
  BY Appended
<1> HIDE DEF t
<1>2. \A k \in 1 .. Len(t) : k \in 1 .. Len(s) \/ k = Len(s) + 1
  BY <1>1
<1>3. \A j, k \in 1 .. Len(t) : j < k => t[j] # t[k]
  <2> TAKE j, k \in 1 .. Len(t)
  <2> HAVE j < k
  <2>1. j \in 1 .. Len(s)
    BY <1>1
  <2>2. CASE k \in 1 .. Len(s)
    BY <1>1, <2>1, <2>2
  <2>3. CASE k = Len(s) + 1
    BY <1>1, <2>1, <2>3
  <2> QED
    BY <1>2, <2>2, <2>3
<1>4. {t[k] : k \in 1 .. Len(t)} = {s[k] : k \in 1 .. Len(s)} \union {e}
  <2>1. \A k \in 1 .. Len(s) : k \in 1 .. Len(t)
    BY <1>1
  <2>2. Len(s) + 1 \in 1 .. Len(t)
    BY <1>1
  <2> QED
    BY <1>1, <1>2, <2>1, <2>2
<1> QED
  BY <1>3, <1>4 DEF t

(* What an edge reports: nothing, or the command of the one path that the    *)
(* unit serves, for the first time.                                          *)
NewFlag(id) ==
  /\ notified' = Append(notified, id) /\ id \in Ids
  /\ \/ LandsH /\ id = H2DId(h2d.n)
     \/ \E i \in Queues : LandsD(i) /\ id = job[i].id /\ head[i].working

LEMMA TickFlag ==
  ASSUME Staged, HTypes, AllFired, Names, Tick
  PROVE  \/ notified' = notified /\ ~LandsH /\ \A i \in Queues : ~LandsD(i)
         \/ \E id \in Ids : NewFlag(id)
<1>1. PortRests \/ PortTakes \/ PortPlaces \/ PortLands
  BY PortCases DEF Staged
<1>2. CASE PortLands
  <2>1. /\ FlagOf \in SlotType /\ FlagOf.id = cpt.cpt_addr /\ FlagOf.off = Flag
    BY ConstantsAssumption DEF FlagOf, SlotType, Staged, CTypes, UnitType, Flag
  <2>2. FlagBeat \in 0 .. FlagBeat
    BY ConstantsAssumption DEF FlagBeat
  <2>3. notified' = Append(notified, cpt.cpt_addr) /\ cpt.cpt_addr \in Ids
    <3>1. Land(FlagOf, FlagBeat)
      BY <1>2 DEF PortLands
    <3>2. cpt.cpt_addr \in Ids
      BY DEF Staged, CTypes, UnitType
    <3> QED
      BY <2>1, <2>2, <3>1, <3>2, LandType
  <2>4. cpt.h2c_started \/ cpt.c2h_started
    BY <1>2 DEF PortLands, UnitBusy
  <2>5. CASE cpt.h2c_started
    <3>1. H5
      BY <2>5, HToldIs DEF Staged
    <3>2. cpt.cpt_addr = H2DId(h2d.n)
      BY <3>1 DEF H5
    <3> QED
      BY <1>2, <2>3, <3>1, <3>2 DEF NewFlag, LandsH
  <2>6. CASE cpt.c2h_started
    <3>1. D4 /\ This.last
      BY <2>6, DToldIs DEF Staged
    <3>2. cpt.cpt_addr = This.cpt
      BY <3>1 DEF D4
    <3>3. out \in Queues /\ Sel = out /\ This = head[out] /\ head[out].last
      BY <3>1, ThisLast DEF Staged
    <3>4. head[out].working
      BY <3>3, LastIs DEF Staged
    <3>5. head[out].cpt = job[out].id
      BY <3>3, <3>4, WorkingOwn
    <3> QED
      BY <1>2, <2>3, <3>1, <3>2, <3>3, <3>4, <3>5 DEF NewFlag, LandsD
  <2> QED
    BY <2>4, <2>5, <2>6
<1>3. CASE ~PortLands
  BY <1>1, <1>3 DEF PortRests, PortTakes, PortPlaces, LandsH, LandsD
<1> QED
  BY <1>2, <1>3

(* Who is told after an edge.                                                *)
TellsAfter ==
  /\ h2d'.n = h2d.n /\ (h2d'.last => h2d.last)
  /\ HTold' <=> HTold \/ LandsH
  /\ LandsH => ~HTold /\ h2d.last /\ \A i \in Queues : ~LandsD(i)
  /\ \A i \in Queues :
       /\ CmdInFire(i) => ~ToldAt(i)' /\ job[i].id.n < job'[i].id.n
       /\ ~CmdInFire(i) => (ToldAt(i)' <=> ToldAt(i) \/ LandsD(i)) /\ job'[i] = job[i]
       /\ LandsD(i) => ~ToldAt(i) /\ ~CmdInFire(i)

(* A command that is reported now has not been reported before.              *)
LEMMA FlagNew ==
  ASSUME HTypes, CTypes, AllFired, Names, Reports, NEW id \in Ids, NewFlag(id),
         TellsAfter
  PROVE  id \notin Reported
<1> SUFFICES ASSUME id \in Reported PROVE FALSE
  OBVIOUS
<1>1. \/ id.q = NumQ /\ HReported(id)
      \/ id.q \in Queues /\ DReported(id)
  BY DEF Reports
<1>2. CASE LandsH /\ id = H2DId(h2d.n)
  <2>1. id.q = NumQ /\ id.n = h2d.n
    BY <1>2 DEF H2DId
  <2>2. id.q \notin Queues
    BY <2>1, ConstantsAssumption DEF Queues
  <2> QED
    BY <1>1, <1>2, <2>1, <2>2 DEF HReported, TellsAfter
<1>3. ASSUME NEW i \in Queues, LandsD(i), id = job[i].id, head[i].working PROVE FALSE
  <2>1. Own(job[i], i)
    BY <1>3, WorkingOwn
  <2>2. id.q = i /\ id.q # NumQ
    BY <1>3, <2>1, ConstantsAssumption DEF Own, Queues
  <2>3. DReported(id)
    BY <1>1, <2>2
  <2>4. id.n = job[id.q].id.n => ToldAt(id.q)
    BY <2>3 DEF DReported
  <2>5. ToldAt(i)
    BY <1>3, <2>2, <2>4
  <2> QED
    BY <1>3, <2>5 DEF TellsAfter
<1> QED
  BY <1>2, <1>3 DEF NewFlag

LEMMA TickTells ==
  ASSUME Staged, HTypes, Names, Tick, HStage', DStage', UnitStage', UnitMoves(cpt'),
         QTypes', AllFlags', StaysIdle \/ Begins \/ Works \/ Ends
  PROVE  TellsAfter
<1>1. h2d'.n = h2d.n /\ (h2d'.last => h2d.last)
  BY PathIs DEF Staged
<1>2. (HTold' <=> HTold \/ LandsH) /\ (LandsH => ~HTold)
  BY TickHTold
<1>4. LandsH => h2d.last /\ \A i \in Queues : ~LandsD(i)
  <2>1. ~(cpt.h2c_started /\ cpt.c2h_started)
    BY OneGoes
  <2>2. (H5 => h2d.last /\ cpt.h2c_started) /\ (D4 => cpt.c2h_started)
    BY Zenon DEF H5, Open, Mine, D4
  <2> QED
    BY <2>1, <2>2 DEF LandsH, LandsD
<1>3. ASSUME NEW i \in Queues
      PROVE  /\ CmdInFire(i) => ~ToldAt(i)' /\ job[i].id.n < job'[i].id.n
             /\ ~CmdInFire(i) => (ToldAt(i)' <=> ToldAt(i) \/ LandsD(i)) /\ job'[i] = job[i]
             /\ LandsD(i) => ~ToldAt(i) /\ ~CmdInFire(i)
  <2>1. /\ CmdInFire(i) => ~ToldAt(i)'
        /\ ~CmdInFire(i) => (ToldAt(i)' <=> ToldAt(i) \/ LandsD(i))
        /\ LandsD(i) => ~ToldAt(i) /\ ~CmdInFire(i)
    BY <1>3, TickToldAt
  <2>2. /\ CmdInFire(i) => job'[i] = Head(fifo[i])
        /\ ~CmdInFire(i) => job'[i] = job[i]
    BY <1>3, HistoryIs DEF Staged
  <2>3. CmdInFire(i) => job[i].id.n < Head(fifo[i]).id.n
    BY <1>3, NextCommand DEF Staged
  <2> QED
    BY <2>1, <2>2, <2>3
<1> QED
  BY <1>1, <1>2, <1>3, <1>4 DEF TellsAfter

LEMMA HKept ==
  ASSUME TellsAfter, NEW id, HReported(id)
  PROVE  HReported(id)'
<1>1. h2d'.n = h2d.n /\ (HTold => HTold')
  BY DEF TellsAfter
<1> QED
  BY <1>1, Zenon DEF HReported

LEMMA DKept ==
  ASSUME HTypes, HTypes', TellsAfter, NEW id \in Ids, id.q \in Queues, DReported(id)
  PROVE  DReported(id)'
<1> DEFINE i == id.q
<1>1. id.n \in 1 .. job[i].id.n /\ (id.n = job[i].id.n => ToldAt(i))
  BY DEF DReported
<1>2. CASE CmdInFire(i)
  <2>1. job[i].id.n < job'[i].id.n
    BY <1>2 DEF TellsAfter
  <2>2. job[i].id.n \in Int /\ job'[i].id.n \in Int
    <3>1. job[i] \in Job /\ job'[i] \in Job
      BY DEF HTypes
    <3> QED
      BY <3>1, ConstantsAssumption DEF Job, Ids
  <2>3. id.n \in 1 .. job'[i].id.n /\ id.n # job'[i].id.n
    BY ONLY <1>1, <2>1, <2>2
  <2> QED
    BY <2>3 DEF DReported
<1>3. CASE ~CmdInFire(i)
  <2>1. job'[i] = job[i] /\ (ToldAt(i) => ToldAt(i)')
    BY <1>3, Zenon DEF TellsAfter
  <2> QED
    BY <1>1, <2>1, Zenon DEF DReported
<1> QED
  BY <1>2, <1>3

(* What is reported stays right. *)
LEMMA AllKept ==
  ASSUME HTypes, HTypes', TellsAfter, Reports, NEW id \in Reported
  PROVE  \/ id.q = NumQ /\ HReported(id)'
         \/ id.q \in Queues /\ DReported(id)'
<1>1. id \in Ids
  BY DEF HTypes, Reported
<1>2. \/ id.q = NumQ /\ HReported(id)
      \/ id.q \in Queues /\ DReported(id)
  BY Zenon DEF Reports
<1> QED
  BY <1>1, <1>2, HKept, DKept, Zenon

(* The command that is reported now. *)
LEMMA NewRight ==
  ASSUME CTypes, HTypes, AllFired, Names, Reports, TellsAfter, NEW id \in Ids, NewFlag(id)
  PROVE  \/ id.q = NumQ /\ HReported(id)'
         \/ id.q \in Queues /\ DReported(id)'
<1>1. CASE LandsH /\ id = H2DId(h2d.n)
  <2>1. h2d'.n = h2d.n /\ HTold' /\ h2d.last
    BY <1>1, Zenon DEF TellsAfter
  <2>2. id.q = NumQ /\ id.n = h2d.n
    BY <1>1 DEF H2DId
  <2>3. h2d.n \in 1 .. h2d.n
    <3>1. h2d.n \in 0 .. MaxH2D
      BY DEF CTypes
    <3>2. h2d.n >= 1
      BY <2>1, Zenon DEF Reports
    <3> QED
      BY <3>1, <3>2, ConstantsAssumption
  <2> QED
    BY <2>1, <2>2, <2>3, Zenon DEF HReported
<1>2. ASSUME NEW i \in Queues, LandsD(i), id = job[i].id, head[i].working
      PROVE  id.q \in Queues /\ DReported(id)'
  <2>1. Own(job[i], i)
    BY <1>2, WorkingOwn
  <2>2. id.q = i /\ id.n \in 1 .. Len(posted)
    BY <1>2, <2>1 DEF Own
  <2>3. job'[i] = job[i] /\ ToldAt(i)'
    BY <1>2, Zenon DEF TellsAfter
  <2>4. id.n \in 1 .. job'[i].id.n
    <3>1. job'[i].id.n = id.n
      BY <1>2, <2>3
    <3> QED
      BY <2>2, <3>1
  <2> QED
    BY <1>2, <2>2, <2>3, <2>4, Zenon DEF DReported
<1> QED
  BY <1>1, <1>2, Zenon DEF NewFlag

(* The flags on which a path goes on have been written. *)
LEMMA ToldReported ==
  ASSUME CTypes, Reports, TellsAfter, Reported \subseteq Reported',
         LandsH => H2DId(h2d.n) \in Reported',
         \A i \in Queues : LandsD(i) => job[i].id \in Reported'
  PROVE  /\ \A n \in 1 .. h2d'.n : (n < h2d'.n \/ HTold') => H2DId(n) \in Reported'
         /\ \A i \in Queues : job'[i] # NoJob /\ ToldAt(i)' => job'[i].id \in Reported'
<1>1. ASSUME NEW n \in 1 .. h2d'.n, n < h2d'.n \/ HTold'
      PROVE  H2DId(n) \in Reported'
  <2>1. h2d'.n = h2d.n /\ (HTold' <=> HTold \/ LandsH)
    BY Zenon DEF TellsAfter
  <2>2. n \in 1 .. h2d.n /\ (n < h2d.n \/ HTold \/ (LandsH /\ n = h2d.n))
    <3>1. n \in 1 .. h2d.n /\ h2d.n \in Nat
      BY <2>1, ConstantsAssumption DEF CTypes
    <3>2. n < h2d.n \/ n = h2d.n
      BY <3>1
    <3> QED
      BY <1>1, <2>1, <3>1, <3>2, Zenon
  <2>3. CASE n < h2d.n \/ HTold
    <3>1. H2DId(n) \in Reported
      BY <2>2, <2>3, Zenon DEF Reports
    <3> QED
      BY <3>1
  <2> QED
    BY <2>2, <2>3, Zenon
<1>2. ASSUME NEW i \in Queues, job'[i] # NoJob, ToldAt(i)'
      PROVE  job'[i].id \in Reported'
  <2>1. ~CmdInFire(i) /\ job'[i] = job[i] /\ (ToldAt(i) \/ LandsD(i))
    BY <1>2, Zenon DEF TellsAfter
  <2>2. CASE ToldAt(i)
    <3>1. job[i].id \in Reported
      BY <1>2, <2>1, <2>2, Zenon DEF Reports
    <3> QED
      BY <2>1, <3>1
  <2>3. CASE LandsD(i)
    BY <1>2, <2>1, <2>3
  <2> QED
    BY <2>1, <2>2, <2>3
<1> QED
  BY <1>1, <1>2

LEMMA TickReports ==
  ASSUME CTypes, HTypes, HTypes', AllFired, Names, Reports, TellsAfter,
         \/ notified' = notified /\ ~LandsH /\ \A i \in Queues : ~LandsD(i)
         \/ \E id \in Ids : NewFlag(id)
  PROVE  Reports'
<1>1. Distinct /\ notified \in Seq(Ids)
  BY DEF Reports, HTypes
<1>2. h2d'.last => h2d'.n >= 1
  BY Zenon DEF Reports, TellsAfter
<1>3. CASE notified' = notified /\ ~LandsH /\ \A i \in Queues : ~LandsD(i)
  <2>1. Distinct' /\ Reported' = Reported
    BY <1>1, <1>3 DEF Distinct, Reported
  <2>2. \A id \in Reported' : \/ id.q = NumQ /\ HReported(id)'
                              \/ id.q \in Queues /\ DReported(id)'
    BY <2>1, AllKept, Zenon
  <2>3. /\ \A n \in 1 .. h2d'.n : (n < h2d'.n \/ HTold') => H2DId(n) \in Reported'
        /\ \A i \in Queues : job'[i] # NoJob /\ ToldAt(i)' => job'[i].id \in Reported'
    BY <1>3, <2>1, ToldReported, Zenon
  <2> QED
    BY <1>2, <2>1, <2>2, <2>3, Zenon DEF Reports
<1>4. ASSUME NEW id \in Ids, NewFlag(id) PROVE Reports'
  <2>1. notified' = Append(notified, id)
    BY <1>4 DEF NewFlag
  <2>2. Distinct' /\ Reported' = Reported \union {id}
    <3>1. \A j, k \in 1 .. Len(notified) : j < k => notified[j] # notified[k]
      BY <1>1 DEF Distinct
    <3>2. \A k \in 1 .. Len(notified) : notified[k] # id
      BY <1>4, FlagNew DEF Reported
    <3> QED
      BY <1>1, <2>1, <3>1, <3>2, OneMore DEF Distinct, Reported
  <2>3. \A j \in Reported' : \/ j.q = NumQ /\ HReported(j)'
                             \/ j.q \in Queues /\ DReported(j)'
    BY <1>4, <2>2, AllKept, NewRight, Zenon
  <2>4. LandsH => H2DId(h2d.n) \in Reported'
    BY <1>4, <2>2, Zenon DEF NewFlag, TellsAfter
  <2>5. \A i \in Queues : LandsD(i) => job[i].id \in Reported'
    <3> TAKE i \in Queues
    <3> HAVE LandsD(i)
    <3>1. ~LandsH /\ \A j \in Queues : LandsD(j) => j = i
      BY DEF LandsD, TellsAfter
    <3> QED
      BY <1>4, <2>2, <3>1, Zenon DEF NewFlag
  <2>6. /\ \A n \in 1 .. h2d'.n : (n < h2d'.n \/ HTold') => H2DId(n) \in Reported'
        /\ \A i \in Queues : job'[i] # NoJob /\ ToldAt(i)' => job'[i].id \in Reported'
    BY <2>2, <2>4, <2>5, ToldReported, Zenon
  <2> QED
    BY <1>2, <2>2, <2>3, <2>6, Zenon DEF Reports
<1> QED
  BY <1>3, <1>4

-----------------------------------------------------------------------------
(* The host's memory after an edge. *)

LEMMA TickInHost ==
  ASSUME Staged, Tick, NEW id, NEW k, k # Flag, InHost(id, k)
  PROVE  InHost(id, k)'
<1>1. posted' = posted
  BY ReaderIs
<1>2. PortRests \/ PortTakes \/ PortPlaces \/ PortLands
  BY PortCases DEF Staged
<1> DEFINE w == [id |-> id, off |-> k, beat |-> posted[id.n].m2h + k]
<1>3. w \in host /\ w.off = k
  BY DEF InHost
<1> HIDE DEF w
<1>4. w \in host'
  <2>1. CASE PortLands
    <3>1. Land(FlagOf, FlagBeat) /\ FlagOf.off = Flag
      BY <2>1 DEF PortLands, FlagOf
    <3> QED
      BY <1>3, <3>1, LandKeeps
  <2>2. CASE ~PortLands
    BY <1>2, <1>3, <2>2 DEF PortRests, PortTakes, PortPlaces
  <2> QED
    BY <2>1, <2>2
<1> QED
  BY <1>1, <1>4 DEF InHost, w

LEMMA WantsAppended ==
  ASSUME STypes, ETypes, Wanted \in Seq(SlotType), NEW t \in Seq(SlotType), Wanted' = Wanted \o t,
         NEW id, NEW k
  PROVE  /\ Wants(id, k) => Wants(id, k)'
         /\ (\E m \in 1 .. Len(t) : t[m] = [id |-> id, off |-> k]) => Wants(id, k)'
<1> DEFINE s == Wanted
           u == Wanted'
           e == [id |-> id, off |-> k]
<1>1. s \in Seq(SlotType) /\ u = s \o t
  OBVIOUS
<1>2. Wants(id, k) <=> \E m \in 1 .. Len(s) : s[m] = e
  BY DEF Wants
<1>3. Wants(id, k)' <=> \E m \in 1 .. Len(u) : u[m] = e
  BY DEF Wants
<1> HIDE DEF s, u, e
<1>4. /\ Len(s) \in Nat /\ Len(t) \in Nat /\ Len(u) = Len(s) + Len(t)
      /\ \A m \in 1 .. Len(s) : u[m] = s[m]
      /\ \A m \in 1 .. Len(t) : u[Len(s) + m] = t[m]
  BY <1>1
<1>5. ASSUME NEW m \in 1 .. Len(s), s[m] = e PROVE m \in 1 .. Len(u) /\ u[m] = e
  BY <1>4, <1>5
<1>6. ASSUME NEW m \in 1 .. Len(t), t[m] = e
      PROVE  Len(s) + m \in 1 .. Len(u) /\ u[Len(s) + m] = e
  BY <1>4, <1>6
<1> QED
  BY <1>2, <1>3, <1>5, <1>6 DEF e

LEMMA TickSent ==
  ASSUME Staged, HTypes, AllFired, Stream, Landed, Tick,
         ~Fire => Wanted' = Wanted,
         Fire => Wanted' = Wanted \o SlotsOf(C2HPacket),
         NEW i \in Queues, head'[i].working, NEW k \in 0 .. sent'[i] - 1
  PROVE  InHost(job[i].id, k)' \/ Wants(job[i].id, k)'
<1>1. Loads(i, head'[i]) \/ Sends(i, head'[i]) \/ Finishes(i, head'[i]) \/ Rests(i, head'[i])
  BY HeadMoves DEF Staged
<1>2. /\ CmdInFire(i) => job'[i] = Head(fifo[i]) /\ sent'[i] = 0
      /\ ~CmdInFire(i) => job'[i] = job[i]
      /\ ~CmdInFire(i) /\ HeadFire(i) => sent'[i] = sent[i] + head[i].length
      /\ ~CmdInFire(i) /\ ~HeadFire(i) => sent'[i] = sent[i]
  BY HistoryIs DEF Staged
<1>3. ~CmdInFire(i) /\ head[i].working
  BY <1>1, <1>2 DEF Loads, Sends, Finishes, Rests
<1>4. PICK id : id = job[i].id
  OBVIOUS
<1>5. job'[i].id = id
  BY <1>2, <1>3, <1>4
<1>6. Fired(i) /\ Flags(i) /\ sent[i] \in Nat /\ job[i] \in Job /\ head[i] \in HeadType
  BY DEF Staged, AllFired, AllFlags, HTypes, QTypes
<1>7. sent[i] =< job[i].len /\ job[i].len \in 0 .. AddrSpace
  <2>1. LengthMoved
    BY LengthRight DEF Staged
  <2> QED
    BY <1>6, <2>1 DEF LengthMoved, Job
<1>8. Wanted \in Seq(SlotType)
  BY DEF Stream, Paired
<1>9. SlotsOf(C2HPacket) \in Seq(SlotType) /\ Len(SlotsOf(C2HPacket)) = C2HPacket.len
      /\ \A m \in 1 .. C2HPacket.len : SlotsOf(C2HPacket)[m] = [id |-> C2HPacket.id, off |-> C2HPacket.off + m - 1]
  <2>1. C2HPacket \in [id : Ids, off : Nat, len : 0 .. AddrSpace]
    BY PacketType DEF Staged
  <2> QED
    BY <2>1, SlotsType
<1>10. Wants(id, k) => Wants(id, k)'
  <2>1. CASE Fire
    BY <1>8, <1>9, <2>1, WantsAppended DEF Staged
  <2>2. CASE ~Fire
    BY <2>2 DEF Wants
  <2> QED
    BY <2>1, <2>2
<1>11. ASSUME k \in 0 .. sent[i] - 1 PROVE InHost(id, k)' \/ Wants(id, k)'
  <2>1. InHost(id, k) \/ Wants(id, k)
    BY <1>3, <1>4, <1>11 DEF Landed
  <2>2. k # Flag
    BY <1>6, <1>7, <1>11, ConstantsAssumption DEF Flag
  <2> QED
    BY <1>10, <2>1, <2>2, TickInHost
<1>12. ASSUME ~(k \in 0 .. sent[i] - 1) PROVE Wants(id, k)'
  <2>1. HeadFire(i)
    BY <1>2, <1>3, <1>12
  <2>2. Fire /\ out = i
    BY <2>1 DEF HeadFire
  <2>3. /\ C2HPacket.id = job[out].id /\ C2HPacket.off = sent[out]
        /\ C2HPacket.len = head[out].length
    BY <2>2, PacketSent DEF Staged
  <2> DEFINE m == k - sent[i] + 1
             t == SlotsOf(C2HPacket)
  <2>4. sent'[i] = sent[i] + head[i].length /\ head[i].length \in Nat
    BY <1>2, <1>3, <1>6, <2>1, ConstantsAssumption DEF HeadType
  <2>5. m \in 1 .. head[i].length /\ sent[i] + m - 1 = k
    BY <1>6, <1>12, <2>4
  <2>6. C2HPacket.id = id /\ C2HPacket.off = sent[i] /\ C2HPacket.len = head[i].length
    BY <1>4, <2>2, <2>3
  <2>7. m \in 1 .. Len(t) /\ t[m] = [id |-> id, off |-> k]
    BY <1>9, <2>5, <2>6
  <2> HIDE DEF m, t
  <2>8. t \in Seq(SlotType) /\ Wanted' = Wanted \o t
    BY <1>9, <2>2 DEF t
  <2> QED
    BY <1>8, <2>7, <2>8, WantsAppended DEF Staged
<1>13. InHost(id, k)' \/ Wants(id, k)'
  BY <1>11, <1>12
<1> QED
  BY <1>5, <1>13 DEF InHost, Wants

(* A reported command's buffer is filled. *)
LEMMA TickFilled ==
  ASSUME Staged, HTypes, AllFired, Landed, Names, Tick,
         \/ notified' = notified /\ ~LandsH /\ \A i \in Queues : ~LandsD(i)
         \/ \E id \in Ids : NewFlag(id)
  PROVE  BufferFilled'
<1> SUFFICES ASSUME NEW n \in 1 .. Len(posted), posted[n].id \in Reported',
                    NEW k \in 0 .. posted[n].len - 1
             PROVE  [id |-> posted[n].id, off |-> k, beat |-> posted[n].m2h + k] \in host'
  BY ReaderIs DEF BufferFilled
<1> DEFINE c == posted[n]
<1>1. /\ c \in Job /\ c.id.n = n /\ c.id.q \in UsedQueues /\ c.len \in 0 .. AddrSpace
  BY DEF Names, PostedNamed, HTypes, Sound, Job
<1>2. k # Flag
  BY <1>1, ConstantsAssumption DEF Flag
<1>3. InHost(c.id, k) <=> [id |-> c.id, off |-> k, beat |-> c.m2h + k] \in host
  BY <1>1 DEF InHost
<1>4. PICK id : id = c.id
  OBVIOUS
<1>5. SUFFICES InHost(id, k)
  <2>1. InHost(id, k) => InHost(id, k)'
    BY <1>2, TickInHost
  <2>2. posted' = posted
    BY ReaderIs
  <2>3. InHost(id, k)' => [id |-> c.id, off |-> k, beat |-> c.m2h + k] \in host'
    BY <1>1, <1>4, <2>2 DEF InHost
  <2> QED
    BY <2>1, <2>3
<1>6. CASE id \in Reported
  <2>1. [id |-> c.id, off |-> k, beat |-> c.m2h + k] \in host
    BY <1>4, <1>6 DEF Landed, BufferFilled
  <2> QED
    BY <1>3, <1>4, <2>1
<1>7. CASE id \notin Reported
  <2>1. NewFlag(id)
    <3>1. notified' # notified
      BY <1>4, <1>7 DEF Reported
    <3>2. PICK x \in Ids : NewFlag(x)
      BY <3>1
    <3>3. notified \in Seq(Ids) /\ notified' = Append(notified, x)
      BY <3>2 DEF NewFlag, HTypes
    <3>4. Reported' = {Append(notified, x)[j] : j \in 1 .. Len(Append(notified, x))}
      BY <3>3 DEF Reported
    <3>5. \A j \in 1 .. Len(Append(notified, x)) :
            \/ j \in 1 .. Len(notified) /\ Append(notified, x)[j] = notified[j]
            \/ Append(notified, x)[j] = x
      <4>1. /\ Len(notified) \in Nat /\ Len(Append(notified, x)) = Len(notified) + 1
            /\ \A j \in 1 .. Len(notified) : Append(notified, x)[j] = notified[j]
            /\ Append(notified, x)[Len(notified) + 1] = x
        BY <3>3, Appended
      <4> QED
        BY <4>1
    <3>6. id = x
      BY <1>4, <1>7, <3>4, <3>5 DEF Reported
    <3> QED
      BY <3>2, <3>6
  <2>2. id.q \in Queues /\ id.q # NumQ
    <3>1. id.q \in UsedQueues
      BY <1>1, <1>4
    <3>2. id.q \in Queues
      BY <3>1, ConstantsAssumption
    <3> QED
      BY <3>2, ConstantsAssumption DEF Queues
  <2>3. id # H2DId(h2d.n)
    BY <2>2 DEF H2DId
  <2>4. PICK i \in Queues : LandsD(i) /\ id = job[i].id /\ head[i].working
    BY <2>1, <2>3 DEF NewFlag
  <2>5. Own(job[i], i)
    BY <2>4, WorkingOwn
  <2>6. job[i] = c
    BY <1>1, <1>4, <2>4, <2>5 DEF Own
  <2>7. head[i].last
    <3>1. This.last /\ Sel = i
      BY <2>4, DToldIs DEF LandsD, Staged
    <3> QED
      BY <3>1 DEF This
  <2>8. sent[i] = c.len
    BY <2>6, <2>7 DEF AllFired, Fired
  <2>9. InHost(id, k) \/ Wants(id, k)
    BY <2>4, <2>8 DEF Landed
  <2>10. Wanted = <<>>
    <3>1. UnitBusy /\ Placing
      BY <2>4 DEF LandsD, PortLands
    <3> QED
      BY <3>1, WantedIs DEF Staged
  <2> QED
    BY <2>9, <2>10 DEF Wants
<1> QED
  BY <1>6, <1>7

LEMMA TickLanded ==
  ASSUME Staged, HTypes, AllFired, Stream, Landed, Names, Tick,
         ~Fire => Wanted' = Wanted,
         Fire => Wanted' = Wanted \o SlotsOf(C2HPacket),
         \/ notified' = notified /\ ~LandsH /\ \A i \in Queues : ~LandsD(i)
         \/ \E id \in Ids : NewFlag(id)
  PROVE  Landed'
<1>1. BufferFilled'
  BY TickFilled
<1>2. \A i \in Queues : head'[i].working =>
        \A k \in 0 .. sent'[i] - 1 : InHost(job[i].id, k)' \/ Wants(job[i].id, k)'
  BY TickSent
<1> QED
  BY <1>1, <1>2 DEF Landed

-----------------------------------------------------------------------------
(* An edge keeps the invariant. *)

IInv ==
  /\ QTypes /\ ETypes /\ STypes /\ CTypes /\ HTypes
  /\ AllFlags /\ AllFired /\ Pace /\ InRange /\ Stream
  /\ UnitStage /\ HStage /\ DStage
  /\ Names /\ Reports /\ Landed

LEMMA TickKeeps ==
  ASSUME Regular, IInv, Tick
  PROVE  IInv'
<1>1. /\ QTypes /\ ETypes /\ STypes /\ CTypes /\ HTypes
      /\ AllFlags /\ AllFired /\ Pace /\ InRange /\ Stream
      /\ UnitStage /\ HStage /\ DStage
      /\ Names /\ Reports /\ Landed
  BY DEF IInv
<1>2. Staged
  BY <1>1 DEF Staged
<1>3. QTypes' /\ ETypes' /\ STypes' /\ CTypes' /\ HTypes'
  BY <1>1, <1>2, TickQTypes, TickETypes, TickSTypes, TickCTypes, TickHTypes
<1>4. UnitMoves(cpt')
  BY <1>1, UnitFacts
<1>5. AllFlags' /\ AllFired' /\ Pace' /\ InRange'
  BY <1>1, TickFlags, TickFired, TickPace, TickInRange
<1>6. ThisMoves
  BY <1>1, <1>3, <1>5, ThisCases
<1>7. DStage' /\ HStage'
  BY <1>2, <1>4, <1>6, TickDStage, TickHStage
<1>8. (StaysIdle \/ Begins \/ Works \/ Ends) /\ UnitStage'
  BY <1>1, <1>2, <1>4, UnitCases
<1>9. Stream'
  BY <1>1, <1>2, <1>3, <1>8, TickStream
<1>10. Names'
  BY <1>1, TickNames
<1>11. \/ notified' = notified /\ ~LandsH /\ \A i \in Queues : ~LandsD(i)
       \/ \E id \in Ids : NewFlag(id)
  <2>1. NewFlag(cpt.cpt_addr) => cpt.cpt_addr \in Ids
    BY DEF NewFlag
  <2> QED
    BY <1>1, <1>2, <2>1, TickFlag
<1>12. TellsAfter
  BY <1>1, <1>2, <1>3, <1>4, <1>5, <1>7, <1>8, TickTells
<1>13. Reports'
  BY <1>1, <1>3, <1>11, <1>12, TickReports
<1>14. Landed'
  <2>1. (~Fire => Wanted' = Wanted) /\ (Fire => Wanted' = Wanted \o SlotsOf(C2HPacket))
    BY <1>1, <1>2, <1>3, <1>8, TickWanted
  <2> QED
    BY <1>1, <1>2, <1>11, <2>1, TickLanded
<1> QED
  BY <1>3, <1>5, <1>7, <1>8, <1>9, <1>10, <1>13, <1>14 DEF IInv

-----------------------------------------------------------------------------
(* What the steps outside the clock domain leave alone. *)

Registers == <<sched, c2h, m2h_start, cpt, was, job, sent>>

LEMMA RegistersAre ==
  ASSUME UNCHANGED Registers
  PROVE  /\ fifo' = fifo /\ head' = head /\ out' = out /\ next' = next /\ win' = win
         /\ c2h' = c2h /\ m2h_start' = m2h_start /\ cpt' = cpt /\ was' = was
         /\ job' = job /\ sent' = sent /\ Sel' = Sel /\ This' = This
         /\ M2HRequest' = M2HRequest /\ Offer' = Offer
<1>1. /\ fifo' = fifo /\ head' = head /\ out' = out /\ next' = next /\ win' = win
      /\ c2h' = c2h /\ m2h_start' = m2h_start /\ cpt' = cpt /\ was' = was
      /\ job' = job /\ sent' = sent
  BY DEF Registers, sched
<1>2. Sel' = Sel
  BY <1>1 DEF Sel
<1>3. This' = This
  BY <1>1, <1>2 DEF This
<1>4. M2HRequest' = M2HRequest
  BY <1>1, <1>2 DEF M2HRequest
<1>5. Offer' = Offer
  BY <1>1 DEF Offer
<1> QED
  BY <1>1, <1>2, <1>3, <1>4, <1>5

LEMMA HeadsStay ==
  ASSUME AllFlags, AllFired, UNCHANGED Registers
  PROVE  AllFlags' /\ AllFired'
<1>1. fifo' = fifo /\ head' = head /\ out' = out /\ c2h' = c2h /\ job' = job /\ sent' = sent
  BY RegistersAre
<1>2. AllFlags'
  BY <1>1, Zenon DEF AllFlags, Flags
<1>3. AllFired'
  BY <1>1, Zenon DEF AllFired, Fired, Carries
<1> QED
  BY <1>2, <1>3

LEMMA QStay ==
  ASSUME QTypes, UNCHANGED Registers, req' = req
  PROVE  QTypes'
<1>1. fifo' = fifo /\ head' = head /\ out' = out /\ next' = next
  BY RegistersAre
<1> QED
  BY <1>1 DEF QTypes

LEMMA EStay ==
  ASSUME ETypes, Pace, InRange, UNCHANGED Registers, UNCHANGED <<request, age>>,
         m2h_finish' \in BOOLEAN
  PROVE  ETypes' /\ Pace' /\ InRange'
<1>1. win' = win /\ c2h' = c2h /\ m2h_start' = m2h_start /\ M2HRequest' = M2HRequest
  BY RegistersAre
<1>2. ETypes'
  BY <1>1 DEF ETypes
<1>3. Pace'
  BY <1>1 DEF Pace
<1>4. InRange'
  BY <1>1 DEF InRange
<1> QED
  BY <1>2, <1>3, <1>4

LEMMA UnitStays ==
  ASSUME UnitStage, UNCHANGED Registers, slots' = slots, Quiet => Quiet',
         data_ready' => cpt.data_valid /\ slots # <<>>
  PROVE  UnitStage'
<1>1. cpt' = cpt
  BY RegistersAre
<1>2. CASE UnitIdle
  BY <1>1, <1>2, Zenon DEF UnitStage, UnitIdle, FlagSlot
<1>3. CASE UnitBusy /\ (Asking \/ Placing \/ Placed)
  <2>1. UnitBusy'
    BY <1>1, <1>3, Zenon DEF UnitBusy
  <2>2. Asking' \/ Placing' \/ Placed'
    BY <1>1, <1>3, Zenon DEF Asking, Placing, Placed
  <2> QED
    BY <1>1, <2>1, <2>2, Zenon DEF UnitStage
<1> QED
  BY <1>2, <1>3, Zenon DEF UnitStage

LEMMA HStays ==
  ASSUME HStage, UNCHANGED Registers, h2d' = h2d, Quiet => Quiet'
  PROVE  HStage'
<1>1. win' = win /\ cpt' = cpt /\ was' = was /\ out' = out
  BY RegistersAre
<1>2. CASE H0
  BY <1>1, <1>2, Zenon DEF HStage, H0, WinOff
<1>3. CASE H1
  BY <1>1, <1>3, Zenon DEF HStage, H1, WinOff
<1>4. CASE H2
  BY <1>1, <1>4, Zenon DEF HStage, H2, WinOff, Mine
<1>5. CASE H3
  BY <1>1, <1>5, Zenon DEF HStage, H3, Mine
<1>6. CASE H4
  BY <1>1, <1>6, Zenon DEF HStage, H4, Open, Mine
<1>7. CASE H5
  BY <1>1, <1>7, Zenon DEF HStage, H5, Open, Mine
<1>8. CASE H6
  BY <1>1, <1>8, Zenon DEF HStage, H6, Open, Mine
<1> QED
  BY <1>2, <1>3, <1>4, <1>5, <1>6, <1>7, <1>8, Zenon DEF HStage

LEMMA DStays ==
  ASSUME DStage, UNCHANGED Registers, Quiet => Quiet', Drainage'
  PROVE  DStage'
<1>1. cpt' = cpt /\ was' = was /\ out' = out /\ This' = This /\ m2h_start' = m2h_start
  BY RegistersAre
<1>2. CASE D0
  BY <1>1, <1>2, Zenon DEF DStage, D0
<1>3. CASE D1
  BY <1>1, <1>3, Zenon DEF DStage, D1
<1>4. CASE D2
  BY <1>1, <1>4, Zenon DEF DStage, D2, Yours
<1>5. CASE D3
  BY <1>1, <1>5, Zenon DEF DStage, D3, Yours, Ended
<1>6. CASE D4
  BY <1>1, <1>6, Zenon DEF DStage, D4, Yours, Ended
<1>7. CASE D5
  BY <1>1, <1>7, Zenon DEF DStage, D5, Yours, Ended
<1> QED
  BY <1>2, <1>3, <1>4, <1>5, <1>6, <1>7, Zenon DEF DStage

LEMMA HToldNext ==
  ASSUME HStage'
  PROVE  HTold' <=> \/ ~h2d'.last
                    \/ cpt'.h2c_started /\ FlagDone'
                    \/ h2d'.last /\ cpt'.h2c_cpt_complete /\ cpt'.h2c_was
<1>1. H0' \/ H1' \/ H2' \/ H3' \/ H4' \/ H5' \/ H6'
  BY DEF HStage
<1>2. H0' => HTold' /\ ~h2d'.last
  BY Zenon DEF HTold, H0
<1>3. H1' => h2d'.last /\ ~cpt'.h2c_was /\ ~cpt'.h2c_started
  BY Zenon DEF H1
<1>4. H2' \/ H3' \/ H4' => h2d'.last /\ ~cpt'.h2c_cpt_complete /\ ~cpt'.h2c_started
  BY Zenon DEF H2, H3, H4, Open, Mine
<1>5. H5' => h2d'.last /\ ~cpt'.h2c_cpt_complete /\ cpt'.h2c_started
  BY Zenon DEF H5, Open, Mine
<1>6. H6' => h2d'.last /\ cpt'.h2c_cpt_complete /\ ~cpt'.h2c_started /\ cpt'.h2c_was
  BY Zenon DEF H6, Open, Mine
<1>7. HTold' <=> H0' \/ (H5' /\ FlagDone') \/ H6'
  BY DEF HTold
<1> QED
  BY <1>1, <1>2, <1>3, <1>4, <1>5, <1>6, <1>7, Zenon

(* Who has been told depends on registers only.                              *)
LEMMA ToldStays ==
  ASSUME HStage, HStage', DStage, DStage', UNCHANGED Registers, h2d'.last <=> h2d.last
  PROVE  /\ HTold' <=> HTold
         /\ \A i \in Queues : ToldAt(i)' <=> ToldAt(i)
<1>1. cpt' = cpt /\ head' = head /\ Sel' = Sel /\ This' = This
  BY RegistersAre
<1>2. FlagDone' <=> FlagDone
  BY <1>1 DEF FlagDone
<1>3. HTold' <=> HTold
  <2>1. HTold <=> \/ ~h2d.last
                  \/ cpt.h2c_started /\ FlagDone
                  \/ h2d.last /\ cpt.h2c_cpt_complete /\ cpt.h2c_was
    BY HToldIs
  <2>2. HTold' <=> \/ ~h2d'.last
                   \/ cpt'.h2c_started /\ FlagDone'
                   \/ h2d'.last /\ cpt'.h2c_cpt_complete /\ cpt'.h2c_was
    BY HToldNext
  <2> QED
    BY <1>1, <1>2, <2>1, <2>2, Zenon
<1>4. DTold' <=> DTold
  <2>1. DTold <=> \/ cpt.c2h_started /\ FlagDone
                  \/ This.last /\ cpt.c2h_cpt_complete /\ cpt.c2h_was
    BY DToldIs
  <2>2. DTold' <=> \/ cpt'.c2h_started /\ FlagDone'
                   \/ This'.last /\ cpt'.c2h_cpt_complete /\ cpt'.c2h_was
    BY DToldNext
  <2> QED
    BY <1>1, <1>2, <2>1, <2>2, Zenon
<1> QED
  BY <1>1, <1>3, <1>4, Zenon DEF ToldAt

LEMMA ReportsStay ==
  ASSUME HStage, HStage', DStage, DStage', UNCHANGED Registers, h2d'.last <=> h2d.last,
         h2d'.n = h2d.n, notified' = notified, Reports
  PROVE  Reports'
<1>1. /\ HTold' <=> HTold
      /\ \A i \in Queues : ToldAt(i)' <=> ToldAt(i)
  BY ToldStays
<1>2. job' = job
  BY RegistersAre
<1>3. Distinct' /\ Reported' = Reported
  BY DEF Reports, Distinct, Reported
<1>4. \A id \in Reported' : \/ id.q = NumQ /\ HReported(id)'
                            \/ id.q \in Queues /\ DReported(id)'
  <2> TAKE id \in Reported'
  <2>1. \/ id.q = NumQ /\ HReported(id)
        \/ id.q \in Queues /\ DReported(id)
    BY <1>3, Zenon DEF Reports
  <2>2. HReported(id) => HReported(id)'
    BY <1>1, Zenon DEF HReported
  <2>3. id.q \in Queues /\ DReported(id) => DReported(id)'
    BY <1>1, <1>2, Zenon DEF DReported
  <2> QED
    BY <2>1, <2>2, <2>3
<1>5. \A n \in 1 .. h2d'.n : (n < h2d'.n \/ HTold') => H2DId(n) \in Reported'
  BY <1>1, <1>3, Zenon DEF Reports
<1>6. \A i \in Queues : job'[i] # NoJob /\ ToldAt(i)' => job'[i].id \in Reported'
  BY <1>1, <1>2, <1>3, Zenon DEF Reports
<1>7. h2d'.last => h2d'.n >= 1
  BY Zenon DEF Reports
<1> QED
  BY <1>3, <1>4, <1>5, <1>6, <1>7, Zenon DEF Reports

LEMMA NamesStay ==
  ASSUME Names, UNCHANGED Registers, req' = req, posted' = posted
  PROVE  Names'
<1>1. fifo' = fifo /\ job' = job
  BY RegistersAre
<1>2. PostedNamed'
  BY DEF Names, PostedNamed
<1>3. ReqNamed'
  BY <1>1 DEF Names, ReqNamed
<1>4. ASSUME NEW i \in Queues PROVE FifoNamed(i)' /\ JobNamed(i)'
  BY <1>1 DEF Names, FifoNamed, JobNamed, Own
<1> QED
  BY <1>2, <1>3, <1>4 DEF Names

LEMMA LandedStays ==
  ASSUME Landed, UNCHANGED Registers, UNCHANGED <<host, notified, posted>>, Wanted' = Wanted
  PROVE  Landed'
<1>1. head' = head /\ job' = job /\ sent' = sent
  BY RegistersAre
<1>2. BufferFilled'
  BY DEF Landed, BufferFilled, Reported
<1> QED
  BY <1>1, <1>2 DEF Landed, InHost, Wants

LEMMA StreamStays ==
  ASSUME Stream, UNCHANGED Registers, posted' = posted, Wanted' = Wanted, OnTheWay' = OnTheWay
  PROVE  Stream'
<1>1. c2h' = c2h /\ m2h_start' = m2h_start /\ M2HRequest' = M2HRequest
  BY RegistersAre
<1>2. Paired(OnTheWay, Wanted, posted)'
  BY DEF Stream, Paired, Good, Source
<1> QED
  BY <1>1, <1>2, Zenon DEF Stream, Source

LEMMA WantedStays ==
  ASSUME UNCHANGED Registers, slots' = slots
  PROVE  Wanted' = Wanted
BY RegistersAre DEF Wanted

-----------------------------------------------------------------------------
(* The steps of the reader, and the QDMA's wires. *)

LEMMA SideKeeps ==
  ASSUME IInv, UNCHANGED Registers, UNCHANGED <<req, h2d, host, notified, posted, slots>>,
         OnTheWay' = OnTheWay, STypes', ETypes', Pace', InRange', Drainage',
         Quiet => Quiet', data_ready' => cpt.data_valid /\ slots # <<>>
  PROVE  IInv'
<1>1. /\ QTypes /\ CTypes /\ HTypes /\ AllFlags /\ AllFired /\ Stream
      /\ UnitStage /\ HStage /\ DStage /\ Names /\ Reports /\ Landed
  BY DEF IInv
<1>2. cpt' = cpt /\ was' = was /\ job' = job /\ sent' = sent
  BY RegistersAre
<1>3. QTypes' /\ AllFlags' /\ AllFired'
  BY <1>1, QStay, HeadsStay
<1>4. CTypes' /\ HTypes'
  BY <1>1, <1>2 DEF CTypes, HTypes
<1>5. UnitStage' /\ HStage' /\ DStage'
  BY <1>1, UnitStays, HStays, DStays
<1>6. Wanted' = Wanted
  BY WantedStays
<1>7. Stream' /\ Landed' /\ Names'
  BY <1>1, <1>6, StreamStays, LandedStays, NamesStay
<1>8. Reports'
  BY <1>1, <1>5, ReportsStay
<1> QED
  BY <1>3, <1>4, <1>5, <1>7, <1>8 DEF IInv

LEMMA AppendHead ==
  ASSUME NEW S, NEW b \in Seq(S), NEW c \in Seq(S), c # <<>>
  PROVE  Append(b, Head(c)) \o Tail(c) = b \o c
<1> DEFINE h == Head(c)
           t == Tail(c)
<1>1. h \in S /\ t \in Seq(S) /\ <<h>> \o t = c
  BY HeadTail, HeadThenTail
<1> HIDE DEF h, t
<1>2. Append(b, h) = b \o <<h>> /\ <<h>> \in Seq(S)
  BY <1>1, AppendIsConcat
<1>3. (b \o <<h>>) \o t = b \o (<<h>> \o t)
  BY <1>1, <1>2, ConcatAssociative
<1>4. Append(b, h) \o t = b \o c
  BY <1>1, <1>2, <1>3
<1> QED
  BY <1>4 DEF h, t

LEMMA JoinThree ==
  ASSUME NEW S, NEW a \in Seq(S), NEW b \in Seq(S), NEW c \in Seq(S)
  PROVE  (a \o b) \o c = a \o (b \o c)
BY ConcatAssociative

SameWay(a, b, c) == a \o Append(b, Head(c)) \o Tail(c) = a \o b \o c

LEMMA WayMoves ==
  ASSUME NEW S, NEW a \in Seq(S), NEW b \in Seq(S), NEW c \in Seq(S), c # <<>>
  PROVE  SameWay(a, b, c)
<1> DEFINE d == Append(b, Head(c))
           t == Tail(c)
<1>1. d \o t = b \o c /\ d \in Seq(S) /\ t \in Seq(S)
  BY HeadTail, AppendHead, Appended, SMTT(30)
<1> HIDE DEF d, t
<1>2. a \in Seq(S) /\ b \in Seq(S) /\ c \in Seq(S) /\ d \in Seq(S) /\ t \in Seq(S)
  BY <1>1
<1>3. (a \o b) \o c = a \o (b \o c)
  BY ONLY <1>2, JoinThree, SMTT(60)
<1>4. (a \o d) \o t = a \o (d \o t)
  BY ONLY <1>2, JoinThree, SMTT(60)
<1>5. a \o d \o t = a \o b \o c
  BY ONLY <1>1, <1>3, <1>4, Zenon
<1> QED
  BY <1>5, Zenon DEF d, t, SameWay

LEMMA ReaderStartKeeps ==
  ASSUME IInv, ReaderStart
  PROVE  IInv'
<1>1. ETypes /\ STypes /\ Pace /\ InRange
  BY DEF IInv
<1>2. UNCHANGED Registers /\ UNCHANGED <<req, h2d, host, notified, posted, slots, cmd_ready, data_ready, m2hq, tmp>>
  BY DEF ReaderStart, Registers, sched, qdma, memory
<1>3. request # <<>> /\ request' = <<>> /\ ~m2h_finish' /\ age' = 0
      /\ reading' = reading \o BeatsOf(request[1])
  BY DEF ReaderStart
<1>4. ~m2h_start /\ m2h_start' = m2h_start /\ c2h' = c2h /\ win' = win
  BY <1>1, <1>2, <1>3, RegistersAre DEF Pace
<1> DEFINE b == BeatsOf(request[1])
           B == 0 .. AddrSpace - 1
<1>5. b \in Seq(B)
  <2>1. request[1] \in [addr : 0 .. AddrSpace - 1, len : 0 .. AddrSpace]
    <3> DEFINE R == [addr : 0 .. AddrSpace - 1, len : 0 .. AddrSpace]
    <3>1. request \in Seq(R)
      BY <1>1 DEF ETypes
    <3> HIDE DEF R
    <3>2. request[1] \in R
      BY <1>3, <3>1
    <3> QED
      BY <3>2 DEF R
  <2>2. request[1].addr + request[1].len =< AddrSpace
    BY <1>1, <1>3 DEF InRange
  <2> QED
    BY <2>1, <2>2, BeatsType
<1> HIDE DEF b
<1>6. reading \in Seq(B) /\ m2hq \in Seq(B) /\ tmp \in Seq(B) /\ reading' = reading \o b
  BY <1>1, <1>3 DEF STypes, b
<1>7. STypes'
  <2> DEFINE r == reading'
  <2>1. r \in Seq(B)
    BY <1>5, <1>6
  <2> HIDE DEF r
  <2> QED
    BY <1>1, <1>2, <2>1 DEF STypes, r
<1>8. ETypes' /\ Pace' /\ InRange'
  <2>1. ETypes'
    <3>1. m2h_finish' \in BOOLEAN
      BY DEF ReaderStart
    <3>2. age' \in 0 .. Lat + 1
      BY <1>3, ConstantsAssumption
    <3> DEFINE R == [addr : 0 .. AddrSpace - 1, len : 0 .. AddrSpace]
    <3>3. request' \in Seq(R) /\ Len(request') =< 1
      BY <1>3
    <3> QED
      BY <1>1, <1>4, <3>1, <3>2, <3>3 DEF ETypes
  <2>2. Pace'
    BY <1>1, <1>3, <1>4 DEF Pace
  <2>3. InRange'
    BY <1>3, <1>4 DEF InRange
  <2> QED
    BY <2>1, <2>2, <2>3
<1>9. OnTheWay' = OnTheWay
  <2>1. tmp \o m2hq \in Seq(B) /\ Carried \in Seq(B)
    BY <1>1, <1>6, CarriedType
  <2> DEFINE a == tmp \o m2hq
  <2>2. OnTheWay = (a \o reading) \o b \o <<>>
    BY <1>3, <1>4 DEF OnTheWay, b
  <2>3. OnTheWay' = a \o (reading \o b) \o <<>> \o <<>>
    BY <1>2, <1>3, <1>4, <1>6 DEF OnTheWay
  <2>4. a \in Seq(B)
    BY <2>1
  <2> HIDE DEF a
  <2> DEFINE u == reading \o b
             v == a \o u
  <2>5. u \in Seq(B) /\ v \in Seq(B) /\ (a \o reading) \o b = v
    BY <1>5, <1>6, <2>4, ConcatAssociative, SMTT(30)
  <2> HIDE DEF u, v
  <2>6. v \o <<>> = v
    BY <2>5, EmptyJoin
  <2> QED
    BY <2>2, <2>3, <2>5, <2>6 DEF u, v
<1>10. Drainage' /\ ~Quiet
  BY <1>3 DEF Drainage, Quiet
<1>11. data_ready' => cpt.data_valid /\ slots # <<>>
  BY <1>2 DEF IInv, UnitStage
<1> QED
  BY <1>2, <1>7, <1>8, <1>9, <1>10, <1>11, SideKeeps

LEMMA ReaderDoneKeeps ==
  ASSUME IInv, ReaderDone
  PROVE  IInv'
<1>1. ETypes /\ STypes /\ Pace /\ InRange
  BY DEF IInv
<1>2. UNCHANGED Registers /\ UNCHANGED <<req, h2d, host, notified, posted, slots, cmd_ready, data_ready, stream, request, age>>
  BY DEF ReaderDone, Registers, sched, qdma, memory
<1>3. m2h_finish' = TRUE
  BY DEF ReaderDone
<1>4. c2h' = c2h /\ m2h_start' = m2h_start /\ M2HRequest' = M2HRequest /\ This' = This
  BY <1>2, RegistersAre
<1>5. ETypes' /\ Pace' /\ InRange'
  BY <1>1, <1>2, <1>3, EStay
<1>6. STypes'
  BY <1>1, <1>2 DEF STypes, stream
<1>7. OnTheWay' = OnTheWay
  BY <1>2, <1>4 DEF OnTheWay, stream
<1>8. Quiet => Quiet'
  BY <1>2, <1>4 DEF Quiet, stream
<1>9. Drainage'
  <2>1. This.last => reading = <<>> /\ m2hq = <<>> /\ tmp = <<>>
    BY DEF ReaderDone, This
  <2> QED
    BY <1>2, <1>4, <2>1 DEF Drainage, stream
<1>10. data_ready' => cpt.data_valid /\ slots # <<>>
  BY <1>2 DEF IInv, UnitStage
<1> QED
  BY <1>2, <1>5, <1>6, <1>7, <1>8, <1>9, <1>10, SideKeeps

(* Beats move on towards the port: nothing else changes.                     *)
LEMMA BeatsKeep ==
  ASSUME IInv, UNCHANGED Registers,
         UNCHANGED <<req, h2d, host, notified, posted, slots, cmd_ready, data_ready>>,
         UNCHANGED <<request, age, m2h_finish>>,
         STypes', Carried' = Carried, ~Quiet, reading # <<>> \/ m2hq # <<>>
  PROVE  IInv'
<1>1. ETypes /\ Pace /\ InRange /\ DStage
  BY DEF IInv
<1>2. c2h' = c2h /\ m2h_start' = m2h_start /\ M2HRequest' = M2HRequest /\ This' = This
  BY RegistersAre
<1>3. ETypes' /\ Pace' /\ InRange'
  <2>1. m2h_finish' \in BOOLEAN
    BY <1>1 DEF ETypes
  <2> QED
    BY <1>1, <2>1, EStay
<1>4. OnTheWay' = OnTheWay
  BY <1>2 DEF OnTheWay, Carried
<1>5. Drainage'
  BY <1>1, <1>2 DEF DStage, Drainage
<1>6. data_ready' => cpt.data_valid /\ slots # <<>>
  BY DEF IInv, UnitStage
<1> QED
  BY <1>3, <1>4, <1>5, <1>6, SideKeeps

LEMMA HbmReturnKeeps ==
  ASSUME IInv, HbmReturn
  PROVE  IInv'
<1>1. STypes
  BY DEF IInv
<1>2. UNCHANGED Registers
      /\ UNCHANGED <<req, h2d, host, notified, posted, slots, cmd_ready, data_ready>>
      /\ UNCHANGED <<request, age, m2h_finish>> /\ tmp' = tmp
  BY DEF HbmReturn, Registers, sched, qdma, memory, reader
<1>3. reading # <<>> /\ Len(m2hq) < FifoDepth
      /\ m2hq' = Append(m2hq, Head(reading)) /\ reading' = Tail(reading)
  BY DEF HbmReturn
<1> DEFINE B == 0 .. AddrSpace - 1
<1>4. reading \in Seq(B) /\ m2hq \in Seq(B) /\ tmp \in Seq(B)
  BY <1>1 DEF STypes
<1>5. Carried' = Carried
  <2>1. tmp \o Append(m2hq, Head(reading)) \o Tail(reading) = tmp \o m2hq \o reading
    <3>1. SameWay(tmp, m2hq, reading)
      BY <1>3, <1>4, WayMoves
    <3> QED
      BY ONLY <3>1, Zenon DEF SameWay
  <2> DEFINE q == Append(m2hq, Head(reading))
             r == Tail(reading)
  <2>2. tmp' = tmp /\ m2hq' = q /\ reading' = r
    BY <1>2, <1>3, Zenon
  <2> HIDE DEF q, r
  <2>3. Carried' = tmp \o q \o r
    BY ONLY <2>2, Zenon DEF Carried
  <2> QED
    BY <2>1, <2>3 DEF Carried, q, r
<1>6. STypes'
  <2>1. Head(reading) \in B /\ reading' \in Seq(B)
    BY <1>3, <1>4, HeadTail
  <2>2. m2hq' \in Seq(B) /\ Len(m2hq') = Len(m2hq) + 1 /\ Len(m2hq) \in Nat
    BY <1>3, <1>4, <2>1, Appended
  <2>3. Len(m2hq') =< FifoDepth
    BY <1>3, <2>2, ConstantsAssumption
  <2> QED
    BY <1>1, <1>2, <2>1, <2>2, <2>3 DEF STypes
<1>7. ~Quiet
  BY <1>3 DEF Quiet
<1> QED
  BY <1>2, <1>3, <1>5, <1>6, <1>7, BeatsKeep

LEMMA FifoReadKeeps ==
  ASSUME IInv, FifoRead
  PROVE  IInv'
<1>1. STypes
  BY DEF IInv
<1>2. UNCHANGED Registers
      /\ UNCHANGED <<req, h2d, host, notified, posted, slots, cmd_ready, data_ready>>
      /\ UNCHANGED <<request, age, m2h_finish>> /\ reading' = reading
  BY DEF FifoRead, Registers, sched, qdma, memory, reader
<1>3. m2hq # <<>> /\ tmp = <<>> /\ tmp' = <<Head(m2hq)>> /\ m2hq' = Tail(m2hq)
  BY DEF FifoRead
<1> DEFINE B == 0 .. AddrSpace - 1
<1>4. reading \in Seq(B) /\ m2hq \in Seq(B) /\ Len(m2hq) =< FifoDepth
  BY <1>1 DEF STypes
<1>5. Carried' = Carried
  <2>1. <<Head(m2hq)>> \o Tail(m2hq) = m2hq
    BY <1>3, <1>4, HeadThenTail
  <2>2. <<>> \o m2hq = m2hq
    BY <1>4, EmptyJoin
  <2> QED
    BY <1>2, <1>3, <2>1, <2>2 DEF Carried
<1>6. STypes'
  <2>1. /\ Head(m2hq) \in B /\ Tail(m2hq) \in Seq(B)
        /\ Len(Tail(m2hq)) = Len(m2hq) - 1 /\ Len(m2hq) \in Nat \ {0}
    BY <1>3, <1>4, HeadTail
  <2>2. Len(m2hq') =< FifoDepth /\ m2hq' \in Seq(B)
    BY <1>3, <1>4, <2>1, ConstantsAssumption
  <2>3. tmp' \in Seq(B) /\ Len(tmp') =< 1
    <3> DEFINE h == Head(m2hq)
    <3>1. h \in B /\ tmp' = <<h>>
      BY <1>3, <2>1
    <3> HIDE DEF h
    <3> QED
      BY <3>1
  <2> QED
    BY <1>1, <1>2, <2>2, <2>3 DEF STypes
<1>7. ~Quiet
  BY <1>3 DEF Quiet
<1> QED
  BY <1>2, <1>3, <1>5, <1>6, <1>7, BeatsKeep

(* The QDMA's wires.                                                         *)
LEMMA ReadyKeeps ==
  ASSUME IInv, CmdReady \/ DataReady
  PROVE  IInv'
<1>1. ETypes /\ STypes /\ Pace /\ InRange /\ DStage /\ UnitStage
  BY DEF IInv
<1>2. UNCHANGED Registers
      /\ UNCHANGED <<req, h2d, host, notified, posted, slots, stream, request, age, m2h_finish>>
  BY DEF CmdReady, DataReady, Registers, sched, memory, reader, stream
<1>3. c2h' = c2h /\ m2h_start' = m2h_start /\ M2HRequest' = M2HRequest /\ This' = This
  BY <1>2, RegistersAre
<1>4. cmd_ready' \in BOOLEAN /\ data_ready' \in BOOLEAN
  BY <1>1 DEF CmdReady, DataReady, STypes
<1>5. ETypes' /\ Pace' /\ InRange'
  <2>1. m2h_finish' \in BOOLEAN
    BY <1>1, <1>2 DEF ETypes
  <2> QED
    BY <1>1, <1>2, <2>1, EStay
<1>6. STypes'
  BY <1>1, <1>2, <1>4 DEF STypes, stream
<1>7. OnTheWay' = OnTheWay /\ (Quiet => Quiet')
  BY <1>2, <1>3 DEF OnTheWay, Quiet, stream
<1>8. Drainage'
  BY <1>1, <1>2, <1>3 DEF DStage, Drainage, stream
<1>9. data_ready' => cpt.data_valid /\ slots # <<>>
  BY <1>1 DEF CmdReady, DataReady, UnitStage
<1> QED
  BY <1>2, <1>5, <1>6, <1>7, <1>8, <1>9, SideKeeps

-----------------------------------------------------------------------------
(* The host-to-device path, and steps that change nothing. *)

LEMMA PathKeeps ==
  ASSUME IInv, UNCHANGED Registers, UNCHANGED <<req, reader, stream, qdma, memory, posted>>,
         h2d' \in [last : BOOLEAN, complete : BOOLEAN, n : 0 .. MaxH2D],
         HStage', (HStage' /\ DStage') => Reports'
  PROVE  IInv'
<1>1. /\ QTypes /\ ETypes /\ STypes /\ CTypes /\ HTypes /\ AllFlags /\ AllFired /\ Pace /\ InRange
      /\ Stream /\ UnitStage /\ HStage /\ DStage /\ Names /\ Landed
  BY DEF IInv
<1>2. /\ req' = req /\ request' = request /\ age' = age /\ m2h_finish' = m2h_finish
      /\ reading' = reading /\ m2hq' = m2hq /\ tmp' = tmp
      /\ slots' = slots /\ cmd_ready' = cmd_ready /\ data_ready' = data_ready
      /\ host' = host /\ notified' = notified /\ posted' = posted
  BY DEF reader, stream, qdma, memory
<1>3. /\ cpt' = cpt /\ was' = was /\ job' = job /\ sent' = sent
      /\ c2h' = c2h /\ m2h_start' = m2h_start /\ M2HRequest' = M2HRequest /\ This' = This
  BY RegistersAre
<1>4. QTypes' /\ AllFlags' /\ AllFired'
  BY <1>1, <1>2, QStay, HeadsStay
<1>5. ETypes' /\ Pace' /\ InRange'
  <2>1. m2h_finish' \in BOOLEAN
    BY <1>1, <1>2 DEF ETypes
  <2> QED
    BY <1>1, <1>2, <2>1, EStay
<1>6. STypes' /\ CTypes' /\ HTypes'
  BY <1>1, <1>2, <1>3 DEF STypes, CTypes, HTypes
<1>7. (Quiet => Quiet') /\ OnTheWay' = OnTheWay
  BY <1>2, <1>3 DEF Quiet, OnTheWay
<1>8. Drainage'
  BY <1>1, <1>2, <1>3 DEF DStage, Drainage
<1>9. UnitStage' /\ DStage'
  <2>1. data_ready' => cpt.data_valid /\ slots # <<>>
    BY <1>1, <1>2 DEF UnitStage
  <2> QED
    BY <1>1, <1>2, <1>7, <1>8, <2>1, UnitStays, DStays
<1>10. Wanted' = Wanted
  BY <1>2, WantedStays
<1>11. Stream' /\ Landed' /\ Names'
  BY <1>1, <1>2, <1>7, <1>10, StreamStays, LandedStays, NamesStay
<1> QED
  BY <1>4, <1>5, <1>6, <1>9, <1>11 DEF IInv

LEMMA H2DWrittenKeeps ==
  ASSUME IInv, H2DWritten
  PROVE  IInv'
<1>1. CTypes /\ HStage /\ DStage /\ Reports
  BY DEF IInv
<1>2. UNCHANGED Registers /\ UNCHANGED <<req, reader, stream, qdma, memory, posted>>
  BY DEF H2DWritten, Registers, reader
<1>3. h2d.last /\ ~h2d.complete /\ was.h2d_last
      /\ h2d' = [h2d EXCEPT !.complete = TRUE]
  BY DEF H2DWritten
<1>4. /\ h2d' \in [last : BOOLEAN, complete : BOOLEAN, n : 0 .. MaxH2D]
      /\ h2d'.last = h2d.last /\ h2d'.n = h2d.n
  BY <1>1, <1>3 DEF CTypes
<1>5. win' = win /\ cpt' = cpt /\ was' = was /\ out' = out
  BY <1>2, RegistersAre
<1>6. HStage'
  <2>1. H2 /\ (out = Window => win.cpt_working)
    BY <1>1, <1>3, Zenon DEF HStage, H0, H1, H2, H3, H4, H5, H6, Open, Mine
  <2>2. H2'
    BY <1>4, <1>5, <2>1, Zenon DEF H2, Mine, WinOff
  <2> QED
    BY <1>5, <2>1, <2>2, Zenon DEF HStage
<1>7. (HStage' /\ DStage') => Reports'
  <2>1. notified' = notified
    BY <1>2 DEF memory
  <2> QED
    BY <1>1, <1>2, <1>4, <2>1, ReportsStay
<1> QED
  BY <1>2, <1>4, <1>6, <1>7, PathKeeps

LEMMA H2DLastKeeps ==
  ASSUME IInv, H2DLast
  PROVE  IInv'
<1>1. CTypes /\ HStage /\ DStage /\ Reports
  BY DEF IInv
<1>2. UNCHANGED Registers /\ UNCHANGED <<req, reader, stream, qdma, memory, posted>>
  BY DEF H2DLast, Registers, reader
<1>3. h2d.n < MaxH2D /\ ~h2d.last /\ ~was.h2d_last
      /\ h2d' = [h2d EXCEPT !.last = TRUE, !.n = h2d.n + 1]
  BY DEF H2DLast
<1>4. h2d \in [last : BOOLEAN, complete : BOOLEAN, n : 0 .. MaxH2D] /\ h2d.n \in Nat /\ MaxH2D \in Nat
  BY <1>1, ConstantsAssumption DEF CTypes
<1>5. /\ h2d' \in [last : BOOLEAN, complete : BOOLEAN, n : 0 .. MaxH2D]
      /\ h2d'.last /\ h2d'.complete = h2d.complete /\ h2d'.n = h2d.n + 1
  <2> DEFINE m == h2d.n + 1
  <2>1. m \in 0 .. MaxH2D /\ h2d' = [h2d EXCEPT !.last = TRUE, !.n = m]
    BY <1>3, <1>4
  <2> HIDE DEF m
  <2>2. /\ h2d' \in [last : BOOLEAN, complete : BOOLEAN, n : 0 .. MaxH2D]
        /\ h2d'.last /\ h2d'.complete = h2d.complete /\ h2d'.n = m
    BY <1>4, <2>1
  <2> QED
    BY <2>2 DEF m
<1>6. win' = win /\ cpt' = cpt /\ was' = was /\ out' = out /\ job' = job
  BY <1>2, RegistersAre
<1>7. H0 /\ (out = Window => win.cpt_working)
  BY <1>1, <1>3, Zenon DEF HStage, H0, H1, H2, H3, H4, H5, H6, Open, Mine
<1>8. H1' /\ HStage'
  <2>1. H1'
    BY <1>3, <1>5, <1>6, <1>7, Zenon DEF H0, H1, WinOff
  <2> QED
    BY <1>6, <1>7, <2>1, Zenon DEF HStage
<1>9. HTold /\ ~HTold'
  <2>1. HTold
    BY <1>7 DEF HTold
  <2>2. ~cpt'.h2c_was /\ ~cpt'.h2c_started
    BY <1>8, Zenon DEF H1
  <2> QED
    BY <1>5, <1>8, <2>1, <2>2, HToldNext
<1>10. (HStage' /\ DStage') => Reports'
  <2> SUFFICES ASSUME DStage' PROVE Reports'
    OBVIOUS
  <2>1. Distinct' /\ Reported' = Reported
    BY <1>1, <1>2 DEF Reports, Distinct, Reported, memory
  <2>2. \A i \in Queues : ToldAt(i)' <=> ToldAt(i)
    <3>1. cpt' = cpt /\ head' = head /\ Sel' = Sel /\ This' = This
      BY <1>2, RegistersAre
    <3>2. DTold <=> \/ cpt.c2h_started /\ FlagDone
                    \/ This.last /\ cpt.c2h_cpt_complete /\ cpt.c2h_was
      BY <1>1, DToldIs
    <3>3. DTold' <=> \/ cpt'.c2h_started /\ FlagDone'
                     \/ This'.last /\ cpt'.c2h_cpt_complete /\ cpt'.c2h_was
      BY DToldNext
    <3>4. FlagDone' <=> FlagDone
      BY <3>1 DEF FlagDone
    <3>5. DTold' <=> DTold
      BY <3>1, <3>2, <3>3, <3>4, Zenon
    <3> QED
      BY <3>1, <3>5, Zenon DEF ToldAt
  <2>3. \A id \in Reported' : \/ id.q = NumQ /\ HReported(id)'
                              \/ id.q \in Queues /\ DReported(id)'
    <3> TAKE id \in Reported'
    <3>1. \/ id.q = NumQ /\ HReported(id)
          \/ id.q \in Queues /\ DReported(id)
      BY <1>1, <2>1, Zenon DEF Reports
    <3>2. HReported(id) => HReported(id)'
      <4>1. HReported(id) => id.n \in 1 .. h2d.n
        BY DEF HReported
      <4>2. id.n \in 1 .. h2d.n => id.n \in 1 .. h2d'.n /\ id.n # h2d'.n
        BY ONLY <1>4, <1>5
      <4> QED
        BY <4>1, <4>2, Zenon DEF HReported
    <3>3. id.q \in Queues /\ DReported(id) => DReported(id)'
      BY <1>6, <2>2, Zenon DEF DReported
    <3> QED
      BY <3>1, <3>2, <3>3
  <2>4. \A n \in 1 .. h2d'.n : (n < h2d'.n \/ HTold') => H2DId(n) \in Reported'
    <3> TAKE n \in 1 .. h2d'.n
    <3> HAVE n < h2d'.n \/ HTold'
    <3>1. n \in 1 .. h2d.n
      BY <1>4, <1>5, <1>9
    <3> QED
      BY <1>1, <1>9, <2>1, <3>1, Zenon DEF Reports
  <2>5. \A i \in Queues : job'[i] # NoJob /\ ToldAt(i)' => job'[i].id \in Reported'
    BY <1>1, <1>6, <2>1, <2>2, Zenon DEF Reports
  <2>6. h2d'.last => h2d'.n >= 1
    BY <1>4, <1>5
  <2> QED
    BY <2>1, <2>3, <2>4, <2>5, <2>6, Zenon DEF Reports
<1> QED
  BY <1>2, <1>5, <1>8, <1>10, PathKeeps

LEMMA StutterKeeps ==
  ASSUME IInv, UNCHANGED vars
  PROVE  IInv'
<1>1. UNCHANGED Registers /\ UNCHANGED <<req, reader, stream, qdma, memory, posted>> /\ h2d' = h2d
  BY DEF vars, Registers, reader
<1>2. /\ CTypes /\ HStage /\ DStage /\ Reports
  BY DEF IInv
<1>3. h2d' \in [last : BOOLEAN, complete : BOOLEAN, n : 0 .. MaxH2D]
  BY <1>1, <1>2 DEF CTypes
<1>4. Quiet => Quiet'
  <2>1. c2h' = c2h /\ m2h_start' = m2h_start
    BY <1>1, RegistersAre
  <2> QED
    BY <1>1, <2>1 DEF Quiet, reader, stream
<1>5. HStage'
  BY <1>1, <1>2, <1>4, HStays
<1>6. (HStage' /\ DStage') => Reports'
  <2>1. notified' = notified
    BY <1>1 DEF memory
  <2> QED
    BY <1>1, <1>2, <2>1, ReportsStay
<1> QED
  BY <1>1, <1>3, <1>5, <1>6, PathKeeps

-----------------------------------------------------------------------------
(* The QDMA takes a beat. *)

LEMMA TailWay ==
  ASSUME QTypes, ETypes, STypes, InRange, UNCHANGED Registers,
         UNCHANGED <<m2hq, reading, request>>, tmp # <<>>, tmp' = <<>>
  PROVE  OnTheWay' = Tail(OnTheWay) /\ OnTheWay # <<>> /\ Head(OnTheWay) = tmp[1]
<1> DEFINE B == 0 .. AddrSpace - 1
<1>1. /\ tmp \in Seq(B) /\ m2hq \in Seq(B) /\ reading \in Seq(B) /\ Len(tmp) =< 1
  BY DEF STypes
<1>2. Asked \in Seq(B) /\ Pulsed \in Seq(B)
  BY AskedType
<1>3. Tail(tmp) = <<>>
  BY <1>1
<1>4. m2h_start' = m2h_start /\ M2HRequest' = M2HRequest
  BY RegistersAre
<1>5. Asked' = Asked /\ Pulsed' = Pulsed
  BY <1>4 DEF Asked, Pulsed
<1> DEFINE a == tmp \o m2hq
           c == a \o reading
           d == c \o Asked
<1>6. a \in Seq(B) /\ a # <<>> /\ Tail(tmp) \o m2hq = Tail(a)
  <2>1. a \in Seq(B) /\ a # <<>>
    BY <1>1, ConcatProperties, ConcatEqualIffEmpty
  <2>2. Tail(tmp) \o m2hq = Tail(a)
    BY <1>1, ConcatTail
  <2> QED
    BY <2>1, <2>2
<1> HIDE DEF a
<1>7. c \in Seq(B) /\ c # <<>> /\ Tail(a) \o reading = Tail(c)
  <2>1. c \in Seq(B) /\ c # <<>>
    BY <1>1, <1>6, ConcatProperties, ConcatEqualIffEmpty
  <2>2. Tail(a) \o reading = Tail(c)
    BY <1>1, <1>6, ConcatTail
  <2> QED
    BY <2>1, <2>2
<1> HIDE DEF c
<1>8. d \in Seq(B) /\ d # <<>> /\ Tail(c) \o Asked = Tail(d)
  <2>1. d \in Seq(B) /\ d # <<>>
    BY <1>2, <1>7, ConcatProperties, ConcatEqualIffEmpty
  <2>2. Tail(c) \o Asked = Tail(d)
    BY <1>2, <1>7, ConcatTail
  <2> QED
    BY <2>1, <2>2
<1> HIDE DEF d
<1> DEFINE w == d \o Pulsed
<1>9. w \in Seq(B) /\ w # <<>> /\ Tail(d) \o Pulsed = Tail(w)
  <2>1. w \in Seq(B) /\ w # <<>>
    BY <1>2, <1>8, ConcatProperties, ConcatEqualIffEmpty
  <2>2. Tail(d) \o Pulsed = Tail(w)
    BY <1>2, <1>8, ConcatTail
  <2> QED
    BY <2>1, <2>2
<1>10. OnTheWay = w
  <2>1. OnTheWay = Carried \o Asked \o Pulsed
    BY WayIs
  <2>2. Carried = tmp \o m2hq \o reading
    BY DEF Carried
  <2> QED
    BY ONLY <2>1, <2>2, Zenon DEF w, d, c, a
<1>11. OnTheWay' = <<>> \o m2hq \o reading \o Asked \o Pulsed
  <2>1. OnTheWay' = Carried' \o Asked' \o Pulsed'
    BY Zenon DEF OnTheWay, Carried, Asked, Pulsed
  <2>2. Carried' = <<>> \o m2hq \o reading
    BY Zenon DEF Carried
  <2> QED
    BY ONLY <1>5, <2>1, <2>2, Zenon
<1>12. OnTheWay' = Tail(w)
  <2>1. <<>> \o m2hq = Tail(a)
    BY ONLY <1>3, <1>6, Zenon
  <2>2. <<>> \o m2hq \o reading = Tail(c)
    BY ONLY <2>1, <1>7, Zenon
  <2>3. <<>> \o m2hq \o reading \o Asked = Tail(d)
    BY ONLY <2>2, <1>8, Zenon
  <2>4. <<>> \o m2hq \o reading \o Asked \o Pulsed = Tail(w)
    BY ONLY <2>3, <1>9, Zenon
  <2> QED
    BY ONLY <1>11, <2>4, Zenon
<1>13. w[1] = tmp[1]
  <2>1. Len(tmp) >= 1 /\ Len(m2hq) \in Nat /\ Len(reading) \in Nat /\ Len(tmp) \in Nat
    BY <1>1
  <2>2. a[1] = tmp[1] /\ Len(a) >= 1 /\ Len(a) \in Nat
    BY <1>1, <2>1, ConcatProperties DEF a
  <2>3. c[1] = a[1] /\ Len(c) >= 1 /\ Len(c) \in Nat
    BY <1>1, <1>6, <2>1, <2>2, ConcatProperties DEF c
  <2>4. d[1] = c[1] /\ Len(d) >= 1 /\ Len(d) \in Nat
    BY <1>2, <1>7, <2>3, ConcatProperties DEF d
  <2>5. w[1] = d[1]
    BY <1>2, <1>8, <2>4, ConcatProperties DEF w
  <2> QED
    BY <2>2, <2>3, <2>4, <2>5
<1> HIDE DEF w
<1>14. Head(w) = w[1]
  BY <1>9
<1> QED
  BY <1>9, <1>10, <1>12, <1>13, <1>14

LEMMA TakeBeatIs ==
  ASSUME IInv, TakeBeat
  PROVE  /\ UNCHANGED Registers /\ UNCHANGED <<req, h2d, posted, request, age, m2h_finish>>
         /\ UNCHANGED <<reading, m2hq, cmd_ready, data_ready>>
         /\ tmp # <<>> /\ tmp' = <<>> /\ slots # <<>> /\ slots' = Tail(slots)
         /\ Land(Head(slots), tmp[1])
         /\ ~Quiet /\ UnitIdle /\ ~FlagSlot /\ ~data_ready /\ Wanted = slots \o Offer
<1>1. /\ UNCHANGED Registers /\ UNCHANGED <<req, h2d, posted, request, age, m2h_finish>>
      /\ UNCHANGED <<reading, m2hq, cmd_ready, data_ready>>
      /\ tmp # <<>> /\ tmp' = <<>> /\ slots # <<>> /\ slots' = Tail(slots)
      /\ Land(Head(slots), tmp[1]) /\ ~cpt.data_valid
  BY DEF TakeBeat, Registers, sched, reader
<1>2. ~Quiet
  BY <1>1 DEF Quiet
<1>3. UnitIdle /\ ~data_ready
  BY <1>1, <1>2, Zenon DEF IInv, UnitStage, UnitBusy
<1>4. ~FlagSlot
  BY <1>3 DEF UnitIdle
<1>5. Wanted = slots \o Offer
  BY <1>4, WantedIs DEF IInv
<1> QED
  BY <1>1, <1>2, <1>3, <1>4, <1>5

(* The slot that is filled is the first wanted, with its own beat.           *)
LEMMA TakeBeatPairs ==
  ASSUME IInv, TakeBeat
  PROVE  /\ Wanted' = Tail(Wanted) /\ Wanted # <<>> /\ Head(Wanted) = Head(slots)
         /\ ~FlagSlot' /\ Stream'
         /\ Good(Head(slots), posted) /\ tmp[1] = Source(Head(slots), posted)
         /\ Head(slots) \in SlotType /\ Head(slots).off < Flag
<1>1. /\ UNCHANGED Registers /\ UNCHANGED <<req, h2d, posted, request, age, m2h_finish>>
      /\ UNCHANGED <<reading, m2hq, cmd_ready, data_ready>>
      /\ tmp # <<>> /\ tmp' = <<>> /\ slots # <<>> /\ slots' = Tail(slots)
      /\ ~FlagSlot /\ Wanted = slots \o Offer
  BY TakeBeatIs
<1>2. /\ QTypes /\ ETypes /\ STypes /\ InRange /\ Stream /\ HTypes /\ Names
  BY DEF IInv
<1>3. /\ Head(slots) \in SlotType /\ Head(slots) = slots[1] /\ Tail(slots) \in Seq(SlotType)
      /\ Len(Tail(slots)) = Len(slots) - 1 /\ Len(slots) \in Nat \ {0}
      /\ \A k \in 1 .. Len(slots) - 1 : Tail(slots)[k] = slots[k + 1]
  <2>1. slots \in Seq(SlotType)
    BY <1>2 DEF STypes
  <2> QED
    BY <1>1, <2>1, HeadTail
<1>4. slots \in Seq(SlotType) /\ Offer \in Seq(SlotType)
  BY <1>2, OfferType DEF STypes
<1>5. ~FlagSlot'
  <2>1. \A k \in 1 .. Len(slots) : slots[k].off # Flag
    BY <1>1 DEF FlagSlot
  <2>2. \A k \in 1 .. Len(Tail(slots)) : Tail(slots)[k].off # Flag
    BY <1>3, <2>1
  <2> QED
    BY <1>1, <2>2 DEF FlagSlot
<1>6. Wanted' = slots' \o Offer'
  <2>1. CASE slots' = <<>>
    BY <2>1 DEF Wanted, Offer
  <2>2. CASE slots' # <<>>
    <3>1. 1 \in 1 .. Len(slots')
      BY <1>1, <1>3, <2>2
    <3>2. slots'[1].off # Flag
      BY <1>5, <3>1 DEF FlagSlot
    <3>3. ~(\A k \in 1 .. Len(slots') : slots'[k].off = Flag)
      BY <3>1, <3>2
    <3> QED
      BY <3>3, Zenon DEF Wanted, Offer
  <2> QED
    BY <2>1, <2>2
<1>7. Offer' = Offer
  BY <1>1, RegistersAre
<1>8. Wanted' = Tail(Wanted)
  <2>1. Tail(slots) \o Offer = Tail(slots \o Offer)
    BY <1>1, <1>4, ConcatTail
  <2> QED
    BY ONLY <1>1, <1>6, <1>7, <2>1, Zenon
<1>9. OnTheWay' = Tail(OnTheWay) /\ OnTheWay # <<>> /\ Head(OnTheWay) = tmp[1]
  BY <1>1, <1>2, TailWay
<1>10. /\ Paired(Tail(OnTheWay), Tail(Wanted), posted) /\ Wanted # <<>>
       /\ Good(Head(Wanted), posted) /\ Head(OnTheWay) = Source(Head(Wanted), posted)
  <2>1. Paired(OnTheWay, Wanted, posted)
    BY <1>2 DEF Stream
  <2> QED
    BY <1>9, <2>1, PairedTail
<1>11. Head(Wanted) = Head(slots)
  <2> DEFINE w == slots \o Offer
  <2>1. w[1] = slots[1] /\ w \in Seq(SlotType) /\ w # <<>>
    <3>1. 1 \in 1 .. Len(slots) /\ Len(Offer) \in Nat
      BY <1>3, <1>4
    <3> QED
      BY <1>1, <1>4, <3>1, ConcatProperties, ConcatEqualIffEmpty
  <2> HIDE DEF w
  <2>2. Head(w) = w[1]
    BY <2>1
  <2> QED
    BY <1>1, <1>3, <2>1, <2>2 DEF w
<1>12. Stream'
  <2>1. Paired(OnTheWay', Wanted', posted')
    BY <1>1, <1>8, <1>9, <1>10
  <2>2. c2h' = c2h /\ m2h_start' = m2h_start /\ M2HRequest' = M2HRequest
    BY <1>1, RegistersAre
  <2> QED
    BY <1>1, <1>2, <2>1, <2>2, Zenon DEF Stream, Source
<1>13. Head(slots).off < Flag
  <2> DEFINE s == Head(slots)
  <2>1. Good(s, posted) /\ s \in SlotType
    BY <1>3, <1>10, <1>11
  <2> HIDE DEF s
  <2>2. s.id.n \in 1 .. Len(posted) /\ s.off < posted[s.id.n].len
    BY <2>1 DEF Good
  <2>3. posted[s.id.n].len \in 0 .. AddrSpace
    <3>1. posted \in Seq(Job)
      BY <1>2 DEF HTypes
    <3>2. posted[s.id.n] \in Job
      BY <2>2, <3>1
    <3> QED
      BY <3>2, Zenon DEF Job
  <2>4. s.off < Flag
    BY <2>1, <2>2, <2>3, ConstantsAssumption DEF Flag, SlotType
  <2> QED
    BY <2>4 DEF s
<1>14. Good(Head(slots), posted) /\ tmp[1] = Source(Head(slots), posted)
  BY ONLY <1>9, <1>10, <1>11, Zenon
<1> QED
  BY <1>3, <1>5, <1>8, <1>10, <1>11, <1>12, <1>13, <1>14

(* What was in the host's memory or wanted still is.                         *)
LEMMA TakeBeatLands ==
  ASSUME IInv, TakeBeat, NEW id, NEW k
  PROVE  /\ InHost(id, k) => InHost(id, k)'
         /\ Wants(id, k) => InHost(id, k)' \/ Wants(id, k)'
<1> DEFINE s == Head(slots)
<1>1. Land(s, tmp[1]) /\ posted' = posted
  BY TakeBeatIs
<1>2. Wanted' = Tail(Wanted) /\ Wanted # <<>> /\ Head(Wanted) = s
      /\ tmp[1] = Source(s, posted)
  BY TakeBeatPairs
<1>3. Wanted \in Seq(SlotType)
  BY DEF IInv, Stream, Paired
<1>4. tmp[1] = posted[s.id.n].m2h + s.off
  BY <1>2 DEF Source
<1> HIDE DEF s
<1>5. [id |-> s.id, off |-> s.off, beat |-> tmp[1]] \in host'
  BY <1>1 DEF Land
<1>6. ASSUME InHost(id, k) PROVE InHost(id, k)'
  <2> DEFINE w == [id |-> id, off |-> k, beat |-> posted[id.n].m2h + k]
  <2>1. w \in host
    BY <1>6 DEF InHost
  <2>2. w.id = id /\ w.off = k
    OBVIOUS
  <2>3. id = s.id /\ k = s.off => w = [id |-> s.id, off |-> s.off, beat |-> tmp[1]]
    BY <1>4
  <2> HIDE DEF w
  <2>4. w \in host'
    <3>1. (w.id = s.id /\ w.off = s.off) => w = [id |-> s.id, off |-> s.off, beat |-> tmp[1]]
      BY <2>2, <2>3
    <3> QED
      BY ONLY <1>1, <2>1, <3>1, LandKeeps
  <2> QED
    BY <1>1, <2>4 DEF InHost, w
<1>7. ASSUME Wants(id, k) PROVE InHost(id, k)' \/ Wants(id, k)'
  <2> DEFINE v == Wanted
             t == Tail(v)
             e == [id |-> id, off |-> k]
  <2>1. PICK m \in 1 .. Len(v) : v[m] = e
    BY <1>7 DEF Wants
  <2>2. v \in Seq(SlotType) /\ v # <<>>
    BY <1>2, <1>3
  <2>3. Head(v) = s /\ Wanted' = t
    BY <1>2
  <2>4. Wants(id, k)' <=> \E l \in 1 .. Len(t) : t[l] = e
    BY <2>3 DEF Wants
  <2> HIDE DEF v
  <2>5. /\ Head(v) = v[1] /\ Len(t) = Len(v) - 1 /\ Len(v) \in Nat \ {0}
        /\ \A l \in 1 .. Len(v) - 1 : t[l] = v[l + 1]
    BY <2>2, HeadTail
  <2> HIDE DEF t
  <2>6. CASE m = 1
    <3>1. s = e
      BY <2>1, <2>3, <2>5, <2>6
    <3>2. s.id = id /\ s.off = k
      BY <3>1
    <3>3. [id |-> id, off |-> k, beat |-> posted[id.n].m2h + k] \in host'
      BY <1>4, <1>5, <3>2
    <3> QED
      BY <1>1, <3>3 DEF InHost
  <2>7. CASE m # 1
    <3> DEFINE l == m - 1
    <3>1. l \in 1 .. Len(t) /\ l \in 1 .. Len(v) - 1 /\ l + 1 = m
      BY <2>1, <2>5, <2>7
    <3>2. t[l] = v[l + 1]
      BY ONLY <2>5, <3>1
    <3>3. t[l] = e
      BY <2>1, <3>1, <3>2
    <3> HIDE DEF l
    <3> QED
      BY <2>4, <3>1, <3>3
  <2> QED
    BY <2>6, <2>7
<1> QED
  BY <1>6, <1>7

LEMMA TakeBeatKeeps ==
  ASSUME IInv, TakeBeat
  PROVE  IInv'
<1>1. /\ QTypes /\ ETypes /\ STypes /\ CTypes /\ HTypes
      /\ AllFlags /\ AllFired /\ Pace /\ InRange
      /\ UnitStage /\ HStage /\ DStage
      /\ Names /\ Reports /\ Landed
  BY DEF IInv
<1>2. /\ UNCHANGED Registers /\ UNCHANGED <<req, h2d, posted, request, age, m2h_finish>>
      /\ UNCHANGED <<reading, m2hq, cmd_ready, data_ready>>
      /\ tmp # <<>> /\ tmp' = <<>> /\ slots # <<>> /\ slots' = Tail(slots)
      /\ Land(Head(slots), tmp[1])
      /\ ~Quiet /\ UnitIdle /\ ~data_ready
  BY TakeBeatIs
<1>3. /\ ~FlagSlot' /\ Stream'
      /\ Head(slots) \in SlotType /\ Head(slots).off < Flag
  BY TakeBeatPairs
<1>4. /\ cpt' = cpt /\ was' = was /\ job' = job /\ sent' = sent /\ head' = head
      /\ m2h_start' = m2h_start /\ This' = This
  BY <1>2, RegistersAre
<1>5. QTypes' /\ AllFlags' /\ AllFired'
  BY <1>1, <1>2, QStay, HeadsStay
<1>6. ETypes' /\ Pace' /\ InRange'
  <2>1. m2h_finish' \in BOOLEAN
    BY <1>1, <1>2 DEF ETypes
  <2> QED
    BY <1>1, <1>2, <2>1, EStay
<1>7. STypes'
  <2>1. slots' \in Seq(SlotType)
    BY <1>1, <1>2, HeadTail DEF STypes
  <2>2. tmp' \in Seq(0 .. AddrSpace - 1) /\ Len(tmp') =< 1
    BY <1>2
  <2> QED
    BY <1>1, <1>2, <2>1, <2>2 DEF STypes
<1>8. CTypes'
  BY <1>1, <1>2, <1>4 DEF CTypes
<1>9. HTypes' /\ notified' = notified
  <2>1. tmp[1] \in 0 .. FlagBeat
    <3> DEFINE B == 0 .. AddrSpace - 1
    <3>1. tmp \in Seq(B)
      BY <1>1 DEF STypes
    <3> HIDE DEF B
    <3>2. tmp[1] \in B
      BY ONLY <1>2, <3>1
    <3> QED
      BY <3>2, ConstantsAssumption DEF FlagBeat, B
  <2>2. Head(slots).off # Flag
    <3>1. Head(slots).off \in Nat /\ Flag \in Nat
      BY <1>3, ConstantsAssumption DEF SlotType, Flag
    <3> QED
      BY <1>3, <3>1
  <2>3. /\ host' \in SUBSET [id : Ids, off : Nat, beat : 0 .. FlagBeat]
        /\ notified' \in Seq(Ids) /\ notified' = notified
    BY <1>1, <1>2, <1>3, <2>1, <2>2, LandType
  <2> QED
    BY <1>1, <1>2, <1>4, <2>3 DEF HTypes
<1>10. UnitStage'
  <2>1. UnitIdle'
    BY <1>2, <1>3, <1>4, Zenon DEF UnitIdle
  <2> QED
    BY <1>1, <1>2, <1>4, <2>1, Zenon DEF UnitStage
<1>11. HStage'
  BY <1>1, <1>2, HStays
<1>12. Drainage'
  BY <1>1, <1>2, <1>4 DEF DStage, Drainage
<1>13. DStage'
  BY <1>1, <1>2, <1>12, DStays
<1>14. Names'
  BY <1>1, <1>2, NamesStay
<1>15. Reports'
  BY <1>1, <1>2, <1>9, <1>11, <1>13, ReportsStay
<1>16. BufferFilled'
  <2> SUFFICES ASSUME NEW n \in 1 .. Len(posted), posted[n].id \in Reported,
                      NEW k \in 0 .. posted[n].len - 1
               PROVE  [id |-> posted[n].id, off |-> k, beat |-> posted[n].m2h + k] \in host'
    BY <1>2, <1>9 DEF BufferFilled, Reported
  <2>1. posted[n].id.n = n
    BY <1>1 DEF Names, PostedNamed
  <2>2. [id |-> posted[n].id, off |-> k, beat |-> posted[n].m2h + k] \in host
    BY <1>1 DEF Landed, BufferFilled
  <2>3. PICK id : id = posted[n].id
    OBVIOUS
  <2>4. InHost(id, k)
    BY <2>1, <2>2, <2>3 DEF InHost
  <2>5. InHost(id, k)'
    BY <2>4, TakeBeatLands
  <2> QED
    BY <1>2, <2>1, <2>3, <2>5 DEF InHost
<1>17. Landed'
  <2>1. ASSUME NEW i \in Queues, head'[i].working, NEW k \in 0 .. sent'[i] - 1
        PROVE  InHost(job[i].id, k)' \/ Wants(job[i].id, k)'
    <3>1. PICK id : id = job[i].id
      OBVIOUS
    <3>2. InHost(id, k) \/ Wants(id, k)
      BY <1>1, <1>4, <2>1, <3>1 DEF Landed
    <3>3. InHost(id, k)' \/ Wants(id, k)'
      BY <3>2, TakeBeatLands
    <3>4. InHost(id, k)' => InHost(job[i].id, k)'
      BY <1>4, <3>1 DEF InHost
    <3>5. Wants(id, k)' => Wants(job[i].id, k)'
      BY <1>4, <3>1 DEF Wants
    <3> QED
      BY <3>3, <3>4, <3>5
  <2> QED
    BY <1>16, <2>1 DEF Landed
<1> QED
  BY <1>3, <1>5, <1>6, <1>7, <1>8, <1>9, <1>10, <1>11, <1>13, <1>14, <1>15, <1>17 DEF IInv

-----------------------------------------------------------------------------
(* The host posts a command. *)

LEMMA PostIs ==
  ASSUME IInv, Regular, NEW i \in UsedQueues, NEW c \in Cmds, Post(i, c)
  PROVE  /\ UNCHANGED Registers
         /\ UNCHANGED <<request, m2h_finish, age, h2d, reading, m2hq, tmp, slots>>
         /\ UNCHANGED <<cmd_ready, data_ready, host, notified>>
         /\ Len(posted) \in Nat /\ Len(posted) < MaxPosts /\ req = <<>> /\ i \in Queues
         /\ Numbered(i, Len(posted) + 1, c) \in Job /\ Sound(Numbered(i, Len(posted) + 1, c))
         /\ posted \in Seq(Job)
         /\ posted' = Append(posted, Numbered(i, Len(posted) + 1, c))
         /\ req' = <<[q |-> i, cmd |-> Numbered(i, Len(posted) + 1, c)]>>
<1>1. /\ UNCHANGED Registers
      /\ UNCHANGED <<request, m2h_finish, age, h2d, reading, m2hq, tmp, slots>>
      /\ UNCHANGED <<cmd_ready, data_ready, host, notified>>
      /\ Len(posted) < MaxPosts /\ req = <<>>
      /\ posted' = Append(posted, Numbered(i, Len(posted) + 1, c))
      /\ req' = <<[q |-> i, cmd |-> Numbered(i, Len(posted) + 1, c)]>>
  BY DEF Post, Registers, sched, reader, stream, qdma, memory
<1>2. posted \in Seq(Job) /\ Len(posted) \in Nat
  BY DEF IInv, HTypes
<1>3. i \in Queues
  BY ConstantsAssumption
<1> DEFINE n == Len(posted) + 1
           d == Numbered(i, n, c)
<1>4. n \in 0 .. MaxPosts + MaxH2D /\ i \in 0 .. NumQ
  BY <1>1, <1>2, <1>3, ConstantsAssumption DEF Queues
<1> HIDE DEF n
<1>5. /\ c.m2h \in 0 .. AddrSpace - 1 /\ c.len \in 1 .. AddrSpace /\ c.pkt \in 1 .. AddrSpace
      /\ c.m2h + c.len =< AddrSpace
  <2>1. c \in Command
    BY ConstantsAssumption
  <2> QED
    BY <2>1, ConstantsAssumption DEF Command
<1>6. d.id = [q |-> i, n |-> n] /\ d.m2h = c.m2h /\ d.len = c.len /\ d.pkt = c.pkt
  BY DEF Numbered
<1>7. d \in Job
  <2>1. [q |-> i, n |-> n] \in Ids
    BY <1>4 DEF Ids
  <2>2. c.len \in 0 .. AddrSpace /\ c.pkt \in 0 .. AddrSpace
    BY <1>5, ConstantsAssumption
  <2> QED
    BY <1>5, <2>1, <2>2, Zenon DEF Numbered, Job
<1>8. Fits(d)
  <2>1. Fits(c)
    BY DEF Regular
  <2> HIDE DEF d
  <2> QED
    BY <1>6, <2>1 DEF Fits, Given
<1>9. Sound(d)
  <2> HIDE DEF d
  <2> QED
    BY <1>5, <1>6, <1>7, <1>8 DEF Sound
<1> QED
  BY <1>1, <1>2, <1>3, <1>7, <1>9 DEF d, n

(* What was posted stays where it was.                                       *)
LEMMA PostGrows ==
  ASSUME IInv, Regular, NEW i \in UsedQueues, NEW c \in Cmds, Post(i, c)
  PROVE  /\ Len(posted') = Len(posted) + 1 /\ Len(posted) \in Nat
         /\ posted' \in Seq(Job)
         /\ \A n \in 1 .. Len(posted) : posted'[n] = posted[n]
         /\ posted'[Len(posted) + 1] = Numbered(i, Len(posted) + 1, c)
         /\ \A x, j : Own(x, j) => Own(x, j)'
         /\ \A s : Good(s, posted) => Good(s, posted') /\ Source(s, posted') = Source(s, posted)
<1> DEFINE d == Numbered(i, Len(posted) + 1, c)
<1>1. d \in Job /\ posted \in Seq(Job) /\ posted' = Append(posted, d)
  BY PostIs
<1> HIDE DEF d
<1>2. /\ Len(posted') = Len(posted) + 1 /\ Len(posted) \in Nat /\ posted' \in Seq(Job)
      /\ \A n \in 1 .. Len(posted) : posted'[n] = posted[n]
      /\ posted'[Len(posted) + 1] = d
  BY <1>1, Appended
<1>3. \A n : n \in 1 .. Len(posted) => n \in 1 .. Len(posted')
  BY <1>2
<1>4. \A x, j : Own(x, j) => Own(x, j)'
  BY <1>2, <1>3, Zenon DEF Own
<1>5. \A s : Good(s, posted) => Good(s, posted') /\ Source(s, posted') = Source(s, posted)
  BY <1>2, <1>3, Zenon DEF Good, Source
<1> QED
  BY <1>2, <1>4, <1>5 DEF d

LEMMA PostNames ==
  ASSUME IInv, Regular, NEW i \in UsedQueues, NEW c \in Cmds, Post(i, c)
  PROVE  Names'
<1> DEFINE N == Len(posted) + 1
           d == Numbered(i, N, c)
<1>1. /\ Len(posted) \in Nat /\ Len(posted') = N /\ i \in Queues
      /\ Sound(d) /\ req' = <<[q |-> i, cmd |-> d]>>
      /\ fifo' = fifo /\ job' = job
  BY PostIs, PostGrows, RegistersAre
<1>2. /\ \A n \in 1 .. Len(posted) : posted'[n] = posted[n]
      /\ posted'[N] = d
      /\ \A x, j : Own(x, j) => Own(x, j)'
  BY PostGrows
<1>3. d.id.n = N /\ d.id.q = i
  BY DEF Numbered
<1>4. /\ PostedNamed /\ QTypes
      /\ \A j \in Queues : FifoNamed(j) /\ JobNamed(j)
  BY DEF IInv, Names
<1> HIDE DEF d
<1>5. PostedNamed'
  <2> SUFFICES ASSUME NEW n \in 1 .. N
               PROVE  Sound(posted'[n]) /\ posted'[n].id.n = n /\ posted'[n].id.q \in UsedQueues
    BY <1>1 DEF PostedNamed
  <2>1. CASE n = N
    BY <1>1, <1>2, <1>3, <2>1
  <2>2. CASE n # N
    <3>1. n \in 1 .. Len(posted)
      BY <1>1, <2>2
    <3> QED
      BY <1>2, <1>4, <3>1, Zenon DEF PostedNamed
  <2> QED
    BY <2>1, <2>2
<1>6. ASSUME NEW j \in Queues
      PROVE  /\ FifoNamed(j)' /\ JobNamed(j)'
             /\ job[j].id.n < N /\ \A k \in 1 .. Len(fifo[j]) : fifo[j][k].id.n < N
  <2>1. FifoNamed(j) /\ JobNamed(j)
    BY <1>4
  <2>2. FifoNamed(j)' /\ JobNamed(j)'
    BY <1>1, <1>2, <2>1, Zenon DEF FifoNamed, JobNamed
  <2>3. job[j].id.n < N
    <3>1. CASE job[j] = NoJob
      BY <1>1, <3>1 DEF NoJob, NoId
    <3>2. CASE Own(job[j], j)
      <4>1. job[j].id.n \in 1 .. Len(posted)
        BY <3>2 DEF Own
      <4> QED
        BY <1>1, <4>1
    <3> QED
      BY <2>1, <3>1, <3>2 DEF JobNamed
  <2>4. ASSUME NEW k \in 1 .. Len(fifo[j]) PROVE fifo[j][k].id.n < N
    <3>1. fifo[j][k].id.n \in 1 .. Len(posted)
      BY <2>1, Zenon DEF FifoNamed, Own
    <3> QED
      BY <1>1, <3>1
  <2> QED
    BY <2>2, <2>3, <2>4
<1>7. ReqNamed'
  <2>1. req'[1].cmd = d /\ req'[1].q = i
    BY <1>1
  <2>2. Len(posted') >= 1
    BY <1>1
  <2> HIDE DEF N
  <2>3. /\ req'[1].cmd = posted'[Len(posted')] /\ req'[1].cmd.id.q = req'[1].q
    BY <1>1, <1>2, <1>3, <2>1
  <2> QED
    BY <1>1, <1>6, <2>2, <2>3, Zenon DEF ReqNamed
<1> QED
  BY <1>5, <1>6, <1>7, Zenon DEF Names

LEMMA PostStream ==
  ASSUME IInv, Regular, NEW i \in UsedQueues, NEW c \in Cmds, Post(i, c)
  PROVE  Stream'
<1>1. /\ UNCHANGED Registers /\ OnTheWay' = OnTheWay /\ Wanted' = Wanted
  <2>1. UNCHANGED Registers /\ UNCHANGED <<request, reading, m2hq, tmp, slots>>
    BY PostIs
  <2>2. m2h_start' = m2h_start /\ M2HRequest' = M2HRequest
    BY <2>1, RegistersAre
  <2> QED
    BY <2>1, <2>2, WantedStays DEF OnTheWay
<1>2. c2h' = c2h /\ m2h_start' = m2h_start /\ M2HRequest' = M2HRequest
  BY <1>1, RegistersAre
<1>3. Stream /\ Pace /\ ETypes /\ STypes /\ UnitStage
  BY DEF IInv
<1>4. \A s : Good(s, posted) => Good(s, posted') /\ Source(s, posted') = Source(s, posted)
  BY PostGrows
<1>5. Paired(OnTheWay', Wanted', posted')
  <2>1. Paired(OnTheWay, Wanted, posted)
    BY <1>3 DEF Stream
  <2>2. \A k \in 1 .. Len(Wanted) : Good(Wanted[k], posted') /\ OnTheWay[k] = Source(Wanted[k], posted')
    BY <1>4, <2>1, Zenon DEF Paired
  <2> QED
    BY <1>1, <2>1, <2>2, Zenon DEF Paired
<1>6. ASSUME m2h_start PROVE Good(Offer[1], posted) /\ Source(c2h.pkt, posted') = Source(c2h.pkt, posted)
  <2>1. c2h.state = "send" /\ c2h.pkt.len >= 1
    BY <1>3, <1>6 DEF Pace, Stream
  <2>2. ~FlagSlot
    BY <1>6, Zenon, <1>3 DEF UnitStage, UnitIdle, UnitBusy, Quiet
  <2>3. /\ Offer = SlotsOf(c2h.pkt) /\ Wanted = slots \o Offer
        /\ slots \in Seq(SlotType) /\ Offer \in Seq(SlotType)
    BY <1>3, <2>1, <2>2, WantedIs, OfferType DEF Offer, STypes
  <2>4. c2h.pkt \in [id : Ids, off : Nat, len : 0 .. AddrSpace]
    BY <1>3 DEF ETypes
  <2>5. 1 \in 1 .. Len(Offer) /\ Offer[1] = [id |-> c2h.pkt.id, off |-> c2h.pkt.off]
    <3>1. /\ Len(SlotsOf(c2h.pkt)) = c2h.pkt.len
          /\ \A k \in 1 .. c2h.pkt.len :
               SlotsOf(c2h.pkt)[k] = [id |-> c2h.pkt.id, off |-> c2h.pkt.off + k - 1]
      BY <2>4, SlotsType
    <3>2. c2h.pkt.len \in Nat /\ c2h.pkt.off \in Nat /\ 1 \in 1 .. c2h.pkt.len
      BY <2>1, <2>4, ConstantsAssumption
    <3>3. c2h.pkt.off + 1 - 1 = c2h.pkt.off
      BY <3>2
    <3> QED
      BY <2>3, <3>1, <3>2, <3>3
  <2>6. Good(Offer[1], posted)
    <3> DEFINE m == Len(slots) + 1
    <3>1. m \in 1 .. Len(Wanted) /\ Wanted[m] = Offer[1]
      BY <2>3, <2>5, ConcatProperties
    <3>2. Good(Wanted[m], posted)
      BY <1>3, <3>1 DEF Stream, Paired
    <3> QED
      BY <3>1, <3>2
  <2>7. c2h.pkt.id.n \in 1 .. Len(posted)
    BY <2>5, <2>6 DEF Good
  <2>8. posted'[c2h.pkt.id.n] = posted[c2h.pkt.id.n]
    BY <2>7, PostGrows
  <2> QED
    BY <2>6, <2>8 DEF Source
<1>7. m2h_start' => M2HRequest' = [addr |-> Source(c2h'.pkt, posted'), len |-> c2h'.pkt.len]
  BY <1>2, <1>3, <1>6, Zenon DEF Stream
<1>8. c2h'.state = "send" => c2h'.pkt.len >= 1
  BY <1>2, <1>3 DEF Stream
<1> QED
  BY <1>5, <1>7, <1>8 DEF Stream

LEMMA PostLanded ==
  ASSUME IInv, Regular, NEW i \in UsedQueues, NEW c \in Cmds, Post(i, c)
  PROVE  Landed'
<1> DEFINE N == Len(posted) + 1
           d == Numbered(i, N, c)
<1>1. /\ Len(posted) \in Nat /\ Len(posted') = N /\ i \in Queues
      /\ UNCHANGED Registers /\ UNCHANGED <<host, notified, slots>>
      /\ \A n \in 1 .. Len(posted) : posted'[n] = posted[n]
      /\ posted'[N] = d /\ d.id.n = N /\ d.id.q = i
  BY PostIs, PostGrows DEF Numbered
<1>2. head' = head /\ job' = job /\ sent' = sent /\ Wanted' = Wanted
  BY <1>1, RegistersAre, WantedStays
<1>3. AllFired /\ Names /\ Reports /\ Landed
  BY DEF IInv
<1>4. d.id \notin Reported
  <2> SUFFICES ASSUME d.id \in Reported PROVE FALSE
    OBVIOUS
  <2> DEFINE e == d.id
  <2>1. e \in Reported /\ e.n = N /\ e.q = i
    BY <1>1
  <2> HIDE DEF e
  <2>2. \/ e.q = NumQ /\ HReported(e)
        \/ e.q \in Queues /\ DReported(e)
    BY <1>3, <2>1, Zenon DEF Reports
  <2>3. i # NumQ
    BY <1>1, ConstantsAssumption DEF Queues
  <2>4. N \in 1 .. job[i].id.n
    BY <2>1, <2>2, <2>3, Zenon DEF DReported
  <2>5. JobNamed(i)
    BY <1>1, <1>3 DEF Names
  <2>6. CASE job[i] = NoJob
    BY <1>1, <2>4, <2>6 DEF NoJob, NoId
  <2>7. CASE Own(job[i], i)
    <3>1. job[i].id.n \in 1 .. Len(posted)
      BY <2>7 DEF Own
    <3> QED
      BY <1>1, <2>4, <3>1
  <2> QED
    BY <2>5, <2>6, <2>7 DEF JobNamed
<1>5. BufferFilled'
  <2> SUFFICES ASSUME NEW n \in 1 .. N, posted'[n].id \in Reported,
                      NEW k \in 0 .. posted'[n].len - 1
               PROVE  [id |-> posted'[n].id, off |-> k, beat |-> posted'[n].m2h + k] \in host
    BY <1>1 DEF BufferFilled, Reported
  <2>1. n # N
    BY <1>1, <1>4
  <2>2. n \in 1 .. Len(posted)
    BY <1>1, <2>1
  <2> QED
    BY <1>1, <1>3, <2>2 DEF Landed, BufferFilled
<1> HIDE DEF d, N
<1>6. ASSUME NEW j \in Queues, head'[j].working, NEW k \in 0 .. sent'[j] - 1
      PROVE  InHost(job[j].id, k)' \/ Wants(job[j].id, k)'
  <2>1. PICK id : id = job[j].id
    OBVIOUS
  <2>2. InHost(id, k) \/ Wants(id, k)
    BY <1>2, <1>3, <1>6, <2>1 DEF Landed
  <2>3. id.n \in 1 .. Len(posted)
    BY <1>2, <1>3, <1>6, <2>1, WorkingOwn DEF Own
  <2>4. InHost(id, k) => InHost(job[j].id, k)'
    BY <1>1, <1>2, <2>1, <2>3, Zenon DEF InHost
  <2>5. Wants(id, k) => Wants(job[j].id, k)'
    BY <1>2, <2>1, Zenon DEF Wants
  <2> QED
    BY <2>2, <2>4, <2>5
<1> QED
  BY <1>5, <1>6 DEF Landed

LEMMA PostKeeps ==
  ASSUME IInv, Regular, NEW i \in UsedQueues, NEW c \in Cmds, Post(i, c)
  PROVE  IInv'
<1>1. /\ QTypes /\ ETypes /\ STypes /\ CTypes /\ HTypes
      /\ AllFlags /\ AllFired /\ Pace /\ InRange
      /\ UnitStage /\ HStage /\ DStage /\ Reports
  BY DEF IInv
<1>2. /\ UNCHANGED Registers
      /\ UNCHANGED <<request, m2h_finish, age, h2d, reading, m2hq, tmp, slots>>
      /\ UNCHANGED <<cmd_ready, data_ready, host, notified>> /\ i \in Queues
      /\ Numbered(i, Len(posted) + 1, c) \in Job
      /\ req' = <<[q |-> i, cmd |-> Numbered(i, Len(posted) + 1, c)]>>
  BY PostIs
<1>3. /\ cpt' = cpt /\ was' = was /\ job' = job /\ sent' = sent /\ head' = head
      /\ fifo' = fifo /\ out' = out /\ next' = next
      /\ c2h' = c2h /\ m2h_start' = m2h_start /\ This' = This
  BY <1>2, RegistersAre
<1>4. QTypes'
  <2> DEFINE d == Numbered(i, Len(posted) + 1, c)
             R == [q : Queues, cmd : Job]
             r == [q |-> i, cmd |-> d]
  <2>1. d \in Job /\ req' = <<r>>
    BY <1>2
  <2> HIDE DEF d
  <2>2. r \in R
    BY <1>2, <2>1
  <2> HIDE DEF r, R
  <2>3. req' \in Seq(R) /\ Len(req') =< 1
    BY <2>1, <2>2
  <2> QED
    BY <1>1, <1>3, <2>3 DEF QTypes, R
<1>5. AllFlags' /\ AllFired'
  BY <1>1, <1>2, HeadsStay
<1>6. ETypes' /\ Pace' /\ InRange'
  <2>1. m2h_finish' \in BOOLEAN
    BY <1>1, <1>2 DEF ETypes
  <2> QED
    BY <1>1, <1>2, <2>1, EStay
<1>7. STypes' /\ CTypes'
  BY <1>1, <1>2, <1>3 DEF STypes, CTypes
<1>8. HTypes'
  <2>1. posted' \in Seq(Job)
    BY PostGrows
  <2> QED
    BY <1>1, <1>2, <1>3, <2>1 DEF HTypes
<1>9. Quiet => Quiet'
  BY <1>2, <1>3 DEF Quiet
<1>10. Drainage'
  BY <1>1, <1>2, <1>3 DEF DStage, Drainage
<1>11. UnitStage' /\ HStage' /\ DStage'
  <2>1. data_ready' => cpt.data_valid /\ slots # <<>>
    BY <1>1, <1>2 DEF UnitStage
  <2> QED
    BY <1>1, <1>2, <1>9, <1>10, <2>1, UnitStays, HStays, DStays
<1>12. Reports'
  BY <1>1, <1>2, <1>11, ReportsStay
<1>13. Stream' /\ Names' /\ Landed'
  BY PostStream, PostNames, PostLanded
<1> QED
  BY <1>4, <1>5, <1>6, <1>7, <1>8, <1>11, <1>12, <1>13 DEF IInv

LEMMA NextKeeps ==
  ASSUME IInv, Regular, [Next]_vars
  PROVE  IInv'
<1>1. CASE Tick
  BY <1>1, TickKeeps
<1>2. ASSUME NEW i \in UsedQueues, NEW c \in Cmds, Post(i, c) PROVE IInv'
  BY <1>2, PostKeeps
<1>3. CASE Reader
  BY <1>3, ReaderStartKeeps, ReaderDoneKeeps, HbmReturnKeeps, FifoReadKeeps DEF Reader
<1>4. CASE Qdma
  BY <1>4, TakeBeatKeeps, ReadyKeeps DEF Qdma
<1>5. CASE H2D
  BY <1>5, H2DLastKeeps, H2DWrittenKeeps DEF H2D
<1>6. CASE UNCHANGED vars
  BY <1>6, StutterKeeps
<1> QED
  BY <1>1, <1>2, <1>3, <1>4, <1>5, <1>6 DEF Next

-----------------------------------------------------------------------------
(* The initial state, and the theorems. *)

LEMMA NamesOfNone ==
  NoId \in Ids /\ NoJob \in Job /\ 0 \in Queues /\ IdleHead \in HeadType
<1>1. NoId \in Ids
  BY ConstantsAssumption DEF NoId, Ids
<1>2. 0 \in 0 .. AddrSpace - 1 /\ 0 \in 0 .. AddrSpace /\ DefaultPkt \in 0 .. AddrSpace
  BY ConstantsAssumption
<1>3. NoJob \in Job
  BY <1>1, <1>2 DEF NoJob, Job
<1>4. 0 \in Queues
  BY ConstantsAssumption DEF Queues
<1>5. IdleHead \in HeadType
  BY <1>1, <1>2 DEF IdleHead, HeadType
<1> QED
  BY <1>1, <1>3, <1>4, <1>5

LEMMA InitTypes ==
  ASSUME Init
  PROVE  QTypes /\ ETypes /\ STypes /\ CTypes /\ HTypes
<1>1. QTypes
  <2>1. fifo \in [Queues -> Seq(Job)] /\ \A i \in Queues : Len(fifo[i]) =< QDepth
    BY ConstantsAssumption DEF Init
  <2>2. head \in [Queues -> HeadType]
    BY NamesOfNone DEF Init
  <2> DEFINE R == [q : Queues, cmd : Job]
  <2>3. req \in Seq(R) /\ Len(req) =< 1
    BY DEF Init
  <2>4. out \in Queues \union {Window} /\ next \in Queues
    BY NamesOfNone DEF Init
  <2> QED
    BY <2>1, <2>2, <2>3, <2>4 DEF QTypes
<1>2. ETypes
  <2>1. win \in [cpt_working : BOOLEAN, h2m_complete : BOOLEAN,
                 hold1 : 0 .. HoldSpan - 1, hold2 : 0 .. HoldSpan - 1]
    BY ConstantsAssumption DEF Init
  <2>2. 0 \in 0 .. AddrSpace /\ 0 \in Nat /\ 0 \in 0 .. 15 /\ 0 \in 0 .. Lat + 1
    BY ConstantsAssumption
  <2>3. c2h \in [state : {"idle", "send", "done"}, valid : BOOLEAN, hold : 0 .. 15,
                 pkt : [id : Ids, off : Nat, len : 0 .. AddrSpace]]
    BY <2>2, NamesOfNone DEF Init, NoPacket
  <2> DEFINE R == [addr : 0 .. AddrSpace - 1, len : 0 .. AddrSpace]
  <2>4. request \in Seq(R) /\ Len(request) =< 1
    BY DEF Init
  <2> QED
    BY <2>1, <2>2, <2>3, <2>4 DEF ETypes, Init
<1>3. STypes
  <2> DEFINE B == 0 .. AddrSpace - 1
  <2>1. reading = <<>> /\ m2hq = <<>> /\ tmp = <<>> /\ slots = <<>>
        /\ cmd_ready \in BOOLEAN /\ data_ready \in BOOLEAN
    BY DEF Init
  <2>2. <<>> \in Seq(B) /\ Len(<<>>) =< 1
    OBVIOUS
  <2>3. <<>> \in Seq(SlotType) /\ Len(<<>>) =< FifoDepth
    BY ConstantsAssumption
  <2> QED
    BY <2>1, <2>2, <2>3 DEF STypes
<1>4. CTypes
  <2>1. cpt \in UnitType
    BY NamesOfNone DEF Init, UnitReset, UnitType
  <2>2. h2d \in [last : BOOLEAN, complete : BOOLEAN, n : 0 .. MaxH2D]
    BY ConstantsAssumption DEF Init
  <2> QED
    BY <2>1, <2>2 DEF CTypes, Init
<1>5. HTypes
  BY NamesOfNone DEF HTypes, Init
<1> QED
  BY <1>1, <1>2, <1>3, <1>4, <1>5

LEMMA InitKeeps ==
  ASSUME Init
  PROVE  IInv
<1>1. QTypes /\ ETypes /\ STypes /\ CTypes /\ HTypes
  BY InitTypes
<1>2. \A i \in Queues : head[i] = IdleHead /\ fifo[i] = <<>> /\ job[i] = NoJob /\ sent[i] = 0
  BY DEF Init
<1> DEFINE h == IdleHead
<1>3. /\ h.cmd_in_ready /\ ~h.cmd_out_valid /\ ~h.m2h_complete /\ ~h.working
      /\ ~h.last /\ ~h.continue /\ NoJob.len = 0
  BY DEF IdleHead, NoJob
<1> HIDE DEF h
<1>4. AllFlags /\ AllFired
  <2> SUFFICES ASSUME NEW i \in Queues PROVE Flags(i) /\ Fired(i)
    BY DEF AllFlags, AllFired
  <2>1. head[i] = h /\ fifo[i] = <<>> /\ job[i] = NoJob /\ sent[i] = 0
    BY <1>2 DEF h
  <2>2. Flags(i)
    BY <1>3, <2>1, Zenon DEF Flags
  <2>3. Fired(i)
    BY <1>3, <2>1, Zenon DEF Fired
  <2> QED
    BY <2>2, <2>3
<1>5. This = IdleHead
  BY <1>2, NamesOfNone DEF Init, This, Sel
<1>6. Pace /\ InRange
  BY DEF Pace, InRange, Init
<1>7. Stream
  <2>1. Wanted = <<>> /\ OnTheWay = <<>>
    BY DEF Wanted, OnTheWay, Init
  <2>2. Paired(<<>>, <<>>, posted)
    BY DEF Paired
  <2> QED
    BY <2>1, <2>2 DEF Stream, Init
<1>8. UnitStage
  BY DEF UnitStage, UnitIdle, FlagSlot, Init, UnitReset
<1>9. HStage
  BY DEF HStage, H0, WinOff, Init, UnitReset, Window
<1>10. DStage
  BY <1>5 DEF DStage, Drainage, D0, IdleHead, Init, UnitReset
<1>11. Names
  <2>1. PostedNamed /\ ReqNamed
    BY DEF PostedNamed, ReqNamed, Init
  <2>2. \A i \in Queues : FifoNamed(i) /\ JobNamed(i)
    BY <1>2 DEF FifoNamed, JobNamed
  <2> QED
    BY <2>1, <2>2 DEF Names
<1>12. Reports
  <2>1. Reported = {} /\ Distinct
    BY DEF Reported, Distinct, Init
  <2>2. h2d.n = 0 /\ ~h2d.last
    BY DEF Init
  <2> QED
    BY <1>2, <2>1, <2>2 DEF Reports
<1>13. Landed
  <2>1. BufferFilled
    BY DEF BufferFilled, Init
  <2> QED
    BY <1>2, <2>1 DEF Landed, IdleHead
<1> QED
  BY <1>1, <1>4, <1>6, <1>7, <1>8, <1>9, <1>10, <1>11, <1>12, <1>13 DEF IInv

LEMMA PathInvariant ==
  ASSUME Regular
  PROVE  Spec => []IInv
<1>1. Init => IInv
  BY InitKeeps
<1>2. IInv /\ [Next]_vars => IInv'
  BY NextKeeps
<1> QED
  BY <1>1, <1>2, PTL DEF Spec

LEMMA AlignedSequences ==
  ASSUME NEW p, NEW way, NEW want, Paired(way, want, p)
  PROVE  way = [k \in 1 .. Len(want) |-> p[want[k].id.n].m2h + want[k].off]
<1>1. /\ way \in Seq(0 .. AddrSpace - 1) /\ Len(way) = Len(want) /\ Len(way) \in Nat
      /\ \A k \in 1 .. Len(want) : way[k] = Source(want[k], p)
  BY DEF Paired
<1>2. way = [k \in 1 .. Len(way) |-> way[k]]
  BY <1>1
<1>3. \A k \in 1 .. Len(want) : way[k] = p[want[k].id.n].m2h + want[k].off
  BY <1>1, Zenon DEF Source
<1> QED
  BY <1>1, <1>2, <1>3, Zenon

(* The data of every command are read, cut, paired with their host          *)
(* addresses and in its buffer when its completion is told (d2hcmdqueue,     *)
(* d2hcmdqueuehead, C2H and M2H).                                            *)
THEOREM DataIsRight ==
  ASSUME Regular
  PROVE  Spec => []DataRight
<1>1. ASSUME IInv PROVE DataRight
  <2>1. TypeOK
    <3>1. QTypes /\ ETypes /\ STypes /\ CTypes /\ HTypes
      BY <1>1 DEF IInv
    <3>2. cpt.cpt_addr \in Ids /\ cpt.h2c_cpt_addr \in Ids /\ cpt.c2h_cpt_addr \in Ids
      BY <3>1 DEF CTypes, UnitType
    <3> QED
      BY <3>1, <3>2, Zenon DEF TypeOK, QTypes, ETypes, STypes, HTypes
  <2>2. WaitingHeadSelected
    BY <1>1, Zenon DEF IInv, AllFlags, Flags, WaitingHeadSelected
  <2>3. LengthMoved
    BY <1>1, LengthRight DEF IInv
  <2>4. StreamAligned
    BY <1>1, AlignedSequences DEF IInv, Stream, StreamAligned
  <2>5. BufferFilled
    BY <1>1 DEF IInv, Landed
  <2> QED
    BY <2>1, <2>2, <2>3, <2>4, <2>5 DEF DataRight
<1>2. IInv => DataRight
  BY <1>1
<1> QED
  BY <1>2, PathInvariant, PTL

(* While the completion unit offers its beat no data beat is on its way, it  *)
(* works for one path at a time, no flag is written twice, and no command is *)
(* followed before its flag has been written (C2H_Complete and its wiring).  *)
THEOREM CompletionsAreRight ==
  ASSUME Regular
  PROVE  Spec => []CompletionsRight
<1>1. ASSUME IInv PROVE CompletionsRight
  <2>1. Staged /\ Reports
    BY <1>1 DEF IInv, Staged
  <2>2. UnitStage /\ HStage /\ DStage
    BY <1>1 DEF IInv
  <2>3. CompletionAlone
    <3>1. ~(cpt.h2c_started /\ cpt.c2h_started)
      BY <2>1, OneGoes
    <3>2. ASSUME cpt.data_valid PROVE Quiet /\ \A k \in 1 .. Len(slots) : slots[k].off = Flag
      <4>1. Quiet /\ (Asking \/ Placing)
        BY <2>2, <3>2, Zenon DEF UnitStage, UnitIdle, UnitBusy, Placed
      <4>2. slots = <<>> \/ slots = <<FlagOf>>
        BY <4>1 DEF Asking, Placing, FlagOf
      <4>3. \A k \in 1 .. Len(slots) : slots[k].off = Flag
        BY <4>2 DEF FlagOf
      <4> QED
        BY <4>1, <4>3
    <3> QED
      BY <3>1, <3>2, Zenon DEF CompletionAlone, Quiet
  <2>4. FlagsWritten
    <3>1. ~h2d.last => HTold
      BY <2>2, HToldIs
    <3>2. \A i \in Queues : ~head[i].working => ToldAt(i)
      BY DEF ToldAt
    <3> QED
      BY <2>1, <3>1, <3>2, Zenon DEF Reports, Distinct, FlagsWritten
  <2> QED
    BY <2>3, <2>4 DEF CompletionsRight
<1>2. IInv => CompletionsRight
  BY <1>1
<1> QED
  BY <1>2, PathInvariant, PTL
=============================================================================
