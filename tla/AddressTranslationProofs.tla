---------------------- MODULE AddressTranslationProofs ----------------------
(* Theorems about AddressTranslation, for every page, table, queue and piece *)
(* size: how commands are cut, how pieces find their frames, and how the     *)
(* beats of the stream find their pieces.                                    *)
EXTENDS AddressTranslation, SequenceTheorems, TLAPS

TransSpec == TransInit /\ [][TransNext]_transVars

-----------------------------------------------------------------------------
(* Offsets in a page. *)

LEMMA PageDivMod ==
  ASSUME NEW a \in Int
  PROVE  /\ a \div Page \in Int /\ a % Page \in 0 .. Page - 1
         /\ a = Page * (a \div Page) + (a % Page)
BY TranslationAssumption

LEMMA PageQuotient ==
  ASSUME NEW a \in Int, NEW q \in Int, Page * q =< a, a < Page * q + Page
  PROVE  a % Page = a - Page * q
<1> DEFINE p == a \div Page
           r == a % Page
<1>1. p \in Int /\ r \in 0 .. Page - 1 /\ a = Page * p + r /\ Page \in Nat \ {0}
  BY PageDivMod, TranslationAssumption
<1> HIDE DEF p, r
<1>2. Page * p \in Int /\ Page * q \in Int
  BY <1>1
<1>3. ASSUME NEW m \in Int, NEW n \in Int, m < n PROVE Page * m + Page =< Page * n
  <2>1. n - m - 1 \in Nat
    BY <1>3
  <2>2. Page * (n - m - 1) >= 0
    BY <2>1, <1>1
  <2>3. Page * (n - m - 1) = Page * n - Page * m - Page
    BY <1>1
  <2> QED
    BY <2>2, <2>3, <1>1
<1>4. ~(p < q)
  <2> SUFFICES ASSUME p < q PROVE FALSE
    OBVIOUS
  <2>1. Page * p + Page =< Page * q
    BY <1>1, <1>3
  <2> QED
    BY <2>1, <1>1, <1>2
<1>5. ~(q < p)
  <2> SUFFICES ASSUME q < p PROVE FALSE
    OBVIOUS
  <2>1. Page * q + Page =< Page * p
    BY <1>1, <1>3
  <2> QED
    BY <2>1, <1>1, <1>2
<1>6. p = q
  BY <1>1, <1>4, <1>5
<1> QED
  BY <1>1, <1>2, <1>6 DEF r

(* n beats further: in the same page, or at the start of the next. *)
LEMMA Further ==
  ASSUME NEW a \in Nat, NEW n \in Nat, (a % Page) + n =< Page
  PROVE  (a + n) % Page = IF (a % Page) + n = Page THEN 0 ELSE (a % Page) + n
<1> DEFINE q == a \div Page
           r == a % Page
<1>1. q \in Int /\ r \in 0 .. Page - 1 /\ a = Page * q + r /\ Page \in Nat \ {0}
  BY PageDivMod, TranslationAssumption
<1>2. r + n =< Page
  OBVIOUS
<1> HIDE DEF q, r
<1>3. Page * q \in Int /\ Page * (q + 1) = Page * q + Page /\ q + 1 \in Int
  BY <1>1
<1>4. CASE r + n = Page
  <2>1. a + n = Page * (q + 1)
    BY <1>1, <1>3, <1>4
  <2>2. Page * (q + 1) =< a + n /\ a + n < Page * (q + 1) + Page /\ (a + n) - Page * (q + 1) = 0
    BY <2>1, <1>1, <1>3
  <2>3. (a + n) % Page = 0
    BY <2>2, <1>3, PageQuotient
  <2> QED
    BY <2>3, <1>4 DEF r
<1>5. CASE r + n # Page
  <2>1. Page * q =< a + n /\ a + n < Page * q + Page /\ (a + n) - Page * q = r + n
    BY <1>1, <1>2, <1>3, <1>5
  <2>2. (a + n) % Page = r + n
    BY <2>1, <1>1, PageQuotient
  <2> QED
    BY <2>2, <1>5 DEF r
<1> QED
  BY <1>4, <1>5

-----------------------------------------------------------------------------
(* The cutter. *)

States == {"idle", "firstcmd", "split", "minisplit", "lastsplit"}

CutterType == [state : States, addr : Nat, len : Nat, offset : Nat, rest : Nat,
               maddr : Nat, mlen : Nat]

(* What the registers say, in each state, of a command c of which the first  *)
(* sent beats have left: all of it is in addr and len; nothing but the       *)
(* pieces after a page's end; or, between the pieces of one page, the part   *)
(* in that page in maddr and mlen.                                           *)
Begun(s, c, sent) ==
  /\ s.addr = c.addr /\ s.len = c.len /\ sent = 0
  /\ s.offset = c.addr % Page /\ s.rest = Page - (c.addr % Page)

AtPage(s, c, sent) ==
  /\ s.addr = c.addr + sent /\ s.len > 0 /\ sent + s.len = c.len /\ s.addr % Page = 0

InPage(s, c, sent) ==
  /\ s.maddr = c.addr + sent /\ s.mlen > 0 /\ (s.maddr % Page) + s.mlen = Page
  /\ s.addr = s.maddr + s.mlen /\ s.len > 0 /\ sent + s.mlen + s.len = c.len

InLastPage(s, c, sent) ==
  /\ s.maddr = c.addr + sent /\ s.mlen > 0 /\ (s.maddr % Page) + s.mlen =< Page
  /\ sent + s.mlen = c.len

Tells(s, c, sent) ==
  /\ s.state = "firstcmd"  => Begun(s, c, sent)
  /\ s.state = "split"     => AtPage(s, c, sent)
  /\ s.state = "minisplit" => InPage(s, c, sent)
  /\ s.state = "lastsplit" => InLastPage(s, c, sent)
  /\ s.state = "idle"      => sent = c.len

CutterInv(d) ==
  /\ cutter[d] \in CutterType /\ log.sent[d] \in Nat
  /\ log.cmd[d] \in Cmds \union {NoCmd}
  /\ log.cmd[d] = NoCmd => cutter[d].state = "idle"
  /\ log.cmd[d] # NoCmd => Tells(cutter[d], log.cmd[d], log.sent[d])

LEMMA CmdFields ==
  ASSUME NEW c \in Cmds
  PROVE  c.addr \in Nat /\ c.len \in Nat \ {0} /\ c # NoCmd
BY TranslationAssumption

LEMMA CutTells ==
  ASSUME NEW s \in CutterType, NEW n \in Nat, NEW c \in Cmds, NEW sent \in Nat,
         s.addr = c.addr + sent, sent + s.len = c.len, n > 0, n < s.len,
         (s.addr % Page) + n = Page
  PROVE  Cut(s, n) \in CutterType /\ Tells(Cut(s, n), c, sent)
<1> DEFINE addr == s.addr + n
           len  == s.len - n
<1>1. s.addr \in Nat /\ s.len \in Nat /\ c.addr \in Nat
  BY CmdFields DEF CutterType
<1>2. addr \in Nat /\ len \in Nat /\ len > 0 /\ addr = s.addr + n /\ n + len = s.len
  BY <1>1
<1>3. Cut(s, n) = [s EXCEPT !.state = "minisplit", !.maddr = s.addr, !.mlen = n,
                            !.addr = addr, !.len = len]
  BY DEF Cut
<1> HIDE DEF addr, len
<1>4. /\ Cut(s, n) \in CutterType
      /\ Cut(s, n).state = "minisplit" /\ Cut(s, n).maddr = s.addr /\ Cut(s, n).mlen = n
      /\ Cut(s, n).addr = addr /\ Cut(s, n).len = len
  BY <1>1, <1>2, <1>3 DEF CutterType, States
<1>5. sent + n + len = c.len
  BY <1>1, <1>2
<1> QED
  BY <1>1, <1>2, <1>4, <1>5 DEF Tells, InPage

LEMMA FinalTells ==
  ASSUME NEW s \in CutterType, NEW c \in Cmds, NEW sent \in Nat,
         s.addr = c.addr + sent, sent + s.len = c.len, s.len > 0,
         (s.addr % Page) + s.len =< Page
  PROVE  Final(s) \in CutterType /\ Tells(Final(s), c, sent)
<1>1. /\ Final(s) \in CutterType
      /\ Final(s).state = "lastsplit" /\ Final(s).maddr = s.addr /\ Final(s).mlen = s.len
  BY DEF Final, CutterType, States
<1> QED
  BY <1>1 DEF Tells, InLastPage

(* sFIRSTCMD and sSPLIT *)
LEMMA CutterCuts ==
  ASSUME NEW d \in Dir, CutterInv(d), cutter[d].state \in {"firstcmd", "split"}, NEW cmd, NEW ready
  PROVE  /\ CutterNext(d, cmd, ready) \in CutterType
         /\ Tells(CutterNext(d, cmd, ready), log.cmd[d], log.sent[d])
         /\ log.cmd[d] # NoCmd
<1> DEFINE s == cutter[d]
           c == log.cmd[d]
           sent == log.sent[d]
<1>1. /\ s \in CutterType /\ c \in Cmds /\ c # NoCmd /\ sent \in Nat
      /\ s.state = "firstcmd" => Begun(s, c, sent)
      /\ s.state = "split" => AtPage(s, c, sent)
  BY DEF CutterInv, Tells
<1>2. CutterNext(d, cmd, ready) =
        IF s.state = "firstcmd" THEN First(s)
        ELSE IF s.len > Page THEN Cut(s, Page) ELSE Final(s)
  BY DEF CutterNext
<1> HIDE DEF s, c, sent
<1>3. s.addr \in Nat /\ s.len \in Nat /\ c.addr \in Nat /\ c.len \in Nat \ {0}
  BY <1>1, CmdFields DEF CutterType
<1>4. Page \in Nat \ {0} /\ c.addr % Page \in 0 .. Page - 1
  BY <1>3, TranslationAssumption, PageDivMod
<1>5. CASE s.state = "firstcmd"
  <2>1. /\ s.addr = c.addr + sent /\ sent + s.len = c.len /\ s.len > 0
        /\ s.offset = s.addr % Page /\ s.rest = Page - s.offset /\ s.offset \in 0 .. Page - 1
    BY <1>1, <1>3, <1>4, <1>5 DEF Begun
  <2>2. CASE s.offset + s.len > Page
    <3>1. s.rest \in Nat /\ s.rest > 0 /\ s.rest < s.len /\ s.offset + s.rest = Page
      BY <2>1, <2>2, <1>3, <1>4
    <3>2. First(s) = Cut(s, s.rest)
      BY <2>2 DEF First
    <3> QED
      BY <3>1, <3>2, <2>1, <1>1, <1>2, <1>5, CutTells DEF c, sent
  <2>3. CASE ~(s.offset + s.len > Page)
    <3>1. First(s) = Final(s) /\ s.offset + s.len =< Page
      BY <2>1, <2>3, <1>3, <1>4 DEF First
    <3> QED
      BY <3>1, <2>1, <1>1, <1>2, <1>5, FinalTells DEF c, sent
  <2> QED
    BY <2>2, <2>3
<1>6. CASE s.state = "split"
  <2>1. s.addr = c.addr + sent /\ s.len > 0 /\ sent + s.len = c.len /\ s.addr % Page = 0
    BY <1>1, <1>6 DEF AtPage
  <2>2. CASE s.len > Page
    BY <2>1, <2>2, <1>1, <1>2, <1>4, <1>6, CutTells DEF c, sent
  <2>3. CASE ~(s.len > Page)
    <3>1. (s.addr % Page) + s.len =< Page
      BY <2>1, <2>3, <1>3, <1>4
    <3> QED
      BY <3>1, <2>1, <2>3, <1>1, <1>2, <1>6, FinalTells DEF c, sent
  <2> QED
    BY <2>2, <2>3
<1> QED
  BY <1>5, <1>6 DEF s

(* sMINISPLIT and sLASTSPLIT: a piece leaves. *)
LEMMA PieceIs ==
  ASSUME NEW d \in Dir, CutterInv(d), cutter[d].state \in {"minisplit", "lastsplit"}
  PROVE  /\ cutter[d].maddr \in Nat /\ cutter[d].mlen \in Nat \ {0}
         /\ PieceLen(d) \in 1 .. Mini[d] /\ PieceLen(d) =< cutter[d].mlen
         /\ cutter[d].maddr = log.cmd[d].addr + log.sent[d]
         /\ (cutter[d].maddr % Page) + cutter[d].mlen =< Page
         /\ log.sent[d] + cutter[d].mlen =< log.cmd[d].len
         /\ log.cmd[d] \in Cmds /\ log.cmd[d] # NoCmd
<1> DEFINE s == cutter[d]
           c == log.cmd[d]
           sent == log.sent[d]
<1>1. /\ s \in CutterType /\ c \in Cmds /\ c # NoCmd /\ sent \in Nat
      /\ InPage(s, c, sent) \/ InLastPage(s, c, sent)
  BY DEF CutterInv, Tells
<1>2. s.maddr \in Nat /\ s.mlen \in Nat /\ s.len \in Nat
  BY <1>1 DEF CutterType
<1>3. c.addr \in Nat /\ c.len \in Nat \ {0}
  BY <1>1, CmdFields
<1>4. Mini[d] \in 1 .. Page /\ Page \in Nat
  BY TranslationAssumption
<1>5. PieceLen(d) = IF s.mlen > Mini[d] THEN Mini[d] ELSE s.mlen
  BY DEF PieceLen
<1> HIDE DEF s, c, sent
<1>6. /\ s.maddr = c.addr + sent /\ s.mlen > 0 /\ (s.maddr % Page) + s.mlen =< Page
      /\ sent + s.mlen =< c.len
  <2>1. s.maddr % Page \in Int
    BY <1>2, PageDivMod
  <2>2. CASE InPage(s, c, sent)
    BY <2>1, <2>2, <1>1, <1>2, <1>3, <1>4 DEF InPage
  <2>3. CASE InLastPage(s, c, sent)
    BY <2>1, <2>3, <1>1, <1>2, <1>3, <1>4 DEF InLastPage
  <2> QED
    BY <1>1, <2>2, <2>3
<1>7. PieceLen(d) \in 1 .. Mini[d] /\ PieceLen(d) =< s.mlen
  BY <1>2, <1>4, <1>5, <1>6
<1> QED
  BY <1>1, <1>2, <1>6, <1>7 DEF s, c, sent

LEMMA CutterSends ==
  ASSUME NEW d \in Dir, CutterInv(d), cutter[d].state \in {"minisplit", "lastsplit"}, NEW cmd
  PROVE  /\ CutterNext(d, cmd, TRUE) \in CutterType
         /\ Tells(CutterNext(d, cmd, TRUE), log.cmd[d], log.sent[d] + PieceLen(d))
<1> DEFINE s == cutter[d]
           c == log.cmd[d]
           sent == log.sent[d]
           n == PieceLen(d)
           m == Mini[d]
           maddr == s.maddr + m
           mlen == s.mlen - m
<1>1. /\ s \in CutterType /\ c \in Cmds /\ sent \in Nat
      /\ s.state = "minisplit" => InPage(s, c, sent)
      /\ s.state = "lastsplit" => InLastPage(s, c, sent)
  BY DEF CutterInv, Tells
<1>2. s.maddr \in Nat /\ s.mlen \in Nat \ {0} /\ s.maddr = c.addr + sent /\ (s.maddr % Page) + s.mlen =< Page
  BY PieceIs
<1>3. m \in Nat \ {0} /\ n = (IF s.mlen > m THEN m ELSE s.mlen) /\ c.addr \in Nat /\ c.len \in Nat
      /\ Page \in Nat
  BY <1>1, TranslationAssumption, CmdFields DEF PieceLen
<1>4. CutterNext(d, cmd, TRUE) =
        IF s.mlen > m THEN [s EXCEPT !.maddr = maddr, !.mlen = mlen]
        ELSE [s EXCEPT !.state = IF s.state = "minisplit" THEN "split" ELSE "idle"]
  BY DEF CutterNext
<1>5. /\ maddr = s.maddr + m /\ mlen = s.mlen - m
      /\ s.len \in Nat /\ s.addr \in Nat
  BY <1>1 DEF CutterType
<1> DEFINE t == CutterNext(d, cmd, TRUE)
<1>6. s.maddr % Page \in Nat
  BY <1>2, PageDivMod
<1> HIDE DEF s, c, sent, n, m, maddr, mlen, t
<1>7. CASE s.mlen > m
  <2>1. maddr \in Nat /\ mlen \in Nat /\ mlen > 0 /\ n = m
    BY <1>2, <1>3, <1>5, <1>7
  <2>2. t = [s EXCEPT !.maddr = maddr, !.mlen = mlen]
    BY <1>4, <1>7 DEF t
  <2>3. /\ t \in CutterType /\ t.maddr = maddr /\ t.mlen = mlen
        /\ t.state = s.state /\ t.addr = s.addr /\ t.len = s.len
    BY <2>1, <2>2, <1>1 DEF CutterType
  <2>4. maddr % Page = (s.maddr % Page) + m
    <3> DEFINE x == s.maddr % Page
    <3>1. x \in Nat /\ x + s.mlen =< Page
      BY <1>2, <1>6
    <3>2. s.maddr \in Nat /\ m \in Nat /\ (x + m =< Page =>
            (s.maddr + m) % Page = IF x + m = Page THEN 0 ELSE x + m)
      BY <1>2, <1>3, Further
    <3> HIDE DEF x
    <3>3. x + m < Page
      BY <3>1, <1>2, <1>3, <1>7
    <3>4. (s.maddr + m) % Page = x + m
      BY <3>1, <3>2, <3>3, <1>3
    <3> QED
      BY <3>4, <1>5 DEF x
  <2>5. maddr = c.addr + (sent + n) /\ sent + n \in Nat
    BY <2>1, <1>1, <1>2, <1>3, <1>5
  <2>8. /\ s.mlen = mlen + m /\ s.maddr + s.mlen = maddr + mlen
        /\ (s.maddr % Page) + s.mlen = (maddr % Page) + mlen
        /\ sent + s.mlen = (sent + n) + mlen
    <3> DEFINE x == s.maddr % Page
               y == maddr % Page
    <3>1. x \in Nat /\ y = x + m
      BY <2>4, <1>6
    <3> HIDE DEF x, y
    <3>0. s.mlen \in Nat /\ m \in Nat /\ mlen = s.mlen - m
      BY <1>2, <1>3, <1>5, Zenon
    <3>2. s.mlen = mlen + m
      BY <3>0
    <3>3. s.maddr + s.mlen = maddr + mlen /\ sent + s.mlen = (sent + n) + mlen
      BY <3>2, <2>1, <1>1, <1>2, <1>3, <1>5
    <3>4. x + s.mlen = y + mlen
      BY <3>1, <3>2, <2>1, <1>3
    <3> QED
      BY <3>2, <3>3, <3>4 DEF x, y
  <2>6. CASE s.state = "minisplit"
    <3>1. /\ (s.maddr % Page) + s.mlen = Page /\ s.addr = s.maddr + s.mlen /\ s.len > 0
          /\ sent + s.mlen + s.len = c.len
      BY <1>1, <2>6 DEF InPage
    <3>2. /\ (maddr % Page) + mlen = Page /\ s.addr = maddr + mlen
          /\ (sent + n) + mlen + s.len = c.len
      BY <3>1, <2>8, Zenon
    <3>3. InPage(t, c, sent + n)
      BY <3>1, <3>2, <2>1, <2>3, <2>5 DEF InPage
    <3> QED
      BY <3>3, <2>3, <2>6 DEF Tells, t, c, sent, n
  <2>7. CASE s.state = "lastsplit"
    <3>1. (s.maddr % Page) + s.mlen =< Page /\ sent + s.mlen = c.len
      BY <1>1, <2>7 DEF InLastPage
    <3>2. (maddr % Page) + mlen =< Page /\ (sent + n) + mlen = c.len
      BY <3>1, <2>8, Zenon
    <3>3. InLastPage(t, c, sent + n)
      BY <3>2, <2>1, <2>3, <2>5 DEF InLastPage
    <3> QED
      BY <3>3, <2>3, <2>7 DEF Tells, t, c, sent, n
  <2> QED
    BY <2>6, <2>7 DEF s, t, n, c, sent
<1>8. CASE ~(s.mlen > m)
  <2>1. n = s.mlen
    BY <1>3, <1>8
  <2>2. t = [s EXCEPT !.state = IF s.state = "minisplit" THEN "split" ELSE "idle"]
    BY <1>4, <1>8 DEF t
  <2>3. CASE s.state = "minisplit"
    <3>1. t \in CutterType /\ t.state = "split" /\ t.addr = s.addr /\ t.len = s.len
      BY <2>2, <2>3, <1>1 DEF CutterType, States
    <3>2. /\ (s.maddr % Page) + s.mlen = Page /\ s.addr = s.maddr + s.mlen /\ s.len > 0
          /\ sent + s.mlen + s.len = c.len
      BY <1>1, <2>3 DEF InPage
    <3>3. s.addr = c.addr + (sent + n) /\ (sent + n) + s.len = c.len
      BY <3>2, <2>1, <1>1, <1>2, <1>3, <1>5
    <3>4. s.addr % Page = 0
      BY <3>2, <1>2, Further
    <3>5. AtPage(t, c, sent + n)
      BY <3>1, <3>2, <3>3, <3>4 DEF AtPage
    <3> QED
      BY <3>1, <3>5 DEF Tells, t, c, sent, n
  <2>4. CASE s.state = "lastsplit"
    <3>1. t \in CutterType /\ t.state = "idle"
      BY <2>2, <2>4, <1>1 DEF CutterType, States
    <3>2. sent + n = c.len
      BY <2>1, <2>4, <1>1 DEF InLastPage
    <3> QED
      BY <3>1, <3>2 DEF Tells, t, c, sent, n
  <2> QED
    BY <2>3, <2>4 DEF s, t, n, c, sent
<1> QED
  BY <1>7, <1>8

-----------------------------------------------------------------------------
(* One edge. *)

AnEdge(write, page, cmd, take, room, beat) ==
  /\ write \in Writes /\ page \in Nat
  /\ \A d \in Dir : cmd[d] \in Offers(d)
  /\ Edge(write, page, cmd, take, room, beat)

LEMMA NextIsEdge ==
  ASSUME TransNext, table.base \in Nat
  PROVE  \E write, page, cmd, take, room, beat : AnEdge(write, page, cmd, take, room, beat)
<1>1. PICK write \in Writes : \E page \in IF write.base THEN {0, 1} ELSE {table.base} :
        \E c \in Offers("h2c"), e \in Offers("c2h"), take, room, beat \in BOOLEAN :
          Edge(write, page, [h2c |-> c, c2h |-> e], take, room, beat)
  BY DEF TransNext
<1>2. PICK page \in IF write.base THEN {0, 1} ELSE {table.base} :
        \E c \in Offers("h2c"), e \in Offers("c2h"), take, room, beat \in BOOLEAN :
          Edge(write, page, [h2c |-> c, c2h |-> e], take, room, beat)
  BY <1>1
<1>3. PICK c \in Offers("h2c"), e \in Offers("c2h"), take \in BOOLEAN, room \in BOOLEAN, beat \in BOOLEAN :
        Edge(write, page, [h2c |-> c, c2h |-> e], take, room, beat)
  BY <1>2
<1>4. page \in Nat
  <2>1. page \in {0, 1} \/ page \in {table.base}
    OBVIOUS
  <2> QED
    BY <2>1
<1> DEFINE cmd == [h2c |-> c, c2h |-> e]
<1>5. \A d \in Dir : cmd[d] \in Offers(d)
  BY DEF Dir
<1>6. AnEdge(write, page, cmd, take, room, beat)
  BY <1>3, <1>4, <1>5 DEF AnEdge
<1> QED
  BY <1>6

LEMMA CutterWires ==
  ASSUME NEW write, NEW page, NEW cmd, NEW take, NEW room, NEW beat,
         AnEdge(write, page, cmd, take, room, beat), NEW d \in Dir
  PROVE  /\ cmd[d] # NoCmd => cutter[d].state = "idle" /\ cmd[d] \in Cmds
         /\ cutter'[d] = CutterNext(d, cmd[d], Ready(d))
         /\ log'.cmd[d] = IF cmd[d] # NoCmd THEN cmd[d] ELSE log.cmd[d]
         /\ log'.sent[d] = IF cmd[d] # NoCmd THEN 0
                           ELSE IF Fires(d) THEN log.sent[d] + PieceLen(d) ELSE log.sent[d]
<1>1. cmd[d] \in Offers(d) /\ Edge(write, page, cmd, take, room, beat)
  BY DEF AnEdge
<1>2. cmd[d] # NoCmd => cutter[d].state = "idle" /\ cmd[d] \in Cmds
  BY <1>1 DEF Offers
<1>3. cutter' = [e \in Dir |-> CutterNext(e, cmd[e], [f \in Dir |-> Ready(f)][e])]
  BY <1>1, Zenon DEF Edge
<1>4. /\ log'.cmd = [e \in Dir |-> IF cmd[e] # NoCmd THEN cmd[e] ELSE log.cmd[e]]
      /\ log'.sent = [e \in Dir |-> IF cmd[e] # NoCmd THEN 0
                                    ELSE IF Fires(e) THEN log.sent[e] + PieceLen(e) ELSE log.sent[e]]
  BY <1>1 DEF Edge
<1>5. cutter'[d] = CutterNext(d, cmd[d], Ready(d))
  BY <1>3, Zenon
<1> QED
  BY <1>2, <1>4, <1>5, Zenon

LEMMA CutterStep ==
  ASSUME NEW write, NEW page, NEW cmd, NEW take, NEW room, NEW beat,
         AnEdge(write, page, cmd, take, room, beat), NEW d \in Dir, CutterInv(d)
  PROVE  CutterInv(d)'
<1> DEFINE s == cutter[d]
           t == cutter'[d]
           c == log.cmd[d]
           sent == log.sent[d]
<1>1. /\ cmd[d] # NoCmd => s.state = "idle" /\ cmd[d] \in Cmds
      /\ t = CutterNext(d, cmd[d], Ready(d))
      /\ log'.cmd[d] = IF cmd[d] # NoCmd THEN cmd[d] ELSE c
      /\ log'.sent[d] = IF cmd[d] # NoCmd THEN 0 ELSE IF Fires(d) THEN sent + PieceLen(d) ELSE sent
  BY CutterWires
<1>2. /\ s \in CutterType /\ sent \in Nat /\ c \in Cmds \union {NoCmd}
      /\ c = NoCmd => s.state = "idle"
      /\ c # NoCmd => Tells(s, c, sent)
  BY DEF CutterInv
<1>3. CASE cmd[d] # NoCmd
  <2> DEFINE e == cmd[d]
             o == e.addr % Page
             r == Page - (e.addr % Page)
  <2>1. e \in Cmds /\ e.addr \in Nat /\ e.len \in Nat /\ s.state = "idle"
    BY <1>1, <1>3, CmdFields
  <2>2. o \in Nat /\ r \in Nat
    <3>1. e.addr \in Int /\ Page \in Nat \ {0}
      BY <2>1, TranslationAssumption
    <3> HIDE DEF e
    <3>2. e.addr % Page \in 0 .. Page - 1
      BY <3>1, PageDivMod
    <3> QED
      BY <3>1, <3>2
  <2>3. t = [s EXCEPT !.state = "firstcmd", !.addr = e.addr, !.len = e.len, !.offset = o, !.rest = r]
    BY <1>1, <1>3, <2>1 DEF CutterNext
  <2>4. log'.cmd[d] = e /\ log'.sent[d] = 0 /\ e # NoCmd
    BY <1>1, <1>3
  <2>5. o = e.addr % Page /\ r = Page - (e.addr % Page)
    OBVIOUS
  <2> HIDE DEF e, o, r, s, t
  <2>6. /\ t \in CutterType /\ t.state = "firstcmd" /\ t.addr = e.addr /\ t.len = e.len
        /\ t.offset = o /\ t.rest = r
    BY <2>1, <2>2, <2>3, <1>2 DEF CutterType, States
  <2>7. Tells(t, e, 0)
    BY <2>5, <2>6 DEF Tells, Begun
  <2> QED
    BY <2>1, <2>4, <2>6, <2>7 DEF CutterInv, t
<1>4. CASE cmd[d] = NoCmd /\ s.state = "idle"
  <2>1. t = s /\ log'.cmd[d] = c /\ log'.sent[d] = sent
    BY <1>1, <1>4 DEF CutterNext, Fires
  <2> QED
    BY <2>1 DEF CutterInv
<1>5. CASE s.state \in {"firstcmd", "split"}
  <2>1. log'.cmd[d] = c /\ log'.sent[d] = sent
    BY <1>1, <1>5 DEF Fires
  <2>2. t \in CutterType /\ Tells(t, c, sent) /\ c # NoCmd
    BY <1>1, <1>5, CutterCuts
  <2> QED
    BY <2>1, <2>2, <1>2 DEF CutterInv
<1>6. CASE s.state \in {"minisplit", "lastsplit"} /\ Ready(d)
  <2>1. /\ PieceLen(d) \in Nat /\ c \in Cmds /\ c # NoCmd
    BY <1>6, PieceIs, TranslationAssumption
  <2>2. log'.cmd[d] = c /\ log'.sent[d] = sent + PieceLen(d)
    BY <1>1, <1>6 DEF Fires
  <2>3. CutterNext(d, cmd[d], Ready(d)) = CutterNext(d, cmd[d], TRUE)
    BY <1>6 DEF CutterNext
  <2>4. t \in CutterType /\ Tells(t, c, sent + PieceLen(d))
    BY <1>1, <1>6, <2>3, CutterSends
  <2>5. sent + PieceLen(d) \in Nat
    BY <2>1, <1>2
  <2> QED
    BY <2>1, <2>2, <2>4, <2>5 DEF CutterInv
<1>7. CASE s.state \in {"minisplit", "lastsplit"} /\ ~Ready(d)
  <2>1. t = s /\ log'.cmd[d] = c /\ log'.sent[d] = sent
    BY <1>1, <1>7 DEF CutterNext, Fires
  <2> QED
    BY <2>1 DEF CutterInv
<1> QED
  BY <1>2, <1>3, <1>4, <1>5, <1>6, <1>7 DEF CutterType, States

-----------------------------------------------------------------------------
(* The table and what flows through the pipelines. *)

Stage == Pieces \union {NoCmd}

TableTypes ==
  /\ table.base \in Nat /\ table.listed \in 0 .. Entries /\ table.misses \in Nat
  /\ table.ram \in [0 .. Entries - 1 -> Nat]

HistoryTypes == log.stream \in Nat /\ log.writes \in Nat

PipeTypes ==
  /\ porta[1] \in Nat /\ porta[2] \in Nat
  /\ wrote[1].frame \in Nat /\ wrote[2].frame \in Nat
  /\ \A d \in Dir : pipe[d][1] \in Stage /\ pipe[d][2] \in Stage
  /\ \A d \in Dir : queue[d] \in Seq(Queued)
  /\ pairer \in [cmd : Queued \union {NoCmd}, count : Nat, beats : Nat]

Types == TableTypes /\ HistoryTypes /\ PipeTypes

LEMMA WriteIs ==
  ASSUME TableTypes, HistoryTypes, NEW write \in Writes
  PROVE  /\ write.frame \in Nat /\ write.at \in Int
         /\ write.base \in BOOLEAN
         /\ write.base => write # NoWrite /\ write.at = 0
         /\ write # NoWrite /\ ~write.base =>
              write.at = table.listed /\ table.listed \in 1 .. Entries - 1
         /\ write = NoWrite => write.at = -1
         /\ write # NoWrite => write.at \in 0 .. Entries - 1
<1> USE DEF TableTypes, HistoryTypes
<1>1. Entries \in Nat \ {0}
  BY TranslationAssumption
<1>2. CASE write = NoWrite
  BY <1>2 DEF NoWrite
<1>3. CASE write # NoWrite
  <2>1. PICK b \in IF log.writes = MaxWrites THEN {}
                   ELSE IF table.listed \in 1 .. Entries - 1 THEN BOOLEAN ELSE {TRUE} :
          write = [at |-> WriteIndex(b), frame |-> log.writes + 1, base |-> b]
    BY <1>3 DEF Writes
  <2>2. b \in BOOLEAN /\ (~b => table.listed \in 1 .. Entries - 1)
    BY <2>1
  <2>3. write.at = WriteIndex(b) /\ write.frame = log.writes + 1 /\ write.base = b
    BY <2>1
  <2>4. log.writes + 1 \in Nat
    OBVIOUS
  <2>5. CASE b
    BY <2>3, <2>4, <2>5, <1>1, <1>3 DEF WriteIndex
  <2>6. CASE ~b
    BY <2>2, <2>3, <2>4, <2>6, <1>1, <1>3 DEF WriteIndex
  <2> QED
    BY <2>2, <2>5, <2>6
<1> QED
  BY <1>2, <1>3

LEMMA TableStep ==
  ASSUME NEW write, NEW page, NEW cmd, NEW take, NEW room, NEW beat,
         AnEdge(write, page, cmd, take, room, beat), TableTypes, HistoryTypes
  PROVE  TableTypes'
<1>1. table' = TableNext(write, page) /\ write \in Writes /\ page \in Nat
  BY DEF AnEdge, Edge
<1>2. /\ write.frame \in Nat /\ write.base \in BOOLEAN
      /\ write.base => write # NoWrite
      /\ write # NoWrite /\ ~write.base => table.listed \in 1 .. Entries - 1
      /\ write # NoWrite => write.at \in 0 .. Entries - 1
  BY <1>1, WriteIs
<1>3. /\ table'.base = (IF write.base THEN page ELSE table.base)
      /\ table'.listed = (IF write.base THEN 1 ELSE IF write # NoWrite THEN table.listed + 1 ELSE table.listed)
      /\ table'.ram = (IF write # NoWrite THEN [table.ram EXCEPT ![write.at % Entries] = write.frame] ELSE table.ram)
      /\ table'.misses = Misses(write)
  BY <1>1, Zenon DEF TableNext
<1>4. Entries \in Nat \ {0}
  BY TranslationAssumption
<1>5. table'.base \in Nat
  BY <1>1, <1>3 DEF TableTypes
<1>6. table'.listed \in 0 .. Entries
  <2> DEFINE n == table.listed
  <2>1. n \in 0 .. Entries
    BY DEF TableTypes
  <2>2. \/ table'.listed = 1
        \/ table'.listed = n + 1 /\ n \in 1 .. Entries - 1
        \/ table'.listed = n
    BY <1>2, <1>3, Zenon
  <2> HIDE DEF n
  <2> QED
    BY <2>1, <2>2, <1>4
<1>7. table'.ram \in [0 .. Entries - 1 -> Nat]
  BY <1>2, <1>3, <1>4 DEF TableTypes
<1>8. table'.misses \in Nat
  BY <1>3 DEF TableTypes, Misses
<1> QED
  BY <1>5, <1>6, <1>7, <1>8 DEF TableTypes

LEMMA IndexIs ==
  ASSUME TableTypes, NEW d \in Dir, CutterInv(d)
  PROVE  /\ Index(d) \in Int /\ Index(d) % Entries \in 0 .. Entries - 1
         /\ RamAt(Index(d)) \in Nat
         /\ ~OutOfRange(d) => Index(d) % Entries = Index(d) /\ Index(d) \in 0 .. table.listed - 1
<1> DEFINE p == PageOf(d)
           i == Index(d)
<1>1. Entries \in Nat \ {0}
  BY TranslationAssumption
<1>2. p \in Int
  <2>1. cutter[d].maddr \in Int
    BY DEF CutterInv, CutterType
  <2> QED
    BY <2>1, PageDivMod DEF PageOf
<1>3. i = p - table.base /\ table.base \in Nat /\ table.listed \in 0 .. Entries
  BY DEF Index, TableTypes
<1>4. OutOfRange(d) <=> p < table.base \/ p >= table.base + table.listed
  BY DEF OutOfRange
<1> HIDE DEF p, i
<1>5. i \in Int /\ i % Entries \in 0 .. Entries - 1
  BY <1>1, <1>2, <1>3
<1>6. ~OutOfRange(d) => i \in 0 .. table.listed - 1
  BY <1>2, <1>3, <1>4
<1>7. ~OutOfRange(d) => i % Entries = i
  BY <1>1, <1>3, <1>6
<1>8. RamAt(i) \in Nat
  BY <1>5 DEF RamAt, TableTypes
<1> QED
  BY <1>5, <1>6, <1>7, <1>8 DEF i

(* A lookup. *)
LEMMA LookupIs ==
  ASSUME TableTypes, HistoryTypes, NEW d \in Dir, CutterInv(d), Fires(d), NEW write \in Writes
  PROVE  /\ Piece(d, write) \in Pieces
         /\ Piece(d, write).len = PieceLen(d) /\ Piece(d, write).at = log.stream
         /\ Piece(d, write).miss = OutOfRange(d)
         /\ Piece(d, write).read = RamAt(Index(d))
         /\ Piece(d, write).index = Index(d) % Entries
         /\ Piece(d, write).near = IF d = "h2c" THEN write # NoWrite ELSE write.base
<1> DEFINE addr == cutter[d].maddr % Page
           len == PieceLen(d)
           index == Index(d) % Entries
           miss == OutOfRange(d)
           read == RamAt(Index(d))
           near == IF d = "h2c" THEN write # NoWrite ELSE write.base
<1>1. Piece(d, write) = [addr |-> addr, len |-> len, index |-> index, miss |-> miss,
                         at |-> log.stream, read |-> read, near |-> near]
  BY DEF Piece
<1>2. addr \in Nat
  <2>1. cutter[d].maddr \in Int
    BY DEF CutterInv, CutterType
  <2> QED
    BY <2>1, PageDivMod
<1>3. len \in Nat \ {0}
  <2>1. len \in 1 .. Mini[d] /\ Mini[d] \in Nat
    BY PieceIs, TranslationAssumption DEF Fires
  <2> QED
    BY <2>1
<1>4. index \in Nat /\ read \in Nat
  <2>1. index \in 0 .. Entries - 1
    BY IndexIs
  <2> QED
    BY <2>1, IndexIs
<1>5. miss \in BOOLEAN
  BY DEF OutOfRange
<1>6. near \in BOOLEAN
  BY WriteIs
<1>7. log.stream \in Nat
  BY DEF HistoryTypes
<1> HIDE DEF addr, len, index, miss, read, near
<1>8. Piece(d, write) \in Pieces
  BY <1>1, <1>2, <1>3, <1>4, <1>5, <1>6, <1>7 DEF Pieces
<1>9. /\ Piece(d, write).len = len /\ Piece(d, write).at = log.stream
      /\ Piece(d, write).miss = miss /\ Piece(d, write).read = read
      /\ Piece(d, write).index = index /\ Piece(d, write).near = near
  BY <1>1, <1>5, <1>6
<1> QED
  BY <1>8, <1>9 DEF len, miss, read, index, near

(* A piece one edge later: a base write marks a device-to-host one. *)
Marked(d, write) ==
  IF d = "c2h" /\ write.base /\ pipe[d][1] # NoCmd
  THEN [pipe[d][1] EXCEPT !.near = TRUE] ELSE pipe[d][1]

LEMMA MarkedIs ==
  ASSUME NEW d \in Dir, NEW write, pipe[d][1] \in Stage
  PROVE  /\ Marked(d, write) \in Stage
         /\ Marked(d, write) = NoCmd <=> pipe[d][1] = NoCmd
         /\ pipe[d][1] # NoCmd =>
              /\ Marked(d, write).len = pipe[d][1].len /\ Marked(d, write).at = pipe[d][1].at
              /\ Marked(d, write).miss = pipe[d][1].miss
              /\ Marked(d, write).read = pipe[d][1].read
              /\ Marked(d, write).index = pipe[d][1].index
              /\ ~Marked(d, write).near => ~pipe[d][1].near /\ ~(d = "c2h" /\ write.base)
<1> DEFINE p == pipe[d][1]
           m == [p EXCEPT !.near = TRUE]
<1>1. CASE d = "c2h" /\ write.base /\ p # NoCmd
  <2>1. p \in Pieces
    BY <1>1 DEF Stage
  <2>2. m \in Pieces /\ m.len = p.len /\ m.at = p.at /\ m.miss = p.miss /\ m.read = p.read
        /\ m.index = p.index /\ m.near = TRUE
    <3> HIDE DEF p
    <3> QED
      BY <2>1 DEF Pieces
  <2>3. m # NoCmd
    BY <2>2, NoCmdAssumption
  <2>4. Marked(d, write) = m
    BY <1>1 DEF Marked
  <2> HIDE DEF m
  <2> QED
    BY <1>1, <2>2, <2>3, <2>4 DEF Stage
<1>2. CASE ~(d = "c2h" /\ write.base /\ p # NoCmd)
  <2>1. Marked(d, write) = p
    BY <1>2, Zenon DEF Marked
  <2> QED
    BY <1>2, <2>1
<1> QED
  BY <1>1, <1>2

LEMMA PipeWires ==
  ASSUME NEW write, NEW page, NEW cmd, NEW take, NEW room, NEW beat,
         AnEdge(write, page, cmd, take, room, beat), NEW d \in Dir
  PROVE  /\ pipe'[d][1] = IF Fires(d) THEN Piece(d, write) ELSE NoCmd
         /\ pipe'[d][2] = Marked(d, write)
         /\ queue'["c2h"] = Enqueue("c2h", TakesPiece(room))
         /\ \E deq : (deq => queue[d] # <<>>) /\ queue'[d] = Enqueue(d, deq)
         /\ wrote'[1] = write /\ wrote'[2] = wrote[1]
         /\ porta'[1] = IF write # NoWrite THEN porta[1] ELSE RamAt(Index("h2c"))
         /\ porta'[2] = porta[1]
<1> DEFINE deq == [h2c |-> take /\ queue["h2c"] # <<>>, c2h |-> TakesPiece(room)]
<1>1. Edge(write, page, cmd, take, room, beat)
  BY DEF AnEdge
<1>2. pipe' = [e \in Dir |-> <<IF Fires(e) THEN Piece(e, write) ELSE NoCmd, Marked(e, write)>>]
  BY <1>1, Zenon DEF Edge, Marked
<1>3. queue' = [e \in Dir |-> Enqueue(e, deq[e])]
  BY <1>1, Zenon DEF Edge
<1>4. wrote' = <<write, wrote[1]>> /\ porta' = PortA(write)
  BY <1>1, Zenon DEF Edge
<1>5. wrote'[1] = write /\ wrote'[2] = wrote[1]
  BY <1>4
<1>6. /\ porta'[1] = (IF write # NoWrite THEN porta[1] ELSE RamAt(Index("h2c")))
      /\ porta'[2] = porta[1]
  BY <1>4 DEF PortA
<1>7. queue'[d] = Enqueue(d, deq[d]) /\ queue'["c2h"] = Enqueue("c2h", deq["c2h"])
  BY <1>3, Zenon DEF Dir
<1>8. deq["c2h"] = TakesPiece(room) /\ deq["h2c"] = (take /\ queue["h2c"] # <<>>)
  BY DEF TakesPiece
<1>9. deq[d] => queue[d] # <<>>
  BY <1>8 DEF Dir, TakesPiece
<1> HIDE DEF deq
<1>10. pipe'[d] = <<IF Fires(d) THEN Piece(d, write) ELSE NoCmd, Marked(d, write)>>
  BY <1>2, Zenon
<1>11. /\ pipe'[d][1] = (IF Fires(d) THEN Piece(d, write) ELSE NoCmd)
       /\ pipe'[d][2] = Marked(d, write)
  BY <1>10
<1>12. \E b : (b => queue[d] # <<>>) /\ queue'[d] = Enqueue(d, b)
  BY <1>7, <1>9, Zenon
<1>13. queue'["c2h"] = Enqueue("c2h", TakesPiece(room))
  BY <1>7, <1>8, Zenon
<1> QED
  BY <1>5, <1>6, <1>11, <1>12, <1>13

(* What stays of a queue when the QDMA, or the pairer, may have taken one. *)
Left(d, deq) == IF deq THEN Tail(queue[d]) ELSE queue[d]

Full(d) == Len(queue[d]) = QDepth

FrameOf(d) == IF d = "h2c" THEN porta[2] ELSE PortB(pipe[d][2])

LEMMA EnqueueIs ==
  ASSUME PipeTypes, NEW d \in Dir, NEW deq, deq => queue[d] # <<>>
  PROVE  /\ Left(d, deq) \in Seq(Queued)
         /\ pipe[d][2] = NoCmd \/ pipe[d][2].miss \/ Full(d) => Enqueue(d, deq) = Left(d, deq)
         /\ ~(pipe[d][2] = NoCmd \/ pipe[d][2].miss \/ Full(d)) =>
              \E e \in Queued :
                /\ Enqueue(d, deq) = Append(Left(d, deq), e)
                /\ e.len = pipe[d][2].len /\ e.at = pipe[d][2].at /\ e.want = pipe[d][2].read
                /\ e.near = pipe[d][2].near /\ e.frame = FrameOf(d)
<1> DEFINE p == pipe[d][2]
<1>1. Left(d, deq) \in Seq(Queued)
  <2>1. queue[d] \in Seq(Queued)
    BY DEF PipeTypes
  <2>2. deq => Tail(queue[d]) \in Seq(Queued)
    BY <2>1
  <2> QED
    BY <2>1, <2>2, Zenon DEF Left
<1>2. p = NoCmd \/ p.miss \/ Full(d) => Enqueue(d, deq) = Left(d, deq)
  BY DEF Enqueue, Left, Full
<1>3. ASSUME ~(p = NoCmd \/ p.miss \/ Full(d))
      PROVE  \E e \in Queued :
               /\ Enqueue(d, deq) = Append(Left(d, deq), e)
               /\ e.len = p.len /\ e.at = p.at /\ e.want = p.read
               /\ e.near = p.near /\ e.frame = FrameOf(d)
  <2> DEFINE f == FrameOf(d)
             e == [addr |-> p.addr, len |-> p.len, at |-> p.at, want |-> p.read, near |-> p.near,
                   frame |-> f]
  <2>1. p \in Pieces
    BY <1>3 DEF PipeTypes, Stage
  <2>2. f \in Nat
    BY <2>1 DEF FrameOf, PortB, PipeTypes, Pieces
  <2>3. Enqueue(d, deq) = Append(Left(d, deq), e)
    BY <1>3, Zenon DEF Enqueue, Left, Full, FrameOf
  <2> HIDE DEF p, f
  <2>4. e \in Queued
    BY <2>1, <2>2 DEF Pieces, Queued
  <2>5. e.len = p.len /\ e.at = p.at /\ e.want = p.read /\ e.near = p.near /\ e.frame = f
    BY <2>1 DEF Pieces
  <2> HIDE DEF e
  <2> QED
    BY <2>3, <2>4, <2>5 DEF f
<1> QED
  BY <1>1, <1>2, <1>3

LEMMA LogWires ==
  ASSUME NEW write, NEW page, NEW cmd, NEW take, NEW room, NEW beat,
         AnEdge(write, page, cmd, take, room, beat)
  PROVE  /\ log'.stream = IF Fires("c2h") THEN log.stream + PieceLen("c2h") ELSE log.stream
         /\ log'.writes = IF write # NoWrite THEN log.writes + 1 ELSE log.writes
         /\ log'.missed = (log.missed \/ "c2h" \in Missed)
         /\ log'.forgotten = (log.forgotten \/ (write.base /\ log.missed))
         /\ log'.lost = (log.lost \/ \E d \in Dir : pipe[d][2] # NoCmd /\ ~pipe[d][2].miss /\ Full(d))
<1> DEFINE given == [d \in Dir |-> IF cmd[d] # NoCmd THEN log.given[d] + 1 ELSE log.given[d]]
           last == [d \in Dir |-> IF cmd[d] # NoCmd THEN cmd[d] ELSE log.cmd[d]]
           sent == [d \in Dir |-> IF cmd[d] # NoCmd THEN 0
                                  ELSE IF Fires(d) THEN log.sent[d] + PieceLen(d) ELSE log.sent[d]]
           stream == IF Fires("c2h") THEN log.stream + PieceLen("c2h") ELSE log.stream
           writes == IF write # NoWrite THEN log.writes + 1 ELSE log.writes
           missed == log.missed \/ "c2h" \in Missed
           forgotten == log.forgotten \/ (write.base /\ log.missed)
           lost == log.lost \/ \E d \in Dir : pipe[d][2] # NoCmd /\ ~pipe[d][2].miss /\ Full(d)
<1>1. log' = [given |-> given, cmd |-> last, sent |-> sent, stream |-> stream, writes |-> writes,
              missed |-> missed, forgotten |-> forgotten, lost |-> lost]
  BY Zenon DEF AnEdge, Edge, Full
<1>2. missed \in BOOLEAN /\ forgotten \in BOOLEAN /\ lost \in BOOLEAN
  OBVIOUS
<1> HIDE DEF given, last, sent, stream, writes, missed, forgotten, lost
<1>3. log'.stream = stream /\ log'.writes = writes
  BY <1>1
<1>4. log'.missed = missed /\ log'.forgotten = forgotten /\ log'.lost = lost
  BY <1>1, <1>2
<1> QED
  BY <1>3, <1>4 DEF stream, writes, missed, forgotten, lost

LEMMA HistoryStep ==
  ASSUME NEW write, NEW page, NEW cmd, NEW take, NEW room, NEW beat,
         AnEdge(write, page, cmd, take, room, beat), HistoryTypes, CutterInv("c2h")
  PROVE  HistoryTypes'
<1>1. /\ log'.stream = (IF Fires("c2h") THEN log.stream + PieceLen("c2h") ELSE log.stream)
      /\ log'.writes = (IF write # NoWrite THEN log.writes + 1 ELSE log.writes)
  BY LogWires
<1>2. Fires("c2h") => PieceLen("c2h") \in Nat
  <2> SUFFICES ASSUME Fires("c2h") PROVE PieceLen("c2h") \in Nat
    OBVIOUS
  <2>1. PieceLen("c2h") \in 1 .. Mini["c2h"] /\ Mini["c2h"] \in Nat
    BY PieceIs, TranslationAssumption DEF Fires, Dir
  <2> QED
    BY <2>1
<1> QED
  BY <1>1, <1>2 DEF HistoryTypes

(* DataBoundarySplit. *)
LEMMA PairerIs ==
  ASSUME NEW write, NEW page, NEW cmd, NEW take, NEW room, NEW beat,
         AnEdge(write, page, cmd, take, room, beat), PipeTypes
  PROVE  /\ TakesPiece(room) =>
              /\ pairer.cmd = NoCmd /\ queue["c2h"] # <<>>
              /\ pairer'.cmd = Head(queue["c2h"]) /\ pairer'.cmd \in Queued
              /\ pairer'.count = pairer.count /\ pairer'.beats = pairer.beats
         /\ ~TakesPiece(room) =>
              \/ pairer' = pairer
              \/ /\ pairer.cmd \in Queued /\ pairer.cmd # NoCmd
                 /\ pairer'.beats = pairer.beats + 1
                 /\ IF pairer.count + 1 >= pairer.cmd.len
                    THEN pairer'.cmd = NoCmd /\ pairer'.count = 0
                    ELSE pairer'.cmd = pairer.cmd /\ pairer'.count = pairer.count + 1
<1>0. pairer \in [cmd : Queued \union {NoCmd}, count : Nat, beats : Nat]
  BY DEF PipeTypes
<1>1. pairer' = PairerNext(room, beat)
  BY DEF AnEdge, Edge
<1>2. CASE TakesPiece(room)
  <2>1. pairer.cmd = NoCmd /\ queue["c2h"] # <<>>
    BY <1>2 DEF TakesPiece
  <2>2. Head(queue["c2h"]) \in Queued
    <3>1. queue["c2h"] \in Seq(Queued)
      BY DEF PipeTypes, Dir
    <3> QED
      BY <3>1, <2>1, HeadTailProperties
  <2>3. pairer' = [pairer EXCEPT !.cmd = Head(queue["c2h"])]
    BY <1>1, <1>2, Zenon DEF PairerNext
  <2>4. pairer'.cmd = Head(queue["c2h"]) /\ pairer'.count = pairer.count /\ pairer'.beats = pairer.beats
    BY <2>3, <1>0
  <2> QED
    BY <1>2, <2>1, <2>2, <2>4
<1>3. CASE ~TakesPiece(room) /\ pairer.cmd # NoCmd /\ beat
  <2>1. pairer.cmd \in Queued
    BY <1>0, <1>3
  <2>2. pairer' = [cmd |-> IF LastBeat THEN NoCmd ELSE pairer.cmd,
                   count |-> IF LastBeat THEN 0 ELSE pairer.count + 1, beats |-> pairer.beats + 1]
    BY <1>1, <1>3, Zenon DEF PairerNext
  <2>3. /\ pairer'.cmd = (IF LastBeat THEN NoCmd ELSE pairer.cmd)
        /\ pairer'.count = (IF LastBeat THEN 0 ELSE pairer.count + 1)
        /\ pairer'.beats = pairer.beats + 1
    BY <2>2
  <2> QED
    BY <1>3, <2>1, <2>3 DEF LastBeat
<1>4. CASE ~TakesPiece(room) /\ ~(pairer.cmd # NoCmd /\ beat)
  <2>1. pairer' = pairer
    BY <1>1, <1>4, Zenon DEF PairerNext
  <2> QED
    BY <2>1, <1>4
<1> QED
  BY <1>2, <1>3, <1>4

LEMMA PairerTypes ==
  ASSUME NEW write, NEW page, NEW cmd, NEW take, NEW room, NEW beat,
         AnEdge(write, page, cmd, take, room, beat), PipeTypes
  PROVE  pairer' \in [cmd : Queued \union {NoCmd}, count : Nat, beats : Nat]
<1> DEFINE head == Head(queue["c2h"])
           more == pairer.count + 1
           beats == pairer.beats + 1
<1>1. pairer \in [cmd : Queued \union {NoCmd}, count : Nat, beats : Nat]
  BY DEF PipeTypes
<1>2. more \in Nat /\ beats \in Nat
  BY <1>1
<1>3. TakesPiece(room) => head \in Queued
  BY PairerIs
<1>4. pairer' = (IF TakesPiece(room) THEN [pairer EXCEPT !.cmd = head]
                 ELSE IF pairer.cmd # NoCmd /\ beat
                 THEN [cmd |-> IF LastBeat THEN NoCmd ELSE pairer.cmd,
                       count |-> IF LastBeat THEN 0 ELSE more, beats |-> beats]
                 ELSE pairer)
  BY Zenon DEF AnEdge, Edge, PairerNext
<1> HIDE DEF head, more, beats
<1>5. CASE TakesPiece(room)
  BY <1>1, <1>3, <1>4, <1>5
<1>6. CASE ~TakesPiece(room) /\ pairer.cmd # NoCmd /\ beat
  <2> DEFINE c == IF LastBeat THEN NoCmd ELSE pairer.cmd
             n == IF LastBeat THEN 0 ELSE more
  <2>1. pairer' = [cmd |-> c, count |-> n, beats |-> beats]
    BY <1>4, <1>6, Zenon
  <2>2. c \in Queued \union {NoCmd} /\ n \in Nat
    BY <1>1, <1>2
  <2> HIDE DEF c, n
  <2> QED
    BY <2>1, <2>2, <1>2
<1>7. CASE ~TakesPiece(room) /\ ~(pairer.cmd # NoCmd /\ beat)
  BY <1>1, <1>4, <1>7, Zenon
<1> QED
  BY <1>5, <1>6, <1>7

LEMMA QueueStep ==
  ASSUME NEW write, NEW page, NEW cmd, NEW take, NEW room, NEW beat,
         AnEdge(write, page, cmd, take, room, beat), PipeTypes, NEW d \in Dir
  PROVE  queue'[d] \in Seq(Queued)
<1>1. PICK deq : (deq => queue[d] # <<>>) /\ queue'[d] = Enqueue(d, deq)
  BY PipeWires, Zenon
<1> DEFINE left == Left(d, deq)
<1>2. /\ left \in Seq(Queued)
      /\ Enqueue(d, deq) = left \/ \E e \in Queued : Enqueue(d, deq) = Append(left, e)
  BY <1>1, EnqueueIs, Zenon
<1> HIDE DEF left
<1>3. ASSUME NEW e \in Queued PROVE Append(left, e) \in Seq(Queued)
  BY <1>2
<1> QED
  BY <1>1, <1>2, <1>3, Zenon

LEMMA PipeStep ==
  ASSUME NEW write, NEW page, NEW cmd, NEW take, NEW room, NEW beat,
         AnEdge(write, page, cmd, take, room, beat), Types, \A d \in Dir : CutterInv(d)
  PROVE  PipeTypes'
<1>1. TableTypes /\ HistoryTypes /\ PipeTypes /\ write \in Writes
  BY DEF Types, AnEdge
<1>2. porta'[1] \in Nat /\ porta'[2] \in Nat /\ wrote'[1].frame \in Nat /\ wrote'[2].frame \in Nat
  <2>1. /\ wrote'[1] = write /\ wrote'[2] = wrote[1]
        /\ porta'[1] = (IF write # NoWrite THEN porta[1] ELSE RamAt(Index("h2c")))
        /\ porta'[2] = porta[1]
    BY PipeWires DEF Dir
  <2>2. RamAt(Index("h2c")) \in Nat
    BY <1>1, IndexIs DEF Dir
  <2>3. write.frame \in Nat
    BY <1>1, WriteIs
  <2> QED
    BY <1>1, <2>1, <2>2, <2>3 DEF PipeTypes
<1>3. ASSUME NEW d \in Dir PROVE pipe'[d][1] \in Stage /\ pipe'[d][2] \in Stage
  <2>1. /\ pipe'[d][1] = (IF Fires(d) THEN Piece(d, write) ELSE NoCmd)
        /\ pipe'[d][2] = Marked(d, write)
    BY PipeWires
  <2>2. Fires(d) => Piece(d, write) \in Pieces
    BY <1>1, LookupIs
  <2>3. Marked(d, write) \in Stage
    <3>1. pipe[d][1] \in Stage
      BY <1>1 DEF PipeTypes
    <3> QED
      BY <3>1, MarkedIs
  <2> QED
    BY <2>1, <2>2, <2>3 DEF Stage
<1>4. ASSUME NEW d \in Dir PROVE queue'[d] \in Seq(Queued)
  BY <1>1, QueueStep
<1>5. pairer' \in [cmd : Queued \union {NoCmd}, count : Nat, beats : Nat]
  BY <1>1, PairerTypes
<1> QED
  BY <1>2, <1>3, <1>4, <1>5 DEF PipeTypes, Stage

-----------------------------------------------------------------------------
(* The pieces on their way always find room. *)

Taken(p) == IF p = NoCmd THEN 0 ELSE 1

RoomInv ==
  /\ ~log.lost
  /\ \A d \in Dir : Len(queue[d]) + Taken(pipe[d][1]) + Taken(pipe[d][2]) =< QDepth

LEMMA RoomStep ==
  ASSUME NEW write, NEW page, NEW cmd, NEW take, NEW room, NEW beat,
         AnEdge(write, page, cmd, take, room, beat), Types, \A d \in Dir : CutterInv(d), RoomInv
  PROVE  RoomInv'
<1>1. QDepth \in Nat /\ QDepth > 2
  BY TranslationAssumption
<1>2. PipeTypes /\ HistoryTypes /\ TableTypes /\ write \in Writes
  BY DEF Types, AnEdge
<1>3. ASSUME NEW d \in Dir
      PROVE  /\ Len(queue[d]) \in Nat
             /\ pipe[d][2] # NoCmd => ~Full(d)
             /\ Len(queue'[d]) + Taken(pipe'[d][1]) + Taken(pipe'[d][2]) =< QDepth
  <2> DEFINE n == Len(queue[d])
             k == Len(queue'[d])
             a == Taken(pipe[d][1])
             b == Taken(pipe[d][2])
             f == Taken(pipe'[d][1])
             g == Taken(pipe'[d][2])
  <2>1. n \in Nat /\ a \in {0, 1} /\ b \in {0, 1} /\ f \in {0, 1} /\ g \in {0, 1}
    <3>1. queue[d] \in Seq(Queued)
      BY <1>2 DEF PipeTypes
    <3> QED
      BY <3>1, LenProperties DEF Taken
  <2>2. n + a + b =< QDepth
    BY DEF RoomInv
  <2>3. g = a
    <3>1. pipe[d][1] \in Stage /\ pipe'[d][2] = Marked(d, write)
      BY <1>2, PipeWires DEF PipeTypes
    <3>2. Marked(d, write) = NoCmd <=> pipe[d][1] = NoCmd
      BY <3>1, MarkedIs
    <3> QED
      BY <3>1, <3>2 DEF Taken
  <2>4. f = 1 => n < QDepth - 2
    <3>1. f = 1 => Fires(d)
      BY PipeWires DEF Taken
    <3> QED
      BY <3>1 DEF Fires, Ready
  <2>5. k \in Nat /\ k =< n + b
    <3>1. PICK deq : (deq => queue[d] # <<>>) /\ queue'[d] = Enqueue(d, deq)
      BY PipeWires, Zenon
    <3> DEFINE left == Left(d, deq)
    <3>2. left \in Seq(Queued)
      BY <1>2, <3>1, EnqueueIs, Zenon
    <3>3. Len(left) \in Nat /\ Len(left) =< n
      <4>1. queue[d] \in Seq(Queued)
        BY <1>2 DEF PipeTypes
      <4>2. deq => Len(Tail(queue[d])) = Len(queue[d]) - 1
        BY <4>1, <3>1, HeadTailProperties
      <4> QED
        BY <4>1, <4>2, <3>2, LenProperties DEF Left
    <3>4. CASE b = 0
      <4>1. pipe[d][2] = NoCmd
        BY <3>4 DEF Taken
      <4>2. queue'[d] = left
        BY <4>1, <3>1, <1>2, EnqueueIs
      <4> HIDE DEF left
      <4> QED
        BY <4>2, <3>3, <3>4, <2>1
    <3>5. CASE b = 1
      <4>1. queue'[d] = left \/ \E e \in Queued : queue'[d] = Append(left, e)
        BY <3>1, <1>2, EnqueueIs, Zenon
      <4> HIDE DEF left
      <4>2. \A e \in Queued : Len(Append(left, e)) = Len(left) + 1
        BY <3>2
      <4>3. Len(queue'[d]) = Len(left) \/ Len(queue'[d]) = Len(left) + 1
        BY <4>1, <4>2
      <4> QED
        BY <4>3, <3>3, <3>5, <2>1
    <3> QED
      BY <3>4, <3>5, <2>1
  <2>6. pipe[d][2] # NoCmd => b = 1
    BY DEF Taken
  <2>7. Full(d) <=> n = QDepth
    BY DEF Full
  <2> HIDE DEF n, k, a, b, f, g
  <2>8. pipe[d][2] # NoCmd => ~Full(d)
    BY <2>1, <2>2, <2>6, <2>7, <1>1
  <2>9. k + f + g =< QDepth
    BY <2>1, <2>2, <2>3, <2>4, <2>5, <1>1
  <2> QED
    BY <2>1, <2>8, <2>9 DEF n, k, f, g
<1>4. ~log'.lost
  <2>1. log'.lost = (log.lost \/ \E d \in Dir : pipe[d][2] # NoCmd /\ ~pipe[d][2].miss /\ Full(d))
    BY LogWires
  <2> QED
    BY <2>1, <1>3 DEF RoomInv
<1> QED
  BY <1>3, <1>4 DEF RoomInv

-----------------------------------------------------------------------------
(* The frame of a piece: port a shows it with the piece, and no write that   *)
(* port b would forward is of the piece's entry.                             *)
ShownByA(i) ==
  LET p == pipe["h2c"][i] IN p # NoCmd /\ ~p.near => porta[i] = p.read

ListedBefore ==
  LET p == pipe["c2h"][1]
  IN  p # NoCmd /\ ~p.miss /\ ~p.near => p.index < table.listed /\ wrote[1].at # p.index

NotForwarded ==
  LET p == pipe["c2h"][2]
  IN  p # NoCmd /\ ~p.miss /\ ~p.near => wrote[1].at # p.index /\ wrote[2].at # p.index

FramesInv == ShownByA(1) /\ ShownByA(2) /\ ListedBefore /\ NotForwarded /\ ListedFrame

(* What is in a queue was in it, or is what was put. *)
LEMMA ElementsKept ==
  ASSUME PipeTypes, NEW d \in Dir, NEW deq, deq => queue[d] # <<>>
  PROVE  \A i \in DOMAIN Left(d, deq) : \E j \in DOMAIN queue[d] : Left(d, deq)[i] = queue[d][j]
<1>1. queue[d] \in Seq(Queued)
  BY DEF PipeTypes
<1>2. CASE deq
  <2>1. /\ Left(d, deq) = Tail(queue[d]) /\ Tail(queue[d]) \in Seq(Queued)
        /\ Len(Tail(queue[d])) = Len(queue[d]) - 1
        /\ \A i \in 1 .. Len(Tail(queue[d])) : Tail(queue[d])[i] = queue[d][i + 1]
    BY <1>1, <1>2, HeadTailProperties DEF Left
  <2> DEFINE q == queue[d]
             t == Tail(q)
  <2>2. DOMAIN q = 1 .. Len(q) /\ DOMAIN t = 1 .. Len(t) /\ Len(q) \in Nat /\ Len(t) = Len(q) - 1
    BY <1>1, <2>1, LenProperties
  <2> SUFFICES ASSUME NEW i \in DOMAIN t PROVE \E j \in DOMAIN q : t[i] = q[j]
    BY <2>1
  <2> HIDE DEF q, t
  <2>3. i \in 1 .. Len(t) /\ i + 1 \in DOMAIN q
    BY <2>2
  <2>4. t[i] = q[i + 1]
    BY <2>1, <2>3 DEF t, q
  <2> QED
    BY <2>3, <2>4
<1>3. CASE ~deq
  <2>1. Left(d, deq) = queue[d]
    BY <1>3 DEF Left
  <2> QED
    BY <2>1
<1> QED
  BY <1>2, <1>3

LEMMA QueuedFrame ==
  ASSUME PipeTypes, FramesInv, NEW d \in Dir, pipe[d][2] # NoCmd, ~pipe[d][2].miss, ~pipe[d][2].near
  PROVE  FrameOf(d) = pipe[d][2].read
<1>1. CASE d = "h2c"
  BY <1>1 DEF FramesInv, ShownByA, FrameOf
<1>2. CASE d = "c2h"
  <2>1. wrote[1].at # pipe["c2h"][2].index /\ wrote[2].at # pipe["c2h"][2].index
    BY <1>2, Zenon DEF FramesInv, NotForwarded
  <2> QED
    BY <1>2, <2>1 DEF FrameOf, PortB
<1> QED
  BY <1>1, <1>2 DEF Dir

LEMMA FramesStep ==
  ASSUME NEW write, NEW page, NEW cmd, NEW take, NEW room, NEW beat,
         AnEdge(write, page, cmd, take, room, beat), Types, \A d \in Dir : CutterInv(d), FramesInv
  PROVE  FramesInv'
<1>1. TableTypes /\ HistoryTypes /\ PipeTypes /\ write \in Writes
  BY DEF Types, AnEdge
<1>2. /\ wrote'[1] = write /\ wrote'[2] = wrote[1]
      /\ porta'[1] = (IF write # NoWrite THEN porta[1] ELSE RamAt(Index("h2c")))
      /\ porta'[2] = porta[1]
  BY PipeWires DEF Dir
<1>3. \A d \in Dir :
        /\ pipe'[d][1] = (IF Fires(d) THEN Piece(d, write) ELSE NoCmd)
        /\ pipe'[d][2] = Marked(d, write)
  BY PipeWires
<1>4. \A d \in Dir :
        /\ Marked(d, write) = NoCmd <=> pipe[d][1] = NoCmd
        /\ pipe[d][1] # NoCmd =>
             /\ Marked(d, write).miss = pipe[d][1].miss
             /\ Marked(d, write).read = pipe[d][1].read
             /\ Marked(d, write).index = pipe[d][1].index
             /\ ~Marked(d, write).near => ~pipe[d][1].near /\ ~(d = "c2h" /\ write.base)
  BY <1>1, MarkedIs DEF PipeTypes
<1>5. "h2c" \in Dir /\ "c2h" \in Dir
  BY DEF Dir
<1>6. ~write.base => write.at = -1 \/ write.at = table.listed
  BY <1>1, WriteIs, Zenon
<1>7. ~write.base => table'.listed \in Nat /\ table'.listed >= table.listed /\ table.listed \in Nat
  <2>1. table' = TableNext(write, page)
    BY DEF AnEdge, Edge
  <2>2. ~write.base => table'.listed = IF write # NoWrite THEN table.listed + 1 ELSE table.listed
    BY <2>1, Zenon DEF TableNext
  <2> QED
    BY <2>2, <1>1 DEF TableTypes
<1>8. ShownByA(1)'
  <2> SUFFICES ASSUME pipe'["h2c"][1] # NoCmd, ~pipe'["h2c"][1].near
               PROVE  porta'[1] = pipe'["h2c"][1].read
    BY DEF ShownByA
  <2>1. Fires("h2c") /\ pipe'["h2c"][1] = Piece("h2c", write)
    BY <1>3, <1>5
  <2>2. /\ Piece("h2c", write).near = (write # NoWrite)
        /\ Piece("h2c", write).read = RamAt(Index("h2c"))
    BY <2>1, <1>1, <1>5, LookupIs
  <2> QED
    BY <2>1, <2>2, <1>2, Zenon
<1>9. ShownByA(2)'
  BY <1>2, <1>3, <1>4, <1>5, Zenon DEF FramesInv, ShownByA
<1>10. ListedBefore'
  <2> SUFFICES ASSUME pipe'["c2h"][1] # NoCmd, ~pipe'["c2h"][1].miss, ~pipe'["c2h"][1].near
               PROVE  /\ pipe'["c2h"][1].index < table'.listed
                      /\ wrote'[1].at # pipe'["c2h"][1].index
    BY DEF ListedBefore
  <2>1. Fires("c2h") /\ pipe'["c2h"][1] = Piece("c2h", write)
    BY <1>3, <1>5
  <2>2. /\ Piece("c2h", write).near = write.base /\ Piece("c2h", write).miss = OutOfRange("c2h")
        /\ Piece("c2h", write).index = Index("c2h") % Entries
    BY <2>1, <1>1, <1>5, LookupIs
  <2>3. ~write.base /\ ~OutOfRange("c2h")
    BY <2>1, <2>2, Zenon
  <2>4. pipe'["c2h"][1].index = Index("c2h") /\ Index("c2h") \in 0 .. table.listed - 1
    BY <2>1, <2>2, <2>3, <1>1, <1>5, IndexIs
  <2> QED
    BY <2>3, <2>4, <1>2, <1>6, <1>7
<1>11. NotForwarded'
  <2> SUFFICES ASSUME pipe'["c2h"][2] # NoCmd, ~pipe'["c2h"][2].miss, ~pipe'["c2h"][2].near
               PROVE  /\ wrote'[1].at # pipe'["c2h"][2].index
                      /\ wrote'[2].at # pipe'["c2h"][2].index
    BY DEF NotForwarded
  <2>1. /\ pipe["c2h"][1] # NoCmd /\ ~pipe["c2h"][1].miss /\ ~pipe["c2h"][1].near /\ ~write.base
        /\ pipe'["c2h"][2].index = pipe["c2h"][1].index
    BY <1>3, <1>4, <1>5, Zenon
  <2>2. pipe["c2h"][1].index < table.listed /\ wrote[1].at # pipe["c2h"][1].index
    BY <2>1, Zenon DEF FramesInv, ListedBefore
  <2>3. pipe["c2h"][1].index \in Nat
    <3>1. pipe["c2h"][1] \in Pieces
      BY <2>1, <1>1, <1>5 DEF PipeTypes, Stage
    <3> QED
      BY <3>1 DEF Pieces
  <2>4. write.at # pipe["c2h"][1].index
    BY <2>1, <2>2, <2>3, <1>6, <1>7
  <2> QED
    BY <2>1, <2>2, <2>4, <1>2
<1>12. ListedFrame'
  <2> SUFFICES ASSUME NEW d \in Dir, NEW i \in DOMAIN queue'[d], ~queue'[d][i].near
               PROVE  queue'[d][i].frame = queue'[d][i].want
    BY DEF ListedFrame
  <2>1. PICK deq : (deq => queue[d] # <<>>) /\ queue'[d] = Enqueue(d, deq)
    BY PipeWires, Zenon
  <2> DEFINE left == Left(d, deq)
             q == queue[d]
  <2>2. left \in Seq(Queued) /\ \A k \in DOMAIN left : \E j \in DOMAIN q : left[k] = q[j]
    <3>1. left \in Seq(Queued)
      BY <1>1, <2>1, EnqueueIs, Zenon
    <3>2. deq => queue[d] # <<>>
      BY <2>1
    <3>3. \A k \in DOMAIN Left(d, deq) : \E j \in DOMAIN queue[d] : Left(d, deq)[k] = queue[d][j]
      BY <3>2, <1>1, ElementsKept
    <3> QED
      BY <3>1, <3>3
  <2>3. \A j \in DOMAIN q : ~q[j].near => q[j].frame = q[j].want
    BY DEF FramesInv, ListedFrame
  <2>4. \A k \in DOMAIN left : ~left[k].near => left[k].frame = left[k].want
    BY <2>2, <2>3
  <2>5. CASE pipe[d][2] = NoCmd \/ pipe[d][2].miss \/ Full(d)
    <3>1. queue'[d] = left
      BY <2>1, <2>5, <1>1, EnqueueIs, Zenon
    <3> QED
      BY <3>1, <2>4, Zenon
  <2>6. CASE ~(pipe[d][2] = NoCmd \/ pipe[d][2].miss \/ Full(d))
    <3>1. PICK e \in Queued :
            /\ queue'[d] = Append(left, e)
            /\ e.want = pipe[d][2].read /\ e.near = pipe[d][2].near /\ e.frame = FrameOf(d)
      BY <2>1, <2>6, <1>1, EnqueueIs, Zenon
    <3>2. ~e.near => e.frame = e.want
      <4>1. ~pipe[d][2].near => FrameOf(d) = pipe[d][2].read
        BY <2>6, <1>1, QueuedFrame
      <4> QED
        BY <4>1, <3>1, Zenon
    <3> HIDE DEF left, q
    <3>3. DOMAIN left = 1 .. Len(left) /\ Len(left) \in Nat
      BY <2>2, LenProperties
    <3>4. DOMAIN Append(left, e) = 1 .. Len(left) + 1
      BY <2>2
    <3>5. CASE i = Len(left) + 1
      <4>1. queue'[d][i] = e
        BY <3>1, <3>5, <2>2
      <4> QED
        BY <4>1, <3>2, Zenon
    <3>6. CASE i # Len(left) + 1
      <4>1. i \in DOMAIN left
        BY <3>1, <3>3, <3>4, <3>6
      <4>2. queue'[d][i] = left[i]
        BY <3>1, <4>1, <3>3, <2>2
      <4> QED
        BY <4>1, <4>2, <2>4, Zenon
    <3> QED
      BY <3>5, <3>6
  <2> QED
    BY <2>5, <2>6
<1> QED
  BY <1>8, <1>9, <1>10, <1>11, <1>12 DEF FramesInv

-----------------------------------------------------------------------------
(* The beats of the pieces, from the pairer back to the cutter, follow one   *)
(* another from the beat at hand to the last beat asked for.                 *)
After(b, p) == IF p = NoCmd THEN b ELSE p.at + p.len

Follows(b, p) == p # NoCmd => p.at = b

EndOf(q, b, i) == IF i = 0 THEN b ELSE q[i].at + q[i].len

Chained(q, b) == \A i \in 1 .. Len(q) : q[i].at = EndOf(q, b, i - 1)

FromQueue  == After(pairer.beats, pairer.cmd)
FromSecond == EndOf(queue["c2h"], FromQueue, Len(queue["c2h"]))
FromFirst  == After(FromSecond, pipe["c2h"][2])

Aligned ==
  /\ Chained(queue["c2h"], FromQueue)
  /\ Follows(FromSecond, pipe["c2h"][2])
  /\ Follows(FromFirst, pipe["c2h"][1])
  /\ log.stream = After(FromFirst, pipe["c2h"][1])
  /\ pairer.cmd # NoCmd => pairer.beats = pairer.cmd.at + pairer.count

NoneMissed == \A i \in {1, 2} : pipe["c2h"][i] # NoCmd => ~pipe["c2h"][i].miss

Counts == IF pairer.cmd = NoCmd THEN pairer.count = 0 ELSE pairer.count < pairer.cmd.len

BeatsInv ==
  /\ Counts
  /\ log.missed /\ ~log.forgotten => table.misses > 0
  /\ ~log.missed => NoneMissed /\ Aligned

LEMMA ChainTail ==
  ASSUME NEW q \in Seq(Queued), q # <<>>, NEW b, Chained(q, b)
  PROVE  /\ Head(q).at = b
         /\ Chained(Tail(q), Head(q).at + Head(q).len)
         /\ EndOf(Tail(q), Head(q).at + Head(q).len, Len(Tail(q))) = EndOf(q, b, Len(q))
<1> DEFINE t == Tail(q)
           c == Head(q).at + Head(q).len
<1>1. /\ t \in Seq(Queued) /\ Len(t) = Len(q) - 1 /\ Len(q) \in Nat \ {0} /\ Len(t) \in Nat
      /\ \A i \in 1 .. Len(t) : t[i] = q[i + 1]
  BY HeadTailProperties, EmptySeq, LenProperties
<1>2. Head(q) = q[1]
  OBVIOUS
<1>3. \A i \in 1 .. Len(q) : q[i].at = EndOf(q, b, i - 1)
  BY DEF Chained
<1>4. q[1].at = b
  <2>1. 1 \in 1 .. Len(q)
    BY <1>1
  <2>2. q[1].at = EndOf(q, b, 1 - 1)
    BY <2>1, <1>3
  <2> QED
    BY <2>2 DEF EndOf
<1>5. c = q[1].at + q[1].len
  BY <1>2
<1> HIDE DEF t, c
<1>6. ASSUME NEW i \in 0 .. Len(t) PROVE EndOf(t, c, i) = EndOf(q, b, i + 1)
  <2>1. i \in Nat /\ i + 1 # 0
    OBVIOUS
  <2>2. CASE i = 0
    <3>1. EndOf(t, c, i) = c
      BY <2>2 DEF EndOf
    <3>2. EndOf(q, b, i + 1) = q[1].at + q[1].len
      BY <2>2 DEF EndOf
    <3> QED
      BY <3>1, <3>2, <1>5
  <2>3. CASE i # 0
    <3>1. t[i] = q[i + 1]
      BY <1>1, <2>3
    <3> QED
      BY <2>1, <2>3, <3>1 DEF EndOf
  <2> QED
    BY <2>2, <2>3
<1>7. Chained(t, c)
  <2> SUFFICES ASSUME NEW i \in 1 .. Len(t) PROVE t[i].at = EndOf(t, c, i - 1)
    BY DEF Chained
  <2>1. t[i] = q[i + 1] /\ i + 1 \in 1 .. Len(q) /\ i - 1 \in 0 .. Len(t)
    BY <1>1
  <2>2. q[i + 1].at = EndOf(q, b, (i + 1) - 1)
    BY <2>1, <1>3
  <2>3. EndOf(t, c, i - 1) = EndOf(q, b, (i - 1) + 1)
    BY <2>1, <1>6
  <2>4. (i + 1) - 1 = i /\ (i - 1) + 1 = i
    BY <1>1
  <2> QED
    BY <2>1, <2>2, <2>3, <2>4
<1>8. EndOf(t, c, Len(t)) = EndOf(q, b, Len(q))
  <2>1. Len(t) \in 0 .. Len(t) /\ Len(t) + 1 = Len(q)
    BY <1>1
  <2>2. EndOf(t, c, Len(t)) = EndOf(q, b, Len(t) + 1)
    BY <2>1, <1>6
  <2> QED
    BY <2>1, <2>2
<1> QED
  BY <1>2, <1>4, <1>7, <1>8 DEF t, c

LEMMA ChainAppend ==
  ASSUME NEW q \in Seq(Queued), NEW e \in Queued, NEW b, Chained(q, b),
         e.at = EndOf(q, b, Len(q))
  PROVE  /\ Chained(Append(q, e), b)
         /\ EndOf(Append(q, e), b, Len(Append(q, e))) = e.at + e.len
<1> DEFINE r == Append(q, e)
           n == Len(q)
<1>1. n \in Nat /\ Len(r) = n + 1 /\ r[n + 1] = e /\ \A i \in 1 .. n : r[i] = q[i]
  BY LenProperties
<1>2. \A i \in 1 .. n : q[i].at = EndOf(q, b, i - 1)
  BY DEF Chained
<1> HIDE DEF r
<1>3. ASSUME NEW i \in 0 .. n PROVE EndOf(r, b, i) = EndOf(q, b, i)
  <2>1. i # 0 => r[i] = q[i]
    BY <1>1
  <2> QED
    BY <2>1 DEF EndOf
<1>4. Chained(r, b)
  <2> SUFFICES ASSUME NEW i \in 1 .. Len(r) PROVE r[i].at = EndOf(r, b, i - 1)
    BY DEF Chained
  <2>1. i - 1 \in 0 .. n
    BY <1>1
  <2>2. EndOf(r, b, i - 1) = EndOf(q, b, i - 1)
    BY <2>1, <1>3
  <2>3. CASE i = n + 1
    <3>1. i - 1 = n /\ r[i] = e
      BY <2>3, <1>1
    <3> QED
      BY <2>2, <3>1
  <2>4. CASE i # n + 1
    <3>1. i \in 1 .. n
      BY <2>4, <1>1
    <3> QED
      BY <3>1, <2>2, <1>1, <1>2
  <2> QED
    BY <2>3, <2>4
<1>5. EndOf(r, b, Len(r)) = e.at + e.len
  <2>1. Len(r) # 0 /\ r[Len(r)] = e
    BY <1>1
  <2> QED
    BY <2>1 DEF EndOf
<1> QED
  BY <1>4, <1>5 DEF r

LEMMA RoomLeft ==
  ASSUME PipeTypes, RoomInv, NEW d \in Dir, pipe[d][2] # NoCmd
  PROVE  ~Full(d)
<1> DEFINE n == Len(queue[d])
           a == Taken(pipe[d][1])
           b == Taken(pipe[d][2])
<1>1. n + a + b =< QDepth
  BY DEF RoomInv
<1>2. a \in {0, 1} /\ b = 1
  BY DEF Taken
<1>3. n \in Nat /\ QDepth \in Nat
  <2>1. queue[d] \in Seq(Queued)
    BY DEF PipeTypes
  <2> QED
    BY <2>1, LenProperties, TranslationAssumption
<1>4. Full(d) <=> n = QDepth
  BY DEF Full
<1> HIDE DEF n, a, b
<1> QED
  BY <1>1, <1>2, <1>3, <1>4

(* The pairer takes a piece, or a beat, or nothing. *)
LEMMA PairerStep ==
  ASSUME NEW write, NEW page, NEW cmd, NEW take, NEW room, NEW beat,
         AnEdge(write, page, cmd, take, room, beat), PipeTypes, Counts
  PROVE  /\ Counts'
         /\ Aligned =>
              LET left == Left("c2h", TakesPiece(room))
              IN  /\ Chained(left, FromQueue')
                  /\ EndOf(left, FromQueue', Len(left)) = FromSecond
                  /\ pairer'.cmd # NoCmd => pairer'.beats = pairer'.cmd.at + pairer'.count
<1> DEFINE left == Left("c2h", TakesPiece(room))
           q == queue["c2h"]
<1>1. /\ pairer.count \in Nat /\ pairer.beats \in Nat /\ q \in Seq(Queued)
  BY DEF PipeTypes, Dir
<1>2. \A c \in Queued : c # NoCmd /\ c.at \in Nat /\ c.len \in Nat \ {0}
  BY NoCmdAssumption DEF Queued
<1>3. CASE TakesPiece(room)
  <2>1. /\ pairer.cmd = NoCmd /\ q # <<>>
        /\ pairer'.cmd = Head(q) /\ Head(q) \in Queued
        /\ pairer'.count = pairer.count /\ pairer'.beats = pairer.beats
    BY <1>3, PairerIs
  <2>2. Head(q) # NoCmd /\ Head(q).at \in Nat /\ Head(q).len \in Nat \ {0} /\ pairer.count = 0
    BY <2>1, <1>2 DEF Counts
  <2>3. Counts'
    <3>1. pairer'.count < pairer'.cmd.len /\ pairer'.cmd # NoCmd
      BY <2>1, <2>2
    <3> QED
      BY <3>1 DEF Counts
  <2>4. ASSUME Aligned
        PROVE  /\ Chained(left, FromQueue')
               /\ EndOf(left, FromQueue', Len(left)) = FromSecond
               /\ pairer'.beats = pairer'.cmd.at + pairer'.count
    <3>1. FromQueue = pairer.beats /\ Chained(q, FromQueue)
      BY <2>1, <2>4 DEF FromQueue, After, Aligned
    <3>2. /\ Head(q).at = FromQueue
          /\ Chained(Tail(q), Head(q).at + Head(q).len)
          /\ EndOf(Tail(q), Head(q).at + Head(q).len, Len(Tail(q))) = EndOf(q, FromQueue, Len(q))
      BY <3>1, <2>1, <1>1, ChainTail
    <3>3. FromQueue' = Head(q).at + Head(q).len
      BY <2>1, <2>2 DEF FromQueue, After
    <3>4. left = Tail(q)
      BY <1>3 DEF Left
    <3>5. FromSecond = EndOf(q, FromQueue, Len(q))
      BY DEF FromSecond
    <3>6. pairer'.beats = pairer'.cmd.at + pairer'.count
      <4>1. pairer'.beats = Head(q).at /\ pairer'.cmd.at = Head(q).at /\ pairer'.count = 0
        BY <2>1, <2>2, <3>1, <3>2
      <4> QED
        BY <4>1, <2>2
    <3> QED
      BY <3>2, <3>3, <3>4, <3>5, <3>6, Zenon
  <2> QED
    BY <2>3, <2>4
<1>4. CASE ~TakesPiece(room)
  <2>1. left = q
    BY <1>4 DEF Left
  <2>2. \/ pairer' = pairer
        \/ /\ pairer.cmd \in Queued /\ pairer.cmd # NoCmd
           /\ pairer'.beats = pairer.beats + 1
           /\ IF pairer.count + 1 >= pairer.cmd.len
              THEN pairer'.cmd = NoCmd /\ pairer'.count = 0
              ELSE pairer'.cmd = pairer.cmd /\ pairer'.count = pairer.count + 1
    BY <1>4, PairerIs
  <2>3. /\ Counts'
        /\ Aligned =>
             /\ FromQueue' = FromQueue
             /\ pairer'.cmd # NoCmd => pairer'.beats = pairer'.cmd.at + pairer'.count
    <3>1. CASE pairer' = pairer
      BY <3>1 DEF Counts, Aligned, FromQueue
    <3>2. CASE /\ pairer.cmd \in Queued /\ pairer.cmd # NoCmd
               /\ pairer'.beats = pairer.beats + 1
               /\ pairer.count + 1 >= pairer.cmd.len
               /\ pairer'.cmd = NoCmd /\ pairer'.count = 0
      <4>1. Counts'
        BY <3>2 DEF Counts
      <4>2. pairer.count < pairer.cmd.len
        BY <3>2 DEF Counts
      <4>3. pairer.cmd.at \in Nat /\ pairer.cmd.len \in Nat
        BY <3>2, <1>2
      <4>4. Aligned => FromQueue' = FromQueue
        <5> SUFFICES ASSUME Aligned PROVE FromQueue' = FromQueue
          OBVIOUS
        <5>1. pairer.beats = pairer.cmd.at + pairer.count
          BY <3>2 DEF Aligned
        <5>2. FromQueue' = pairer.beats + 1 /\ FromQueue = pairer.cmd.at + pairer.cmd.len
          BY <3>2 DEF FromQueue, After
        <5> DEFINE n == pairer.count
                   l == pairer.cmd.len
                   a == pairer.cmd.at
        <5>3. n \in Nat /\ l \in Nat /\ a \in Nat /\ n < l /\ n + 1 >= l
          BY <4>2, <4>3, <3>2, <1>1
        <5>4. FromQueue' = (a + n) + 1 /\ FromQueue = a + l
          BY <5>1, <5>2, Zenon
        <5> HIDE DEF n, l, a
        <5>5. n + 1 = l
          BY <5>3
        <5> QED
          BY <5>3, <5>4, <5>5
      <4> QED
        BY <4>1, <4>4, <3>2
    <3>3. CASE /\ pairer.cmd \in Queued /\ pairer.cmd # NoCmd
               /\ pairer'.beats = pairer.beats + 1
               /\ ~(pairer.count + 1 >= pairer.cmd.len)
               /\ pairer'.cmd = pairer.cmd /\ pairer'.count = pairer.count + 1
      <4>1. pairer.cmd.at \in Nat /\ pairer.cmd.len \in Nat
        BY <3>3, <1>2
      <4>2. Counts'
        <5>1. pairer'.count < pairer'.cmd.len /\ pairer'.cmd # NoCmd
          BY <3>3, <4>1, <1>1
        <5> QED
          BY <5>1 DEF Counts
      <4>3. FromQueue' = FromQueue
        BY <3>3 DEF FromQueue, After
      <4>4. Aligned => pairer'.beats = pairer'.cmd.at + pairer'.count
        <5> SUFFICES ASSUME Aligned PROVE pairer'.beats = pairer'.cmd.at + pairer'.count
          OBVIOUS
        <5>1. pairer.beats = pairer.cmd.at + pairer.count
          BY <3>3 DEF Aligned
        <5> QED
          BY <5>1, <4>1, <3>3, <1>1
      <4> QED
        BY <4>2, <4>3, <4>4
    <3> QED
      BY <2>2, <3>1, <3>2, <3>3
  <2>4. Aligned => Chained(q, FromQueue) /\ FromSecond = EndOf(q, FromQueue, Len(q))
    BY DEF Aligned, FromSecond
  <2> QED
    BY <2>1, <2>3, <2>4
<1> QED
  BY <1>3, <1>4

LEMMA AlignedStep ==
  ASSUME NEW write, NEW page, NEW cmd, NEW take, NEW room, NEW beat,
         AnEdge(write, page, cmd, take, room, beat), Types, \A d \in Dir : CutterInv(d),
         RoomInv, Counts, NoneMissed, Aligned, "c2h" \notin Missed
  PROVE  NoneMissed' /\ Aligned'
<1> DEFINE left == Left("c2h", TakesPiece(room))
           p == pipe["c2h"][1]
           r == pipe["c2h"][2]
<1>1. TableTypes /\ HistoryTypes /\ PipeTypes /\ write \in Writes /\ "c2h" \in Dir
  BY DEF Types, AnEdge, Dir
<1>2. /\ Chained(left, FromQueue')
      /\ EndOf(left, FromQueue', Len(left)) = FromSecond
      /\ pairer'.cmd # NoCmd => pairer'.beats = pairer'.cmd.at + pairer'.count
  BY <1>1, PairerStep
<1>3. TakesPiece(room) => queue["c2h"] # <<>>
  BY DEF TakesPiece
<1>4. queue'["c2h"] = Enqueue("c2h", TakesPiece(room)) /\ left \in Seq(Queued)
  BY <1>1, <1>3, PipeWires, EnqueueIs
<1>5. /\ Chained(queue'["c2h"], FromQueue')
      /\ FromSecond' = FromFirst
  <2>1. FromSecond' = EndOf(queue'["c2h"], FromQueue', Len(queue'["c2h"]))
    BY DEF FromSecond
  <2>2. CASE r = NoCmd
    <3>1. queue'["c2h"] = left
      BY <2>2, <1>1, <1>3, <1>4, EnqueueIs
    <3>2. FromFirst = FromSecond
      BY <2>2 DEF FromFirst, After
    <3> QED
      BY <3>1, <3>2, <2>1, <1>2, Zenon
  <2>3. CASE r # NoCmd
    <3>1. ~r.miss /\ ~Full("c2h")
      BY <2>3, <1>1, RoomLeft DEF NoneMissed
    <3>2. PICK e \in Queued :
            /\ queue'["c2h"] = Append(left, e) /\ e.len = r.len /\ e.at = r.at
      BY <2>3, <3>1, <1>1, <1>3, <1>4, EnqueueIs
    <3>3. r.at = FromSecond /\ FromFirst = r.at + r.len
      BY <2>3 DEF Aligned, Follows, FromFirst, After
    <3> HIDE DEF left, r
    <3>4. e.at = EndOf(left, FromQueue', Len(left))
      BY <3>2, <3>3, <1>2
    <3>5. /\ Chained(Append(left, e), FromQueue')
          /\ EndOf(Append(left, e), FromQueue', Len(Append(left, e))) = e.at + e.len
      BY <3>4, <1>2, <1>4, ChainAppend
    <3> QED
      BY <3>2, <3>3, <3>5, <2>1
  <2> QED
    BY <2>2, <2>3
<1>6. /\ pipe'["c2h"][1] = (IF Fires("c2h") THEN Piece("c2h", write) ELSE NoCmd)
      /\ pipe'["c2h"][2] = Marked("c2h", write)
  BY <1>1, PipeWires
<1>7. p \in Stage
  BY <1>1 DEF PipeTypes
<1>8. /\ pipe'["c2h"][2] = NoCmd <=> p = NoCmd
      /\ p # NoCmd => /\ pipe'["c2h"][2].len = p.len /\ pipe'["c2h"][2].at = p.at
                      /\ pipe'["c2h"][2].miss = p.miss
  BY <1>1, <1>6, <1>7, MarkedIs
<1>9. Follows(FromSecond', pipe'["c2h"][2]) /\ FromFirst' = log.stream
  <2>1. Follows(FromFirst, p) /\ log.stream = After(FromFirst, p)
    BY DEF Aligned
  <2>2. FromFirst' = After(FromSecond', pipe'["c2h"][2])
    BY DEF FromFirst, After
  <2>3. After(FromFirst, pipe'["c2h"][2]) = After(FromFirst, p)
    BY <1>8, Zenon DEF After
  <2>4. Follows(FromFirst, pipe'["c2h"][2])
    BY <2>1, <1>8, Zenon DEF Follows
  <2> QED
    BY <2>1, <2>2, <2>3, <2>4, <1>5, Zenon
<1>10. /\ Follows(FromFirst', pipe'["c2h"][1])
       /\ log'.stream = After(FromFirst', pipe'["c2h"][1])
       /\ pipe'["c2h"][1] # NoCmd => ~pipe'["c2h"][1].miss
  <2>1. log'.stream = IF Fires("c2h") THEN log.stream + PieceLen("c2h") ELSE log.stream
    BY LogWires
  <2>2. CASE Fires("c2h")
    <3>1. /\ Piece("c2h", write) \in Pieces
          /\ Piece("c2h", write).len = PieceLen("c2h") /\ Piece("c2h", write).at = log.stream
          /\ Piece("c2h", write).miss = OutOfRange("c2h")
      BY <2>2, <1>1, LookupIs
    <3>2. ~OutOfRange("c2h")
      BY <2>2, <1>1 DEF Missed
    <3>3. pipe'["c2h"][1] = Piece("c2h", write) /\ Piece("c2h", write) # NoCmd
      BY <3>1, <2>2, <1>6, NoCmdAssumption
    <3> QED
      BY <2>1, <2>2, <3>1, <3>2, <3>3, <1>9, Zenon DEF Follows, After
  <2>3. CASE ~Fires("c2h")
    BY <2>1, <2>3, <1>6, <1>9 DEF Follows, After
  <2> QED
    BY <2>2, <2>3
<1>11. NoneMissed'
  <2>1. p # NoCmd => ~p.miss
    BY DEF NoneMissed
  <2>2. pipe'["c2h"][2] # NoCmd => ~pipe'["c2h"][2].miss
    BY <2>1, <1>8, Zenon
  <2> QED
    BY <2>2, <1>10 DEF NoneMissed
<1>12. Aligned'
  BY <1>2, <1>5, <1>9, <1>10, Zenon DEF Aligned
<1> QED
  BY <1>11, <1>12

LEMMA BeatsStep ==
  ASSUME NEW write, NEW page, NEW cmd, NEW take, NEW room, NEW beat,
         AnEdge(write, page, cmd, take, room, beat), Types, \A d \in Dir : CutterInv(d),
         RoomInv, BeatsInv
  PROVE  BeatsInv'
<1>1. /\ log'.missed = (log.missed \/ "c2h" \in Missed)
      /\ log'.forgotten = (log.forgotten \/ (write.base /\ log.missed))
  BY LogWires
<1>2. Counts'
  <2>1. PipeTypes /\ Counts
    BY DEF Types, BeatsInv
  <2> QED
    BY <2>1, PairerStep
<1>3. ASSUME log'.missed, ~log'.forgotten PROVE table'.misses > 0
  <2>1. table'.misses = Misses(write) /\ table.misses \in Nat
    BY Zenon DEF AnEdge, Edge, TableNext, Types, TableTypes
  <2>2. CASE Missed # {}
    BY <2>1, <2>2 DEF Misses
  <2>3. CASE Missed = {}
    <3>1. log.missed /\ ~log.forgotten /\ ~write.base
      BY <2>3, <1>1, <1>3
    <3> QED
      BY <3>1, <2>1, <2>3 DEF Misses, BeatsInv
  <2> QED
    BY <2>2, <2>3
<1>4. ASSUME ~log'.missed PROVE NoneMissed' /\ Aligned'
  <2>1. ~log.missed /\ "c2h" \notin Missed
    BY <1>1, <1>4
  <2>2. Counts /\ NoneMissed /\ Aligned
    BY <2>1 DEF BeatsInv
  <2> QED
    BY <2>1, <2>2, AlignedStep
<1> QED
  BY <1>2, <1>3, <1>4 DEF BeatsInv

-----------------------------------------------------------------------------
(* The invariant, and the theorems. *)

TransInv ==
  /\ Types /\ (\A d \in Dir : CutterInv(d))
  /\ RoomInv /\ FramesInv /\ BeatsInv

LEMMA TransInitInv ==
  ASSUME TransInit
  PROVE  TransInv
<1>1. Entries \in Nat \ {0} /\ QDepth \in Nat
  BY TranslationAssumption
<1>2. TableTypes /\ HistoryTypes
  BY <1>1 DEF TransInit, TableTypes, HistoryTypes
<1>3. /\ porta = <<0, 0>> /\ wrote = <<NoWrite, NoWrite>>
      /\ \A d \in Dir : pipe[d] = <<NoCmd, NoCmd>> /\ queue[d] = <<>>
      /\ pairer = [cmd |-> NoCmd, count |-> 0, beats |-> 0]
  BY DEF TransInit
<1>4. \A d \in Dir : pipe[d][1] = NoCmd /\ pipe[d][2] = NoCmd
  BY <1>3
<1>5. PipeTypes
  <2>1. wrote[1].frame = 0 /\ wrote[2].frame = 0
    BY <1>3 DEF NoWrite
  <2>2. porta[1] = 0 /\ porta[2] = 0
    BY <1>3
  <2>3. \A d \in Dir : queue[d] \in Seq(Queued)
    BY <1>3, EmptySeq
  <2>4. pairer \in [cmd : Queued \union {NoCmd}, count : Nat, beats : Nat]
    BY <1>3
  <2> QED
    BY <2>1, <2>2, <2>3, <2>4, <1>4 DEF PipeTypes, Stage
<1>6. ASSUME NEW d \in Dir PROVE CutterInv(d)
  <2>1. /\ cutter[d] = [state |-> "idle", addr |-> 0, len |-> 0, offset |-> 0,
                        rest |-> 0, maddr |-> 0, mlen |-> 0]
        /\ log.sent[d] = 0 /\ log.cmd[d] = NoCmd
    BY DEF TransInit
  <2> QED
    BY <2>1 DEF CutterInv, CutterType, States
<1>7. ~log.lost /\ ~log.missed /\ log.stream = 0
  BY DEF TransInit
<1>8. RoomInv
  <2>1. Len(<<>>) = 0
    OBVIOUS
  <2>2. \A d \in Dir : Len(queue[d]) = 0 /\ Taken(pipe[d][1]) = 0 /\ Taken(pipe[d][2]) = 0
    BY <2>1, <1>3, <1>4, Zenon DEF Taken
  <2>3. \A d \in Dir : Len(queue[d]) + Taken(pipe[d][1]) + Taken(pipe[d][2]) =< QDepth
    BY <2>2, <1>1
  <2> QED
    BY <2>3, <1>7 DEF RoomInv
<1>9. FramesInv
  <2>1. "h2c" \in Dir /\ "c2h" \in Dir
    BY DEF Dir
  <2> QED
    BY <2>1, <1>3, <1>4 DEF FramesInv, ShownByA, ListedBefore, NotForwarded, ListedFrame
<1>10. BeatsInv
  <2>1. "c2h" \in Dir
    BY DEF Dir
  <2>2. FromQueue = 0
    BY <1>3 DEF FromQueue, After
  <2>3. FromSecond = 0 /\ FromFirst = 0
    BY <2>1, <2>2, <1>3, <1>4 DEF FromSecond, FromFirst, After, EndOf
  <2>4. Aligned
    BY <2>1, <2>2, <2>3, <1>3, <1>4, <1>7 DEF Aligned, Chained, Follows, After
  <2>5. NoneMissed /\ Counts
    <3>1. pairer.cmd = NoCmd /\ pairer.count = 0
      BY <1>3
    <3>2. \A i \in {1, 2} : pipe["c2h"][i] = NoCmd
      BY <2>1, <1>4
    <3> QED
      BY <3>1, <3>2, Zenon DEF NoneMissed, Counts
  <2> QED
    BY <2>4, <2>5, <1>7 DEF BeatsInv
<1> QED
  BY <1>2, <1>5, <1>6, <1>8, <1>9, <1>10 DEF TransInv, Types

LEMMA TransNextInv ==
  ASSUME TransInv, [TransNext]_transVars
  PROVE  TransInv'
<1>1. CASE TransNext
  <2>1. table.base \in Nat
    BY DEF TransInv, Types, TableTypes
  <2>2. PICK write, page, cmd, take, room, beat : AnEdge(write, page, cmd, take, room, beat)
    BY <1>1, <2>1, NextIsEdge
  <2>3. /\ Types /\ TableTypes /\ HistoryTypes /\ PipeTypes
        /\ \A d \in Dir : CutterInv(d)
        /\ RoomInv /\ FramesInv /\ BeatsInv
    BY DEF TransInv, Types
  <2>4. CutterInv("c2h")
    BY <2>3 DEF Dir
  <2>5. TableTypes'
    BY <2>2, <2>3, TableStep
  <2>6. HistoryTypes'
    BY <2>2, <2>3, <2>4, HistoryStep
  <2>7. PipeTypes'
    BY <2>2, <2>3, PipeStep
  <2>8. \A d \in Dir : CutterInv(d)'
    BY <2>2, <2>3, CutterStep
  <2>9. RoomInv'
    BY <2>2, <2>3, RoomStep
  <2>10. FramesInv'
    BY <2>2, <2>3, FramesStep
  <2>11. BeatsInv'
    BY <2>2, <2>3, BeatsStep
  <2> QED
    BY <2>5, <2>6, <2>7, <2>8, <2>9, <2>10, <2>11 DEF TransInv, Types
<1>2. CASE UNCHANGED transVars
  BY <1>2 DEF transVars, TransInv, Types, TableTypes, HistoryTypes, PipeTypes, CutterInv, RoomInv,
    FramesInv, ShownByA, ListedBefore, NotForwarded, ListedFrame, BeatsInv, Counts, NoneMissed,
    Aligned, FromQueue, FromSecond, FromFirst
<1> QED
  BY <1>1, <1>2

LEMMA InvGivesPieces ==
  ASSUME TransInv
  PROVE  PiecesRight
<1>1. PipeTypes /\ TableTypes /\ RoomInv /\ FramesInv /\ \A d \in Dir : CutterInv(d)
  BY DEF TransInv, Types
<1>2. TransTypeOK
  <2>1. ASSUME NEW d \in Dir
        PROVE  /\ cutter[d].state \in {"idle", "firstcmd", "split", "minisplit", "lastsplit"}
               /\ \A f \in {"addr", "len", "offset", "rest", "maddr", "mlen"} : cutter[d][f] \in Nat
    <3>1. cutter[d] \in CutterType
      BY <1>1 DEF CutterInv
    <3> QED
      BY <3>1 DEF CutterType, States
  <2>2. ASSUME NEW d \in Dir PROVE Len(queue[d]) =< QDepth
    <3>1. Len(queue[d]) + Taken(pipe[d][1]) + Taken(pipe[d][2]) =< QDepth
      BY <1>1 DEF RoomInv
    <3>2. queue[d] \in Seq(Queued)
      BY <1>1 DEF PipeTypes
    <3>3. Taken(pipe[d][1]) \in Nat /\ Taken(pipe[d][2]) \in Nat /\ Len(queue[d]) \in Nat /\ QDepth \in Nat
      BY <3>2, LenProperties, TranslationAssumption DEF Taken
    <3> QED
      BY <3>1, <3>3
  <2> QED
    BY <2>1, <2>2, <1>1 DEF TransTypeOK, TableTypes
<1>3. PiecesTile
  <2> SUFFICES ASSUME NEW d \in Dir
               PROVE  /\ cutter[d].state \in {"minisplit", "lastsplit"} =>
                           /\ cutter[d].maddr = log.cmd[d].addr + log.sent[d]
                           /\ PieceLen(d) \in 1 .. Mini[d]
                           /\ (cutter[d].maddr % Page) + PieceLen(d) =< Page
                           /\ log.sent[d] + PieceLen(d) =< log.cmd[d].len
                      /\ cutter[d].state = "idle" /\ log.cmd[d] # NoCmd => log.sent[d] = log.cmd[d].len
    BY Zenon DEF PiecesTile
  <2>1. CutterInv(d)
    BY <1>1
  <2>2. CASE cutter[d].state \in {"minisplit", "lastsplit"}
    <3> DEFINE x == cutter[d].maddr % Page
               n == PieceLen(d)
               m == cutter[d].mlen
               sent == log.sent[d]
               all == log.cmd[d].len
    <3>1. /\ m \in Nat /\ n \in 1 .. Mini[d] /\ n =< m
          /\ cutter[d].maddr = log.cmd[d].addr + sent
          /\ x + m =< Page /\ sent + m =< all /\ log.cmd[d] \in Cmds
          /\ cutter[d].maddr \in Nat
      BY <2>1, <2>2, PieceIs
    <3>2. sent \in Nat /\ all \in Nat /\ Mini[d] \in Nat /\ Page \in Nat
      BY <3>1, <2>1, CmdFields, TranslationAssumption DEF CutterInv
    <3>3. x \in Nat
      BY <3>1, PageDivMod
    <3>4. cutter[d].state # "idle"
      BY <2>2
    <3> HIDE DEF x, n, m, sent, all
    <3>5. n \in 1 .. Mini[d] /\ x + n =< Page /\ sent + n =< all
      BY <3>1, <3>2, <3>3
    <3> QED
      BY <3>1, <3>4, <3>5 DEF x, n, sent, all
  <2>3. CASE cutter[d].state \notin {"minisplit", "lastsplit"}
    BY <2>1, <2>3 DEF CutterInv, Tells
  <2> QED
    BY <2>2, <2>3
<1> QED
  BY <1>1, <1>2, <1>3 DEF PiecesRight, FramesInv

LEMMA InvGivesBeats ==
  ASSUME TransInv
  PROVE  BeatsRight
<1>1. NothingDropped
  BY DEF TransInv, RoomInv, NothingDropped
<1>2. BeatsPaired
  <2> SUFFICES ASSUME pairer.cmd # NoCmd, table.misses = 0, ~log.forgotten
               PROVE  pairer.beats = pairer.cmd.at + pairer.count
    BY DEF BeatsPaired
  <2>1. BeatsInv
    BY DEF TransInv
  <2>2. ~log.missed
    BY <2>1 DEF BeatsInv
  <2> QED
    BY <2>1, <2>2 DEF BeatsInv, Aligned
<1> QED
  BY <1>1, <1>2 DEF BeatsRight

LEMMA TransInvariant == TransSpec => []TransInv
<1>1. TransInit => TransInv
  BY TransInitInv
<1>2. TransInv /\ [TransNext]_transVars => TransInv'
  BY TransNextInv
<1> QED
  BY <1>1, <1>2, PTL DEF TransSpec

(* For every page, piece and queue size and every command: the pieces of a   *)
(* command cover it without a gap, inside pages, and leave with the frames   *)
(* the table listed (CMDBoundaryCheck and TLB).                              *)
THEOREM PiecesCorrect == TransSpec => []PiecesRight
<1>1. TransInv => PiecesRight
  BY InvGivesPieces
<1> QED
  BY <1>1, TransInvariant, PTL

(* The two places that TLB keeps free in its queues are enough, and each     *)
(* piece gets its own beats until a miss is counted (DataBoundarySplit).     *)
THEOREM BeatsCorrect == TransSpec => []BeatsRight
<1>1. TransInv => BeatsRight
  BY InvGivesBeats
<1> QED
  BY <1>1, TransInvariant, PTL
=============================================================================
