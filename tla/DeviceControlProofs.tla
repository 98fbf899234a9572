------------------------ MODULE DeviceControlProofs -------------------------
(* What keeps the pool of queues, the descriptor queues, the queue data and  *)
(* the function map in step, for any number of functions and queues.         *)
EXTENDS DeviceControl, QueueResourcesProofs, FiniteSetTheorems, TLAPS

(* A function's own tables: p stands for pf[f]. *)
Slot(p, t, i) == Row[t] * p.qmax + i
Here(p, t, i) == p.descq[Slot(p, t, i)].state # "disabled"
Streaming(p, t, i) == Here(p, t, i) /\ p.descq[Slot(p, t, i)].st

(* The indices counted as queues of type t. *)
UsedBy(p, t) ==
  {i \in 0..(p.qmax - 1) : Here(p, t, i) \/ (t = "cmpt" /\ Streaming(p, "c2h", i))}

DescQueue == [state : {"disabled", "enabled", "online"}, st : BOOLEAN, q_type : QType, qidx : Nat]
QData == [qhndl : Nat, xcdev : BOOLEAN]

Fn(qmax, qbase, descq, init_qrange, rngsz, xqmax, qdata, dirs) ==
  [qmax |-> qmax, qbase |-> qbase, descq |-> descq, init_qrange |-> init_qrange, rngsz |-> rngsz,
   xqmax |-> xqmax, qdata |-> qdata, dirs |-> dirs]

FnShape(p) == p = Fn(p.qmax, p.qbase, p.descq, p.init_qrange, p.rngsz, p.xqmax, p.qdata, p.dirs)

FnType(p) ==
  /\ FnShape(p)
  /\ p.qmax \in Nat
  /\ p.qmax = 0 \/ p.xqmax = p.qmax
  /\ p.init_qrange \in BOOLEAN
  /\ p.descq \in [0..(3 * p.qmax - 1) -> DescQueue]
  /\ p.qdata \in [0..(3 * p.qmax - 1) -> QData]

(* A queue lies in the row of its type at its index, and the function map was written before it. *)
FnRows(p) ==
  \A n \in 0..(3 * p.qmax - 1) : p.descq[n].state # "disabled" =>
    /\ p.descq[n].qidx < p.qmax
    /\ n = Slot(p, p.descq[n].q_type, p.descq[n].qidx)
    /\ p.init_qrange

FnRings(p) ==
  \A i \in 0..(p.qmax - 1) :
    /\ Here(p, "cmpt", i) => ~Streaming(p, "h2c", i) /\ ~Streaming(p, "c2h", i)
    /\ Here(p, "h2c", i) /\ Here(p, "c2h", i) => (Streaming(p, "h2c", i) <=> Streaming(p, "c2h", i))

FnHandles(p) ==
  \A t \in QType, i \in 0..(p.qmax - 1) : p.qdata[Slot(p, t, i)] # NoData =>
    p.qdata[Slot(p, t, i)].qhndl = Slot(p, t, i) /\ Here(p, t, i)

FnInv(p) == FnType(p) /\ FnRows(p) /\ FnRings(p) /\ FnHandles(p)

(* Every queue in use, of the functions in O. *)
AllUsed(P, O) == {x \in O \X QType \X Nat : x[3] \in UsedBy(P[x[1]], x[2])}

-----------------------------------------------------------------------------
(* Slots of the tables. *)

LEMMA RowIs ==
  /\ Row["h2c"] = 0 /\ Row["c2h"] = 1 /\ Row["cmpt"] = 2
  /\ "h2c" \in QType /\ "c2h" \in QType /\ "cmpt" \in QType
  /\ \A t \in QType : t = "h2c" \/ t = "c2h" \/ t = "cmpt"
  /\ \A t \in QType : Row[t] \in 0..2
  /\ \A t, u \in QType : Row[t] = Row[u] => t = u
BY DEF Row, QType

LEMMA SlotIn ==
  ASSUME NEW p, p.qmax \in Nat, NEW t \in QType, NEW i \in 0..(p.qmax - 1)
  PROVE  Slot(p, t, i) \in 0..(3 * p.qmax - 1) /\ Slot(p, t, i) \in Nat
<1>1. CASE t = "h2c"
  BY <1>1, RowIs DEF Slot
<1>2. CASE t = "c2h"
  BY <1>2, RowIs DEF Slot
<1>3. CASE t = "cmpt"
  BY <1>3, RowIs DEF Slot
<1> QED
  BY <1>1, <1>2, <1>3, RowIs

LEMMA RowsApart ==
  ASSUME NEW n \in Nat, NEW a \in 0..2, NEW b \in 0..2, NEW i \in 0..(n - 1), NEW j \in 0..(n - 1),
         a * n + i = b * n + j
  PROVE  a = b /\ i = j
<1>1. \A c \in 0..2 : c = 0 \/ c = 1 \/ c = 2
  OBVIOUS
<1>2. 0 * n = 0 /\ 1 * n = n /\ 2 * n = n + n
  OBVIOUS
<1>3. CASE a = 0
  BY <1>1, <1>2, <1>3
<1>4. CASE a = 1
  BY <1>1, <1>2, <1>4
<1>5. CASE a = 2
  BY <1>1, <1>2, <1>5
<1> QED
  BY <1>1, <1>3, <1>4, <1>5

LEMMA SlotsApart ==
  ASSUME NEW p, p.qmax \in Nat, NEW t \in QType, NEW u \in QType,
         NEW i \in 0..(p.qmax - 1), NEW j \in 0..(p.qmax - 1), Slot(p, t, i) = Slot(p, u, j)
  PROVE  t = u /\ i = j
<1>1. Row[t] \in 0..2 /\ Row[u] \in 0..2
  BY RowIs
<1>2. Row[t] * p.qmax + i = Row[u] * p.qmax + j
  BY Zenon DEF Slot
<1>3. Row[t] = Row[u] /\ i = j
  BY <1>1, <1>2, RowsApart
<1> QED
  BY <1>3, RowIs

-----------------------------------------------------------------------------
(* One slot of the table of descriptor queues takes a new value. *)

ChangedRight(p, p2, t, i, v) ==
  /\ p2.descq \in [0..(3 * p2.qmax - 1) -> DescQueue]
  /\ Here(p2, t, i) <=> v.state # "disabled"
  /\ Streaming(p2, t, i) <=> v.state # "disabled" /\ v.st
  /\ \A u \in QType, j \in 0..(p.qmax - 1) : ~(u = t /\ j = i) =>
       (Here(p2, u, j) <=> Here(p, u, j)) /\ (Streaming(p2, u, j) <=> Streaming(p, u, j))
  /\ \A u, j : Slot(p2, u, j) = Slot(p, u, j)

LEMMA Changed ==
  ASSUME NEW p, FnType(p), NEW t \in QType, NEW i \in 0..(p.qmax - 1), NEW v \in DescQueue,
         NEW p2, p2.qmax = p.qmax,
         p2.descq = [n \in 0..(3 * p.qmax - 1) |-> IF n = Slot(p, t, i) THEN v ELSE p.descq[n]]
  PROVE  ChangedRight(p, p2, t, i, v)
<1>1. p.qmax \in Nat /\ p.descq \in [0..(3 * p.qmax - 1) -> DescQueue]
  BY Zenon DEF FnType
<1>2. \A u, j : Slot(p2, u, j) = Slot(p, u, j)
  BY Zenon DEF Slot
<1>3. p2.descq \in [0..(3 * p2.qmax - 1) -> DescQueue]
  BY <1>1, Zenon
<1>4. Slot(p, t, i) \in 0..(3 * p.qmax - 1)
  BY <1>1, SlotIn
<1>5. p2.descq[Slot(p2, t, i)] = v
  BY <1>2, <1>4, Zenon
<1>6. ASSUME NEW u \in QType, NEW j \in 0..(p.qmax - 1), ~(u = t /\ j = i)
      PROVE  p2.descq[Slot(p2, u, j)] = p.descq[Slot(p, u, j)]
  <2>1. Slot(p, u, j) \in 0..(3 * p.qmax - 1)
    BY <1>1, SlotIn
  <2>2. Slot(p, u, j) # Slot(p, t, i)
    BY <1>1, <1>6, SlotsApart
  <2> QED
    BY <1>2, <2>1, <2>2, Zenon
<1>7. Here(p2, t, i) <=> v.state # "disabled"
  BY <1>5, Zenon DEF Here
<1>8. Streaming(p2, t, i) <=> v.state # "disabled" /\ v.st
  BY <1>5, <1>7, Zenon DEF Streaming
<1>9. ASSUME NEW u \in QType, NEW j \in 0..(p.qmax - 1), ~(u = t /\ j = i)
      PROVE  (Here(p2, u, j) <=> Here(p, u, j)) /\ (Streaming(p2, u, j) <=> Streaming(p, u, j))
  BY <1>6, <1>9, Zenon DEF Here, Streaming
<1> QED
  BY <1>2, <1>3, <1>7, <1>8, <1>9, Zenon DEF ChangedRight

(* A queue of type t counts as a queue of type u. *)
CountsAs(u, t, st) == u = t \/ (u = "cmpt" /\ t = "c2h" /\ st)

(* is_usable_queue, in terms of the function's own tables. *)
Usable(p, i, t, st) ==
  /\ ~Here(p, t, i)
  /\ t = "cmpt" => ~Streaming(p, "h2c", i) /\ ~Streaming(p, "c2h", i)
  /\ t # "cmpt" /\ st => ~Here(p, "cmpt", i)
  /\ t = "h2c" /\ Here(p, "c2h", i) => (Streaming(p, "c2h", i) <=> st)
  /\ t = "c2h" /\ Here(p, "h2c", i) => (Streaming(p, "h2c", i) <=> st)

AddedRight(p, p2, t, i, st) ==
  /\ FnInv(p2)
  /\ \A u \in QType :
       /\ CountsAs(u, t, st) => i \notin UsedBy(p, u) /\ UsedBy(p2, u) = UsedBy(p, u) \cup {i}
       /\ ~CountsAs(u, t, st) => UsedBy(p2, u) = UsedBy(p, u)
  /\ p2.qmax = p.qmax /\ p2.qbase = p.qbase /\ p2.rngsz = p.rngsz /\ p2.init_qrange = TRUE

LEMMA AddedQueue ==
  ASSUME NEW t \in QType, NEW st \in BOOLEAN, NEW i \in Nat, NEW v,
         v = [state |-> "enabled", st |-> st, q_type |-> t, qidx |-> i]
  PROVE  /\ v \in DescQueue /\ v.state # "disabled" /\ v.q_type = t /\ v.qidx = i
         /\ v.st = st
BY DEF DescQueue

LEMMA AddedRings ==
  ASSUME NEW p, NEW p2, NEW t \in QType, NEW st \in BOOLEAN, NEW i \in 0..(p.qmax - 1), NEW v,
         p2.qmax = p.qmax, v.state # "disabled", v.st = st, ~(st /\ t = "cmpt"),
         FnRings(p), Usable(p, i, t, st), ChangedRight(p, p2, t, i, v)
  PROVE  FnRings(p2)
<1>1. Here(p2, t, i) /\ (Streaming(p2, t, i) <=> st)
  BY Zenon DEF ChangedRight
<1>2. \A u \in QType, j \in 0..(p.qmax - 1) : ~(u = t /\ j = i) =>
        (Here(p2, u, j) <=> Here(p, u, j)) /\ (Streaming(p2, u, j) <=> Streaming(p, u, j))
  BY Zenon DEF ChangedRight
<1> SUFFICES ASSUME NEW j \in 0..(p.qmax - 1)
             PROVE  /\ Here(p2, "cmpt", j) => ~Streaming(p2, "h2c", j) /\ ~Streaming(p2, "c2h", j)
                    /\ Here(p2, "h2c", j) /\ Here(p2, "c2h", j) =>
                         (Streaming(p2, "h2c", j) <=> Streaming(p2, "c2h", j))
  BY Zenon DEF FnRings
<1>3. /\ Here(p, "cmpt", j) => ~Streaming(p, "h2c", j) /\ ~Streaming(p, "c2h", j)
      /\ Here(p, "h2c", j) /\ Here(p, "c2h", j) => (Streaming(p, "h2c", j) <=> Streaming(p, "c2h", j))
  BY Zenon DEF FnRings
<1>4. \A u \in QType : ~Here(p, u, j) => ~Streaming(p, u, j)
  BY Zenon DEF Streaming
<1>5. CASE j # i
  <2>1. \A u \in QType : (Here(p2, u, j) <=> Here(p, u, j)) /\ (Streaming(p2, u, j) <=> Streaming(p, u, j))
    BY <1>2, <1>5, Zenon
  <2> QED
    BY <1>3, <2>1, RowIs, Zenon
<1>6. CASE j = i
  <2>1. CASE t = "cmpt"
    <3>1. /\ Streaming(p2, "h2c", j) <=> Streaming(p, "h2c", j)
          /\ Streaming(p2, "c2h", j) <=> Streaming(p, "c2h", j)
          /\ Here(p2, "h2c", j) <=> Here(p, "h2c", j)
          /\ Here(p2, "c2h", j) <=> Here(p, "c2h", j)
      BY <1>2, <2>1, RowIs
    <3> QED
      BY <1>3, <1>6, <2>1, <3>1, Zenon DEF Usable
  <2>2. CASE t = "h2c"
    <3>1. /\ Here(p2, "cmpt", j) <=> Here(p, "cmpt", j)
          /\ Streaming(p2, "c2h", j) <=> Streaming(p, "c2h", j)
          /\ Here(p2, "c2h", j) <=> Here(p, "c2h", j)
      BY <1>2, <2>2, RowIs
    <3>2. t # "cmpt"
      BY <2>2
    <3> QED
      BY <1>1, <1>3, <1>6, <2>2, <3>1, <3>2, Zenon DEF Usable
  <2>3. CASE t = "c2h"
    <3>1. /\ Here(p2, "cmpt", j) <=> Here(p, "cmpt", j)
          /\ Streaming(p2, "h2c", j) <=> Streaming(p, "h2c", j)
          /\ Here(p2, "h2c", j) <=> Here(p, "h2c", j)
      BY <1>2, <2>3, RowIs
    <3>2. t # "cmpt"
      BY <2>3
    <3> QED
      BY <1>1, <1>3, <1>6, <2>3, <3>1, <3>2, Zenon DEF Usable
  <2> QED
    BY <2>1, <2>2, <2>3, RowIs
<1> QED
  BY <1>5, <1>6

UsesRight(p, p2, t, i, st) ==
  \A u \in QType :
    /\ CountsAs(u, t, st) => i \notin UsedBy(p, u) /\ UsedBy(p2, u) = UsedBy(p, u) \cup {i}
    /\ ~CountsAs(u, t, st) => UsedBy(p2, u) = UsedBy(p, u)

LEMMA InUsed ==
  ASSUME NEW p
  PROVE  \A u, j : j \in UsedBy(p, u) <=>
           j \in 0..(p.qmax - 1) /\ (Here(p, u, j) \/ (u = "cmpt" /\ Streaming(p, "c2h", j)))
BY Zenon DEF UsedBy

LEMMA OneMore ==
  ASSUME NEW S, NEW T, NEW i, i \in T, \A j : j # i => (j \in T <=> j \in S)
  PROVE  T = S \cup {i}
OBVIOUS

LEMMA AsBefore ==
  ASSUME NEW S, NEW T, NEW i, i \in T <=> i \in S, \A j : j # i => (j \in T <=> j \in S)
  PROVE  T = S
OBVIOUS

LEMMA AddedUses ==
  ASSUME NEW p, NEW p2, NEW t \in QType, NEW st \in BOOLEAN, NEW i \in 0..(p.qmax - 1), NEW v,
         p2.qmax = p.qmax, v.state # "disabled", v.st = st, ~(st /\ t = "cmpt"),
         Usable(p, i, t, st), ChangedRight(p, p2, t, i, v)
  PROVE  UsesRight(p, p2, t, i, st)
<1>1. Here(p2, t, i) /\ (Streaming(p2, t, i) <=> st)
  BY Zenon DEF ChangedRight
<1>2. \A u \in QType, j \in 0..(p.qmax - 1) : ~(u = t /\ j = i) =>
        (Here(p2, u, j) <=> Here(p, u, j)) /\ (Streaming(p2, u, j) <=> Streaming(p, u, j))
  BY Zenon DEF ChangedRight
<1>3. ~Here(p, t, i) /\ ~Streaming(p, t, i)
  BY Zenon DEF Usable, Streaming
<1> SUFFICES ASSUME NEW u \in QType
             PROVE  /\ CountsAs(u, t, st) => i \notin UsedBy(p, u) /\ UsedBy(p2, u) = UsedBy(p, u) \cup {i}
                    /\ ~CountsAs(u, t, st) => UsedBy(p2, u) = UsedBy(p, u)
  BY Zenon DEF UsesRight
<1>4. \A j : j # i => (j \in UsedBy(p2, u) <=> j \in UsedBy(p, u))
  BY <1>2, InUsed, RowIs, Zenon
<1>5. t = "cmpt" => ~Streaming(p, "c2h", i)
  BY Zenon DEF Usable
<1>6. t = "c2h" /\ st => ~Here(p, "cmpt", i) /\ t # "cmpt"
  <2>1. "c2h" # "cmpt"
    OBVIOUS
  <2> QED
    BY <2>1, Zenon DEF Usable
<1>7. ASSUME CountsAs(u, t, st)
      PROVE  i \notin UsedBy(p, u) /\ i \in UsedBy(p2, u)
  <2>1. CASE u = t
    BY <1>1, <1>3, <1>5, <2>1, InUsed, Zenon
  <2>2. CASE u = "cmpt" /\ t = "c2h" /\ st
    BY <1>1, <1>3, <1>6, <2>2, InUsed, Zenon
  <2> QED
    BY <1>7, <2>1, <2>2, Zenon DEF CountsAs
<1>8. ASSUME ~CountsAs(u, t, st)
      PROVE  i \in UsedBy(p2, u) <=> i \in UsedBy(p, u)
  <2>1. u # t /\ ~(u = "cmpt" /\ t = "c2h" /\ st)
    BY <1>8, Zenon DEF CountsAs
  <2>2. Here(p2, u, i) <=> Here(p, u, i)
    BY <1>2, <2>1, Zenon
  <2>3. u = "cmpt" => (Streaming(p2, "c2h", i) <=> Streaming(p, "c2h", i))
    BY <1>1, <1>2, <1>3, <2>1, RowIs, Zenon
  <2> QED
    BY <2>2, <2>3, InUsed, Zenon
<1>9. ASSUME CountsAs(u, t, st)
      PROVE  i \notin UsedBy(p, u) /\ UsedBy(p2, u) = UsedBy(p, u) \cup {i}
  BY <1>4, <1>7, <1>9, OneMore, Zenon
<1>10. ASSUME ~CountsAs(u, t, st)
       PROVE  UsedBy(p2, u) = UsedBy(p, u)
  BY <1>4, <1>8, <1>10, AsBefore
<1> QED
  BY <1>9, <1>10, Zenon

-----------------------------------------------------------------------------
(* Fields of a function's record. *)

LEMMA FnMade ==
  ASSUME NEW a, NEW b, NEW c, NEW d, NEW e, NEW g, NEW h, NEW k, NEW p, p = Fn(a, b, c, d, e, g, h, k)
  PROVE  /\ FnShape(p)
         /\ p.qmax = a /\ p.qbase = b /\ p.descq = c /\ p.init_qrange = d
         /\ p.rngsz = e /\ p.xqmax = g /\ p.qdata = h /\ p.dirs = k
BY DEF Fn, FnShape

DescqSet(p, p2, x) ==
  /\ FnShape(p2) /\ p2.descq = x
  /\ p2.qmax = p.qmax /\ p2.qbase = p.qbase /\ p2.init_qrange = p.init_qrange /\ p2.rngsz = p.rngsz
  /\ p2.xqmax = p.xqmax /\ p2.qdata = p.qdata /\ p2.dirs = p.dirs

LEMMA SetDescq ==
  ASSUME NEW p, FnShape(p), NEW x, NEW p2, p2 = [p EXCEPT !.descq = x]
  PROVE  DescqSet(p, p2, x)
<1> DEFINE a == p.qmax  b == p.qbase  c == p.descq  d == p.init_qrange
           e == p.rngsz  g == p.xqmax  h == p.qdata  k == p.dirs
<1>1. p = Fn(a, b, c, d, e, g, h, k)
  BY Zenon DEF FnShape
<1> HIDE DEF a, b, c, d, e, g, h, k
<1>2. [Fn(a, b, c, d, e, g, h, k) EXCEPT !.descq = x] = Fn(a, b, x, d, e, g, h, k)
  BY DEF Fn
<1>3. p2 = Fn(a, b, x, d, e, g, h, k)
  BY <1>1, <1>2, Zenon
<1> QED
  BY <1>3, FnMade DEF DescqSet, a, b, c, d, e, g, h, k

InitQrangeSet(p, p2, x) ==
  /\ FnShape(p2) /\ p2.init_qrange = x
  /\ p2.qmax = p.qmax /\ p2.qbase = p.qbase /\ p2.descq = p.descq /\ p2.rngsz = p.rngsz
  /\ p2.xqmax = p.xqmax /\ p2.qdata = p.qdata /\ p2.dirs = p.dirs

LEMMA SetInitQrange ==
  ASSUME NEW p, FnShape(p), NEW x, NEW p2, p2 = [p EXCEPT !.init_qrange = x]
  PROVE  InitQrangeSet(p, p2, x)
<1> DEFINE a == p.qmax  b == p.qbase  c == p.descq  d == p.init_qrange
           e == p.rngsz  g == p.xqmax  h == p.qdata  k == p.dirs
<1>1. p = Fn(a, b, c, d, e, g, h, k)
  BY Zenon DEF FnShape
<1> HIDE DEF a, b, c, d, e, g, h, k
<1>2. [Fn(a, b, c, d, e, g, h, k) EXCEPT !.init_qrange = x] = Fn(a, b, c, x, e, g, h, k)
  BY DEF Fn
<1>3. p2 = Fn(a, b, c, x, e, g, h, k)
  BY <1>1, <1>2, Zenon
<1> QED
  BY <1>3, FnMade DEF InitQrangeSet, a, b, c, d, e, g, h, k

RngszSet(p, p2, x) ==
  /\ FnShape(p2) /\ p2.rngsz = x
  /\ p2.qmax = p.qmax /\ p2.qbase = p.qbase /\ p2.descq = p.descq /\ p2.init_qrange = p.init_qrange
  /\ p2.xqmax = p.xqmax /\ p2.qdata = p.qdata /\ p2.dirs = p.dirs

LEMMA SetRngsz ==
  ASSUME NEW p, FnShape(p), NEW x, NEW p2, p2 = [p EXCEPT !.rngsz = x]
  PROVE  RngszSet(p, p2, x)
<1> DEFINE a == p.qmax  b == p.qbase  c == p.descq  d == p.init_qrange
           e == p.rngsz  g == p.xqmax  h == p.qdata  k == p.dirs
<1>1. p = Fn(a, b, c, d, e, g, h, k)
  BY Zenon DEF FnShape
<1> HIDE DEF a, b, c, d, e, g, h, k
<1>2. [Fn(a, b, c, d, e, g, h, k) EXCEPT !.rngsz = x] = Fn(a, b, c, d, x, g, h, k)
  BY DEF Fn
<1>3. p2 = Fn(a, b, c, d, x, g, h, k)
  BY <1>1, <1>2, Zenon
<1> QED
  BY <1>3, FnMade DEF RngszSet, a, b, c, d, e, g, h, k

QdataSet(p, p2, x) ==
  /\ FnShape(p2) /\ p2.qdata = x
  /\ p2.qmax = p.qmax /\ p2.qbase = p.qbase /\ p2.descq = p.descq /\ p2.init_qrange = p.init_qrange
  /\ p2.rngsz = p.rngsz /\ p2.xqmax = p.xqmax /\ p2.dirs = p.dirs

LEMMA SetQdata ==
  ASSUME NEW p, FnShape(p), NEW x, NEW p2, p2 = [p EXCEPT !.qdata = x]
  PROVE  QdataSet(p, p2, x)
<1> DEFINE a == p.qmax  b == p.qbase  c == p.descq  d == p.init_qrange
           e == p.rngsz  g == p.xqmax  h == p.qdata  k == p.dirs
<1>1. p = Fn(a, b, c, d, e, g, h, k)
  BY Zenon DEF FnShape
<1> HIDE DEF a, b, c, d, e, g, h, k
<1>2. [Fn(a, b, c, d, e, g, h, k) EXCEPT !.qdata = x] = Fn(a, b, c, d, e, g, x, k)
  BY DEF Fn
<1>3. p2 = Fn(a, b, c, d, e, g, x, k)
  BY <1>1, <1>2, Zenon
<1> QED
  BY <1>3, FnMade DEF QdataSet, a, b, c, d, e, g, h, k

DirsSet(p, p2, x) ==
  /\ FnShape(p2) /\ p2.dirs = x
  /\ p2.qmax = p.qmax /\ p2.qbase = p.qbase /\ p2.descq = p.descq /\ p2.init_qrange = p.init_qrange
  /\ p2.rngsz = p.rngsz /\ p2.xqmax = p.xqmax /\ p2.qdata = p.qdata

LEMMA SetDirs ==
  ASSUME NEW p, FnShape(p), NEW x, NEW p2, p2 = [p EXCEPT !.dirs = x]
  PROVE  DirsSet(p, p2, x)
<1> DEFINE a == p.qmax  b == p.qbase  c == p.descq  d == p.init_qrange
           e == p.rngsz  g == p.xqmax  h == p.qdata  k == p.dirs
<1>1. p = Fn(a, b, c, d, e, g, h, k)
  BY Zenon DEF FnShape
<1> HIDE DEF a, b, c, d, e, g, h, k
<1>2. [Fn(a, b, c, d, e, g, h, k) EXCEPT !.dirs = x] = Fn(a, b, c, d, e, g, h, x)
  BY DEF Fn
<1>3. p2 = Fn(a, b, c, d, e, g, h, x)
  BY <1>1, <1>2, Zenon
<1> QED
  BY <1>3, FnMade DEF DirsSet, a, b, c, d, e, g, h, k

LEMMA Staged ==
  ASSUME NEW p, NEW x, NEW y, NEW n, NEW i
  PROVE  /\ [p EXCEPT !.init_qrange = x, !.descq = y] = [[p EXCEPT !.init_qrange = x] EXCEPT !.descq = y]
         /\ [p EXCEPT !.qdata[n] = x] = [p EXCEPT !.qdata = [p.qdata EXCEPT ![n] = x]]
         /\ [p EXCEPT !.qdata[n].qhndl = x] =
              [p EXCEPT !.qdata = [p.qdata EXCEPT ![n] = [p.qdata[n] EXCEPT !.qhndl = x]]]
         /\ [p EXCEPT !.dirs[i] = y] = [p EXCEPT !.dirs = [p.dirs EXCEPT ![i] = y]]
BY Zenon

LEMMA StagedPair ==
  ASSUME NEW p, NEW x, NEW t, NEW n, NEW i
  PROVE  [p EXCEPT !.qdata[n] = x, !.dirs[i] = @ \cup {t}] =
         [[p EXCEPT !.qdata[n] = x] EXCEPT !.dirs[i] = @ \cup {t}]
BY Zenon

LEMMA Datum ==
  ASSUME NEW d \in QData, NEW n \in Nat
  PROVE  /\ [d EXCEPT !.qhndl = n] \in QData /\ [d EXCEPT !.qhndl = n].qhndl = n
         /\ [qhndl |-> n, xcdev |-> TRUE] \in QData /\ [qhndl |-> n, xcdev |-> TRUE].qhndl = n
BY DEF QData

SameBut(p, p2) ==
  p2.qmax = p.qmax /\ p2.qbase = p.qbase /\ p2.rngsz = p.rngsz /\ p2.xqmax = p.xqmax

InitialisedRight(p, now, b, x) ==
  /\ FnShape(now) /\ SameBut(p, now) /\ now.descq = x /\ now.init_qrange = b
  /\ now.qdata = p.qdata /\ now.dirs = p.dirs

LEMMA Initialised ==
  ASSUME NEW p, FnShape(p), NEW b, NEW x, NEW now, now = [p EXCEPT !.init_qrange = b, !.descq = x]
  PROVE  InitialisedRight(p, now, b, x)
<1>1. now = [[p EXCEPT !.init_qrange = b] EXCEPT !.descq = x]
  BY Staged, Zenon
<1>2. PICK p1 : p1 = [p EXCEPT !.init_qrange = b]
  OBVIOUS
<1>3. now = [p1 EXCEPT !.descq = x]
  BY <1>1, <1>2, Zenon
<1>4. InitQrangeSet(p, p1, b)
  BY <1>2, SetInitQrange, Zenon
<1>5. FnShape(p1)
  BY <1>4, Zenon DEF InitQrangeSet
<1>6. DescqSet(p1, now, x)
  BY <1>3, <1>5, SetDescq, Zenon
<1> QED
  BY <1>4, <1>6, Zenon DEF InitQrangeSet, DescqSet, SameBut, InitialisedRight

WithData(now, p2, qdata) ==
  /\ FnShape(p2) /\ SameBut(now, p2) /\ p2.descq = now.descq /\ p2.init_qrange = now.init_qrange
  /\ p2.qdata = qdata

LEMMA DataSet ==
  ASSUME NEW now, FnShape(now), NEW x, NEW p2, p2 = [now EXCEPT !.qdata = x]
  PROVE  WithData(now, p2, x)
<1>1. QdataSet(now, p2, x)
  BY SetQdata, Zenon
<1> QED
  BY <1>1, Zenon DEF QdataSet, WithData, SameBut

LEMMA DirSet ==
  ASSUME NEW now, NEW x, NEW p1, WithData(now, p1, x), NEW i, NEW k, NEW p2,
         p2 = [p1 EXCEPT !.dirs[i] = k]
  PROVE  WithData(now, p2, x)
<1>1. FnShape(p1)
  BY Zenon DEF WithData
<1>2. p2 = [p1 EXCEPT !.dirs = [p1.dirs EXCEPT ![i] = k]]
  BY Staged, Zenon
<1>3. DirsSet(p1, p2, [p1.dirs EXCEPT ![i] = k])
  BY <1>1, <1>2, SetDirs, Zenon
<1> QED
  BY <1>3, Zenon DEF DirsSet, WithData, SameBut

(* xpdev_queue_add leaves the handle of the queue it was given. *)
LEMMA ListedIs ==
  ASSUME NEW now, FnShape(now), now.xqmax = now.qmax, NEW t, NEW i,
         NEW n \in Nat, n = Slot(now, t, i), now.qdata[n] \in QData, NEW made,
         NEW p2, p2 = Listed(now, t, i, made)
  PROVE  \E d \in QData : d.qhndl = n /\ WithData(now, p2, [now.qdata EXCEPT ![n] = d])
<1>1. p2 = IF t = "cmpt" THEN [now EXCEPT !.qdata[n].qhndl = n]
           ELSE IF made THEN [now EXCEPT !.qdata[n] = [qhndl |-> n, xcdev |-> TRUE], !.dirs[i] = @ \cup {t}]
           ELSE [now EXCEPT !.qdata[n].qhndl = n]
  <2>1. Row[t] * now.qmax + i = n
    BY Zenon DEF Slot
  <2> QED
    BY <2>1, Zenon DEF Listed
<1>2. CASE p2 = [now EXCEPT !.qdata[n].qhndl = n]
  <2>1. p2 = [now EXCEPT !.qdata = [now.qdata EXCEPT ![n] = [now.qdata[n] EXCEPT !.qhndl = n]]]
    BY <1>2, Staged, Zenon
  <2> QED
    BY <2>1, DataSet, Datum, Zenon
<1>3. CASE p2 = [now EXCEPT !.qdata[n] = [qhndl |-> n, xcdev |-> TRUE], !.dirs[i] = @ \cup {t}]
  <2>1. PICK d : d = [qhndl |-> n, xcdev |-> TRUE]
    OBVIOUS
  <2>2. d \in QData /\ d.qhndl = n
    BY <2>1, Datum, Zenon
  <2>3. p2 = [now EXCEPT !.qdata[n] = d, !.dirs[i] = @ \cup {t}]
    BY <1>3, <2>1, Zenon
  <2>4. p2 = [[now EXCEPT !.qdata[n] = d] EXCEPT !.dirs[i] = @ \cup {t}]
    BY <2>3, StagedPair, Zenon
  <2>5. PICK p1 : p1 = [now EXCEPT !.qdata[n] = d]
    OBVIOUS
  <2>6. p1 = [now EXCEPT !.qdata = [now.qdata EXCEPT ![n] = d]]
    BY <2>5, Staged, Zenon
  <2>7. WithData(now, p1, [now.qdata EXCEPT ![n] = d])
    BY <2>6, DataSet, Zenon
  <2>8. p2 = [p1 EXCEPT !.dirs[i] = p1.dirs[i] \cup {t}]
    BY <2>4, <2>5, Zenon
  <2>9. WithData(now, p2, [now.qdata EXCEPT ![n] = d])
    BY <2>7, <2>8, DirSet, Zenon
  <2> QED
    BY <2>2, <2>9, Zenon
<1> QED
  BY <1>1, <1>2, <1>3, Zenon

-----------------------------------------------------------------------------
(* A queue is added. *)

Written(p) == p.init_qrange = TRUE

LEMMA AddedRows ==
  ASSUME NEW p, NEW p2, p.qmax \in Nat, p2.qmax = p.qmax, NEW n, NEW t, NEW i \in 0..(p.qmax - 1), n = Slot(p, t, i),
         NEW v, v.q_type = t, v.qidx = i, FnRows(p), Written(p2),
         p2.descq = [m \in 0..(3 * p.qmax - 1) |-> IF m = n THEN v ELSE p.descq[m]]
  PROVE  FnRows(p2)
<1>1. i < p.qmax
  OBVIOUS
<1>2. \A u, j : Slot(p2, u, j) = Slot(p, u, j)
  BY Zenon DEF Slot
<1> SUFFICES ASSUME NEW m \in 0..(3 * p.qmax - 1), p2.descq[m].state # "disabled"
             PROVE  /\ p2.descq[m].qidx < p.qmax
                    /\ m = Slot(p, p2.descq[m].q_type, p2.descq[m].qidx)
  BY <1>2 DEF FnRows, Written
<1>3. CASE m = n
  <2>1. p2.descq[m] = v
    BY <1>3, Zenon
  <2> QED
    BY <1>1, <1>3, <2>1, Zenon
<1>4. CASE m # n
  <2>1. p2.descq[m] = p.descq[m]
    BY <1>4, Zenon
  <2> QED
    BY <2>1, Zenon DEF FnRows
<1> QED
  BY <1>3, <1>4

LEMMA AddedHandles ==
  ASSUME NEW p, NEW p2, p.qmax \in Nat, p2.qmax = p.qmax, NEW t \in QType, NEW i \in 0..(p.qmax - 1),
         NEW n, n = Slot(p, t, i), NEW v, v.state # "disabled", ChangedRight(p, p2, t, i, v),
         DOMAIN p.qdata = 0..(3 * p.qmax - 1),
         NEW d, d.qhndl = n, p2.qdata = [p.qdata EXCEPT ![n] = d], FnHandles(p)
  PROVE  FnHandles(p2)
<1>1. \A u, j : Slot(p2, u, j) = Slot(p, u, j)
  BY Zenon DEF Slot
<1> SUFFICES ASSUME NEW u \in QType, NEW j \in 0..(p.qmax - 1), p2.qdata[Slot(p, u, j)] # NoData
             PROVE  p2.qdata[Slot(p, u, j)].qhndl = Slot(p, u, j) /\ Here(p2, u, j)
  BY <1>1 DEF FnHandles
<1>2. Slot(p, u, j) \in 0..(3 * p.qmax - 1)
  BY SlotIn
<1>3. CASE u = t /\ j = i
  <2>1. p2.qdata[Slot(p, u, j)] = d
    BY <1>2, <1>3, Zenon
  <2>2. Here(p2, t, i)
    BY Zenon DEF ChangedRight
  <2> QED
    BY <1>3, <2>1, <2>2, Zenon
<1>4. CASE ~(u = t /\ j = i)
  <2>1. Slot(p, u, j) # n
    BY <1>4, SlotsApart
  <2>2. p2.qdata[Slot(p, u, j)] = p.qdata[Slot(p, u, j)]
    BY <1>2, <2>1, Zenon
  <2>3. Here(p2, u, j) <=> Here(p, u, j)
    BY <1>4, Zenon DEF ChangedRight
  <2> QED
    BY <2>2, <2>3, Zenon DEF FnHandles
<1> QED
  BY <1>3, <1>4

ListedRight(p, p2, n, v) ==
  /\ FnShape(p2) /\ SameBut(p, p2) /\ p2.init_qrange = TRUE
  /\ p2.descq = [m \in 0..(3 * p.qmax - 1) |-> IF m = n THEN v ELSE p.descq[m]]
  /\ \E d \in QData : d.qhndl = n /\ p2.qdata = [p.qdata EXCEPT ![n] = d]

LEMMA AddedTables ==
  ASSUME NEW p, FnType(p), NEW t \in QType, NEW i \in 0..(p.qmax - 1), NEW v,
         NEW n, n = Slot(p, t, i), NEW made, NEW b, b = TRUE,
         NEW now, now = [p EXCEPT !.init_qrange = b,
                                  !.descq = [m \in DOMAIN @ |-> IF m = n THEN v ELSE @[m]]],
         NEW p2, p2 = Listed(now, t, i, made)
  PROVE  ListedRight(p, p2, n, v)
<1>1. /\ FnShape(p)
      /\ p.qmax \in Nat /\ (p.qmax = 0 \/ p.xqmax = p.qmax)
      /\ p.descq \in [0..(3 * p.qmax - 1) -> DescQueue]
      /\ p.qdata \in [0..(3 * p.qmax - 1) -> QData]
  BY Zenon DEF FnType
<1>2. n \in 0..(3 * p.qmax - 1) /\ n \in Nat
  BY <1>1, SlotIn, Zenon
<1>3. p.qmax # 0
  <2>1. \A m \in Nat : i \in 0..(m - 1) => m # 0
    OBVIOUS
  <2> QED
    BY <1>1, <2>1, Zenon
<1> DEFINE descq == [m \in 0..(3 * p.qmax - 1) |-> IF m = n THEN v ELSE p.descq[m]]
<1>5. InitialisedRight(p, now, b, descq)
  <2>1. DOMAIN p.descq = 0..(3 * p.qmax - 1)
    BY <1>1, Zenon
  <2>2. now = [p EXCEPT !.init_qrange = b,
                        !.descq = [m \in DOMAIN p.descq |-> IF m = n THEN v ELSE p.descq[m]]]
    BY Zenon
  <2>3. now = [p EXCEPT !.init_qrange = b, !.descq = descq]
    BY <2>1, <2>2, Zenon
  <2> HIDE DEF descq
  <2> QED
    BY <1>1, <2>3, Initialised, Zenon
<1>6. /\ FnShape(now) /\ now.xqmax = now.qmax /\ Slot(now, t, i) = n /\ now.qdata[n] \in QData
      /\ now.descq = descq /\ now.init_qrange = TRUE /\ SameBut(p, now) /\ now.qdata = p.qdata
  <2>1. /\ FnShape(now) /\ SameBut(p, now) /\ now.descq = descq /\ now.init_qrange = TRUE
        /\ now.qdata = p.qdata
    BY <1>5, Zenon DEF InitialisedRight
  <2>2. now.xqmax = now.qmax /\ now.qmax = p.qmax
    BY <1>1, <1>3, <2>1, Zenon DEF SameBut
  <2>3. Slot(now, t, i) = n
    BY <2>2, Zenon DEF Slot
  <2>4. now.qdata[n] \in QData
    BY <1>1, <1>2, <2>1, Zenon
  <2> QED
    BY <2>1, <2>2, <2>3, <2>4, Zenon
<1>7. PICK d \in QData : d.qhndl = n /\ WithData(now, p2, [now.qdata EXCEPT ![n] = d])
  BY <1>2, <1>6, ListedIs, Zenon
<1>8. /\ FnShape(p2) /\ SameBut(p, p2) /\ p2.descq = descq /\ p2.init_qrange = TRUE
  BY <1>6, <1>7, Zenon DEF WithData, SameBut
<1>9. p2.qdata = [p.qdata EXCEPT ![n] = d]
  BY <1>6, <1>7, Zenon DEF WithData
<1> QED
  BY <1>7, <1>8, <1>9, Zenon DEF ListedRight

LEMMA Added ==
  ASSUME NEW p, FnInv(p), NEW t \in QType, NEW st \in BOOLEAN, ~(st /\ t = "cmpt"),
         NEW i \in 0..(p.qmax - 1), Usable(p, i, t, st),
         NEW v, v \in DescQueue, v.state # "disabled", v.q_type = t, v.qidx = i, v.st = st,
         NEW n, n = Slot(p, t, i), NEW p2, ListedRight(p, p2, n, v)
  PROVE  AddedRight(p, p2, t, i, st)
<1>1. /\ FnType(p) /\ FnRows(p) /\ FnRings(p) /\ FnHandles(p)
      /\ p.qmax \in Nat /\ (p.qmax = 0 \/ p.xqmax = p.qmax)
      /\ p.qdata \in [0..(3 * p.qmax - 1) -> QData]
  BY Zenon DEF FnInv, FnType
<1>2. n \in 0..(3 * p.qmax - 1)
  BY <1>1, SlotIn, Zenon
<1>7. PICK d \in QData : d.qhndl = n /\ p2.qdata = [p.qdata EXCEPT ![n] = d]
  BY Zenon DEF ListedRight
<1>8. /\ FnShape(p2) /\ p2.init_qrange = TRUE
      /\ p2.descq = [m \in 0..(3 * p.qmax - 1) |-> IF m = n THEN v ELSE p.descq[m]]
      /\ p2.qmax = p.qmax /\ p2.qbase = p.qbase /\ p2.rngsz = p.rngsz /\ p2.xqmax = p.xqmax
  BY Zenon DEF ListedRight, SameBut
<1>9. ChangedRight(p, p2, t, i, v)
  BY <1>1, <1>8, Changed
<1>10. FnType(p2)
  <2>1. p2.qdata \in [0..(3 * p2.qmax - 1) -> QData]
    <3>1. [p.qdata EXCEPT ![n] = d] \in [0..(3 * p.qmax - 1) -> QData]
      BY <1>1
    <3> QED
      BY <1>7, <1>8, <3>1
  <2>2. p2.descq \in [0..(3 * p2.qmax - 1) -> DescQueue]
    BY <1>9, Zenon DEF ChangedRight
  <2>3. p2.init_qrange \in BOOLEAN
    BY <1>8, Zenon
  <2> QED
    BY <1>1, <1>8, <2>1, <2>2, <2>3, Zenon DEF FnType
<1>11. FnRows(p2)
  <2>1. Written(p2)
    BY <1>8, Zenon DEF Written
  <2> QED
    BY <1>1, <1>8, <2>1, AddedRows
<1>12. FnRings(p2)
  BY <1>1, <1>8, <1>9, AddedRings
<1>13. FnHandles(p2)
  <2>1. DOMAIN p.qdata = 0..(3 * p.qmax - 1)
    BY <1>1, Zenon
  <2> QED
    BY <1>1, <1>7, <1>8, <1>9, <2>1, AddedHandles
<1>14. UsesRight(p, p2, t, i, st)
  BY <1>8, <1>9, AddedUses
<1> QED
  BY <1>8, <1>10, <1>11, <1>12, <1>13, <1>14, Zenon DEF AddedRight, UsesRight, FnInv

-----------------------------------------------------------------------------
(* A queue starts or stops. *)

MovedRight(p, p2) ==
  /\ FnInv(p2) /\ SameBut(p, p2) /\ p2.init_qrange = p.init_qrange
  /\ \A u \in QType : UsedBy(p2, u) = UsedBy(p, u)

StateOnly(d, v) ==
  v \in DescQueue /\ v.state # "disabled" /\ v.q_type = d.q_type /\ v.qidx = d.qidx /\ v.st = d.st

LEMMA MovedState ==
  ASSUME NEW d \in DescQueue, NEW to, to = "enabled" \/ to = "online", NEW v, v = [d EXCEPT !.state = to]
  PROVE  StateOnly(d, v)
BY DEF DescQueue, StateOnly

LEMMA MovedTables ==
  ASSUME NEW p, FnType(p), NEW h, NEW v, NEW p2, p2 = [p EXCEPT !.descq[h] = v]
  PROVE  DescqSet(p, p2, [m \in 0..(3 * p.qmax - 1) |-> IF m = h THEN v ELSE p.descq[m]])
<1>1. FnShape(p) /\ DOMAIN p.descq = 0..(3 * p.qmax - 1)
  BY Zenon DEF FnType
<1>2. p2 = [p EXCEPT !.descq = [p.descq EXCEPT ![h] = v]]
  BY Zenon
<1>3. DescqSet(p, p2, [p.descq EXCEPT ![h] = v])
  BY <1>1, <1>2, SetDescq, Zenon
<1>4. [p.descq EXCEPT ![h] = v] = [m \in DOMAIN p.descq |-> IF m = h THEN v ELSE p.descq[m]]
  BY Zenon
<1> QED
  BY <1>1, <1>3, <1>4, Zenon

LEMMA MovedSame ==
  ASSUME NEW p, NEW p2, p2.qmax = p.qmax, NEW t \in QType, NEW i \in 0..(p.qmax - 1),
         NEW d, d = p.descq[Slot(p, t, i)], d.state # "disabled",
         NEW v, v.state # "disabled", v.st = d.st, ChangedRight(p, p2, t, i, v)
  PROVE  \A u \in QType, j \in 0..(p.qmax - 1) :
           (Here(p2, u, j) <=> Here(p, u, j)) /\ (Streaming(p2, u, j) <=> Streaming(p, u, j))
<1>1. Here(p, t, i) /\ (Streaming(p, t, i) <=> d.st)
  BY Zenon DEF Here, Streaming
<1>2. Here(p2, t, i) /\ (Streaming(p2, t, i) <=> d.st)
  BY Zenon DEF ChangedRight
<1> QED
  BY <1>1, <1>2, Zenon DEF ChangedRight

SameQueues(p, p2) ==
  /\ p2.qmax = p.qmax
  /\ \A u \in QType, j \in 0..(p.qmax - 1) :
       (Here(p2, u, j) <=> Here(p, u, j)) /\ (Streaming(p2, u, j) <=> Streaming(p, u, j))

LEMMA SameRings ==
  ASSUME NEW p, NEW p2, SameQueues(p, p2), FnRings(p)
  PROVE  FnRings(p2)
<1> SUFFICES ASSUME NEW j \in 0..(p.qmax - 1)
             PROVE  /\ Here(p2, "cmpt", j) => ~Streaming(p2, "h2c", j) /\ ~Streaming(p2, "c2h", j)
                    /\ Here(p2, "h2c", j) /\ Here(p2, "c2h", j) =>
                         (Streaming(p2, "h2c", j) <=> Streaming(p2, "c2h", j))
  BY DEF FnRings, SameQueues
<1>1. \A u \in QType : (Here(p2, u, j) <=> Here(p, u, j)) /\ (Streaming(p2, u, j) <=> Streaming(p, u, j))
  BY Zenon DEF SameQueues
<1> QED
  BY <1>1, RowIs, Zenon DEF FnRings

LEMMA SameUses ==
  ASSUME NEW p, NEW p2, SameQueues(p, p2), NEW u \in QType
  PROVE  UsedBy(p2, u) = UsedBy(p, u)
<1>1. \A j : j \in UsedBy(p2, u) <=> j \in UsedBy(p, u)
  BY InUsed, RowIs, Zenon DEF SameQueues
<1> QED
  BY <1>1

LEMMA SameHandles ==
  ASSUME NEW p, NEW p2, SameQueues(p, p2), p2.qdata = p.qdata, FnHandles(p)
  PROVE  FnHandles(p2)
<1>1. \A u, j : Slot(p2, u, j) = Slot(p, u, j)
  BY Zenon DEF Slot, SameQueues
<1> SUFFICES ASSUME NEW u \in QType, NEW j \in 0..(p.qmax - 1), p2.qdata[Slot(p, u, j)] # NoData
             PROVE  p2.qdata[Slot(p, u, j)].qhndl = Slot(p, u, j) /\ Here(p2, u, j)
  BY <1>1 DEF FnHandles, SameQueues
<1>2. p.qdata[Slot(p, u, j)] # NoData
  OBVIOUS
<1>3. p.qdata[Slot(p, u, j)].qhndl = Slot(p, u, j) /\ Here(p, u, j)
  BY <1>2, Zenon DEF FnHandles
<1>4. Here(p2, u, j) <=> Here(p, u, j)
  BY Zenon DEF SameQueues
<1> QED
  BY <1>3, <1>4

SameInit(p, p2) == p2.init_qrange = p.init_qrange

LEMMA MovedRows ==
  ASSUME NEW p, NEW p2, p.qmax \in Nat, p2.qmax = p.qmax, NEW n \in 0..(3 * p.qmax - 1),
         NEW d, d = p.descq[n], d.state # "disabled",
         NEW v, v.q_type = d.q_type, v.qidx = d.qidx, FnRows(p),
         SameInit(p, p2),
         p2.descq = [m \in 0..(3 * p.qmax - 1) |-> IF m = n THEN v ELSE p.descq[m]]
  PROVE  FnRows(p2)
<1>1. \A u, j : Slot(p2, u, j) = Slot(p, u, j)
  BY Zenon DEF Slot
<1>2. \A m \in 0..(3 * p.qmax - 1) : p.descq[m].state # "disabled" =>
        p.descq[m].qidx < p.qmax /\ m = Slot(p, p.descq[m].q_type, p.descq[m].qidx) /\ p2.init_qrange
  BY Zenon DEF FnRows, SameInit
<1> SUFFICES ASSUME NEW m \in 0..(3 * p.qmax - 1), p2.descq[m].state # "disabled"
             PROVE  /\ p2.descq[m].qidx < p.qmax
                    /\ m = Slot(p, p2.descq[m].q_type, p2.descq[m].qidx)
                    /\ p2.init_qrange
  BY <1>1 DEF FnRows
<1>3. CASE m = n
  <2>1. p2.descq[m] = v
    BY <1>3, Zenon
  <2> QED
    BY <1>2, <1>3, <2>1, Zenon
<1>4. CASE m # n
  <2>1. p2.descq[m] = p.descq[m]
    BY <1>4, Zenon
  <2> QED
    BY <1>2, <2>1, Zenon
<1> QED
  BY <1>3, <1>4

LEMMA Moved ==
  ASSUME NEW p, FnInv(p), NEW t \in QType, NEW i \in 0..(p.qmax - 1), NEW h, h = Slot(p, t, i),
         p.descq[h].state # "disabled", NEW v, StateOnly(p.descq[h], v),
         NEW p2, DescqSet(p, p2, [m \in 0..(3 * p.qmax - 1) |-> IF m = h THEN v ELSE p.descq[m]])
  PROVE  MovedRight(p, p2)
<1>1. /\ FnType(p) /\ FnRows(p) /\ FnRings(p) /\ FnHandles(p)
      /\ p.qmax \in Nat /\ (p.qmax = 0 \/ p.xqmax = p.qmax) /\ p.init_qrange \in BOOLEAN
      /\ p.descq \in [0..(3 * p.qmax - 1) -> DescQueue]
      /\ p.qdata \in [0..(3 * p.qmax - 1) -> QData]
  BY Zenon DEF FnInv, FnType
<1>2. h \in 0..(3 * p.qmax - 1) /\ p.descq[h] \in DescQueue
  BY <1>1, SlotIn, Zenon
<1>3. /\ v \in DescQueue /\ v.state # "disabled" /\ v.q_type = p.descq[h].q_type
      /\ v.qidx = p.descq[h].qidx /\ v.st = p.descq[h].st
  BY Zenon DEF StateOnly
<1>5. /\ FnShape(p2) /\ SameBut(p, p2) /\ p2.init_qrange = p.init_qrange
      /\ p2.descq = [m \in 0..(3 * p.qmax - 1) |-> IF m = h THEN v ELSE p.descq[m]]
      /\ p2.qdata = p.qdata
  BY Zenon DEF DescqSet, SameBut
<1>6. p2.qmax = p.qmax /\ p2.xqmax = p.xqmax
  BY <1>5, Zenon DEF SameBut
<1>7. ChangedRight(p, p2, t, i, v)
  BY <1>1, <1>3, <1>5, <1>6, Changed
<1>8. SameQueues(p, p2)
  <2>1. PICK d : d = p.descq[Slot(p, t, i)]
    OBVIOUS
  <2>2. /\ d.state # "disabled" /\ v.st = d.st
    BY <1>3, <2>1, Zenon
  <2>3. \A u \in QType, j \in 0..(p.qmax - 1) :
          (Here(p2, u, j) <=> Here(p, u, j)) /\ (Streaming(p2, u, j) <=> Streaming(p, u, j))
    BY <1>3, <1>6, <1>7, <2>1, <2>2, MovedSame
  <2> QED
    BY <1>6, <2>3, Zenon DEF SameQueues
<1>9. FnType(p2)
  <2>1. p2.descq \in [0..(3 * p2.qmax - 1) -> DescQueue]
    BY <1>7, Zenon DEF ChangedRight
  <2> QED
    BY <1>1, <1>5, <1>6, <2>1, Zenon DEF FnType
<1>10. FnRows(p2)
  <2>1. SameInit(p, p2)
    BY <1>5, Zenon DEF SameInit
  <2>2. PICK d : d = p.descq[h]
    OBVIOUS
  <2>3. d.state # "disabled" /\ v.q_type = d.q_type /\ v.qidx = d.qidx
    BY <1>3, <2>2, Zenon
  <2>4. p2.descq = [m \in 0..(3 * p.qmax - 1) |-> IF m = h THEN v ELSE p.descq[m]]
    BY <1>5, Zenon
  <2>5. FnRows(p) /\ p.qmax \in Nat /\ h \in 0..(3 * p.qmax - 1)
    BY <1>1, <1>2, Zenon
  <2> QED
    BY <1>6, <2>1, <2>2, <2>3, <2>4, <2>5, MovedRows
<1>11. FnRings(p2)
  BY <1>1, <1>8, SameRings, Zenon
<1>12. FnHandles(p2)
  BY <1>1, <1>5, <1>8, SameHandles
<1>13. \A u \in QType : UsedBy(p2, u) = UsedBy(p, u)
  BY <1>8, SameUses
<1> QED
  BY <1>5, <1>9, <1>10, <1>11, <1>12, <1>13, Zenon DEF MovedRight, FnInv

-----------------------------------------------------------------------------
(* A queue is removed. *)

DeletedRight(p, p2, t, i, st) ==
  /\ FnInv(p2) /\ SameBut(p, p2) /\ SameInit(p, p2)
  /\ \A u \in QType :
       /\ CountsAs(u, t, st) => i \in UsedBy(p, u) /\ UsedBy(p2, u) = UsedBy(p, u) \ {i}
       /\ ~CountsAs(u, t, st) => UsedBy(p2, u) = UsedBy(p, u)

DeletedTablesRight(p, p2, n) ==
  /\ FnShape(p2) /\ SameBut(p, p2) /\ SameInit(p, p2)
  /\ p2.descq = [m \in 0..(3 * p.qmax - 1) |-> IF m = n THEN Disabled ELSE p.descq[m]]
  /\ p2.qdata = [m \in 0..(3 * p.qmax - 1) |-> IF m = n THEN NoData ELSE p.qdata[m]]

LEMMA DeletedStaged ==
  ASSUME NEW p, NEW n, NEW i, NEW t, NEW p1, p1 = [p EXCEPT !.descq[n] = Disabled],
         NEW p2, p2 = [p EXCEPT !.descq[n] = Disabled, !.qdata[n] = NoData, !.dirs[i] = @ \ {t}]
  PROVE  p2 = [[p1 EXCEPT !.qdata[n] = NoData] EXCEPT !.dirs[i] = @ \ {t}]
BY Zenon

LEMMA DeletedTables ==
  ASSUME NEW p, FnType(p), NEW n, NEW i, NEW t,
         NEW p2, p2 = [p EXCEPT !.descq[n] = Disabled, !.qdata[n] = NoData, !.dirs[i] = @ \ {t}]
  PROVE  DeletedTablesRight(p, p2, n)
<1>1. PICK p1 : p1 = [p EXCEPT !.descq[n] = Disabled]
  OBVIOUS
<1>2. p2 = [[p1 EXCEPT !.qdata[n] = NoData] EXCEPT !.dirs[i] = @ \ {t}]
  BY <1>1, DeletedStaged, ZenonT(60)
<1>3. PICK p3 : p3 = [p1 EXCEPT !.qdata[n] = NoData]
  OBVIOUS
<1>4. DescqSet(p, p1, [m \in 0..(3 * p.qmax - 1) |-> IF m = n THEN Disabled ELSE p.descq[m]])
  BY <1>1, MovedTables, ZenonT(60)
<1>5. FnShape(p1) /\ p1.qdata = p.qdata /\ DOMAIN p.qdata = 0..(3 * p.qmax - 1)
  BY <1>4, Zenon DEF DescqSet, FnType
<1>6. WithData(p1, p3, [p1.qdata EXCEPT ![n] = NoData])
  <2>1. p3 = [p1 EXCEPT !.qdata = [p1.qdata EXCEPT ![n] = NoData]]
    BY <1>3, Staged, Zenon
  <2> QED
    BY <1>5, <2>1, DataSet, Zenon
<1>7. p2 = [p3 EXCEPT !.dirs[i] = p3.dirs[i] \ {t}]
  BY <1>2, <1>3, Zenon
<1>8. WithData(p1, p2, [p1.qdata EXCEPT ![n] = NoData])
  BY <1>6, <1>7, DirSet, Zenon
<1>9. [p1.qdata EXCEPT ![n] = NoData] =
        [m \in 0..(3 * p.qmax - 1) |-> IF m = n THEN NoData ELSE p.qdata[m]]
  BY <1>5, Zenon
<1>10. /\ FnShape(p2) /\ SameBut(p1, p2) /\ p2.init_qrange = p1.init_qrange /\ p2.descq = p1.descq
       /\ p2.qdata = [p1.qdata EXCEPT ![n] = NoData]
  BY <1>8, Zenon DEF WithData
<1>11. /\ SameBut(p, p1) /\ p1.init_qrange = p.init_qrange
       /\ p1.descq = [m \in 0..(3 * p.qmax - 1) |-> IF m = n THEN Disabled ELSE p.descq[m]]
  BY <1>4, Zenon DEF DescqSet, SameBut
<1>12. SameBut(p, p2) /\ SameInit(p, p2)
  BY <1>10, <1>11, Zenon DEF SameBut, SameInit
<1> QED
  BY <1>9, <1>10, <1>11, <1>12, Zenon DEF DeletedTablesRight

LEMMA DeletedRows ==
  ASSUME NEW p, NEW p2, p.qmax \in Nat, p2.qmax = p.qmax, NEW n,
         FnRows(p), DeletedTablesRight(p, p2, n)
  PROVE  FnRows(p2)
<1>0. /\ SameInit(p, p2)
      /\ p2.descq = [m \in 0..(3 * p.qmax - 1) |-> IF m = n THEN Disabled ELSE p.descq[m]]
  BY Zenon DEF DeletedTablesRight
<1>1. \A u, j : Slot(p2, u, j) = Slot(p, u, j)
  BY Zenon DEF Slot
<1>2. \A m \in 0..(3 * p.qmax - 1) : p.descq[m].state # "disabled" =>
        p.descq[m].qidx < p.qmax /\ m = Slot(p, p.descq[m].q_type, p.descq[m].qidx) /\ p2.init_qrange
  BY <1>0, Zenon DEF FnRows, SameInit
<1> SUFFICES ASSUME NEW m \in 0..(3 * p.qmax - 1), p2.descq[m].state # "disabled"
             PROVE  /\ p2.descq[m].qidx < p.qmax
                    /\ m = Slot(p, p2.descq[m].q_type, p2.descq[m].qidx)
                    /\ p2.init_qrange
  BY <1>1 DEF FnRows
<1>3. m # n
  <2>1. Disabled.state = "disabled"
    BY DEF Disabled
  <2> QED
    BY <1>0, <2>1, Zenon
<1>4. p2.descq[m] = p.descq[m]
  BY <1>0, <1>3, Zenon
<1> QED
  BY <1>2, <1>4, Zenon

LEMMA DeletedHandles ==
  ASSUME NEW p, NEW p2, p.qmax \in Nat, p2.qmax = p.qmax, NEW t \in QType, NEW i \in 0..(p.qmax - 1),
         NEW n, n = Slot(p, t, i), ChangedRight(p, p2, t, i, Disabled), FnHandles(p),
         DeletedTablesRight(p, p2, n)
  PROVE  FnHandles(p2)
<1>8. p2.qdata = [m \in 0..(3 * p.qmax - 1) |-> IF m = n THEN NoData ELSE p.qdata[m]]
  BY Zenon DEF DeletedTablesRight
<1>1. \A u, j : Slot(p2, u, j) = Slot(p, u, j)
  BY Zenon DEF Slot
<1> SUFFICES ASSUME NEW u \in QType, NEW j \in 0..(p2.qmax - 1), p2.qdata[Slot(p2, u, j)] # NoData
             PROVE  p2.qdata[Slot(p2, u, j)].qhndl = Slot(p2, u, j) /\ Here(p2, u, j)
  BY Zenon DEF FnHandles
<1>0. j \in 0..(p.qmax - 1) /\ p2.qdata[Slot(p, u, j)] # NoData
  BY <1>1, Zenon
<1>2. Slot(p, u, j) \in 0..(3 * p.qmax - 1)
  BY <1>0, SlotIn, Zenon
<1>3. Slot(p, u, j) # n
  BY <1>0, <1>2, <1>8, Zenon
<1>4. p2.qdata[Slot(p, u, j)] = p.qdata[Slot(p, u, j)]
  BY <1>2, <1>3, <1>8, Zenon
<1>5. p.qdata[Slot(p, u, j)].qhndl = Slot(p, u, j) /\ Here(p, u, j)
  BY <1>0, <1>4, Zenon DEF FnHandles
<1>6. ~(u = t /\ j = i)
  BY <1>3, Zenon
<1>7. Here(p2, u, j) <=> Here(p, u, j)
  BY <1>0, <1>6, Zenon DEF ChangedRight
<1> QED
  BY <1>1, <1>4, <1>5, <1>7, Zenon

LEMMA DeletedRings ==
  ASSUME NEW p, NEW p2, p2.qmax = p.qmax, NEW t \in QType, NEW i \in 0..(p.qmax - 1),
         ChangedRight(p, p2, t, i, Disabled), FnRings(p)
  PROVE  FnRings(p2)
<1> SUFFICES ASSUME NEW j \in 0..(p.qmax - 1)
             PROVE  /\ Here(p2, "cmpt", j) => ~Streaming(p2, "h2c", j) /\ ~Streaming(p2, "c2h", j)
                    /\ Here(p2, "h2c", j) /\ Here(p2, "c2h", j) =>
                         (Streaming(p2, "h2c", j) <=> Streaming(p2, "c2h", j))
  BY DEF FnRings
<1>1. Disabled.state = "disabled"
  BY DEF Disabled
<1>2. ~Here(p2, t, i) /\ ~Streaming(p2, t, i)
  BY <1>1, Zenon DEF ChangedRight
<1>3. \A u \in QType : (Here(p2, u, j) => Here(p, u, j)) /\ (Streaming(p2, u, j) => Streaming(p, u, j))
  BY <1>2, Zenon DEF ChangedRight
<1>4. \A u \in QType : Here(p2, u, j) => (Streaming(p2, u, j) <=> Streaming(p, u, j))
  BY <1>2, Zenon DEF ChangedRight
<1>5. /\ Here(p, "cmpt", j) => ~Streaming(p, "h2c", j) /\ ~Streaming(p, "c2h", j)
      /\ Here(p, "h2c", j) /\ Here(p, "c2h", j) => (Streaming(p, "h2c", j) <=> Streaming(p, "c2h", j))
  BY Zenon DEF FnRings
<1> QED
  BY <1>3, <1>4, <1>5, RowIs, Zenon

OneLessRight(p, p2, t, i, st) ==
  \A u \in QType :
    /\ CountsAs(u, t, st) => i \in UsedBy(p, u) /\ UsedBy(p2, u) = UsedBy(p, u) \ {i}
    /\ ~CountsAs(u, t, st) => UsedBy(p2, u) = UsedBy(p, u)

LEMMA OneLess ==
  ASSUME NEW S, NEW T, NEW i, i \notin T, \A j : j # i => (j \in T <=> j \in S)
  PROVE  T = S \ {i}
OBVIOUS

StreamsAs(p, t, i, st) == Streaming(p, t, i) <=> st

LEMMA DeletedUses ==
  ASSUME NEW p, NEW p2, p2.qmax = p.qmax, NEW t \in QType, NEW i \in 0..(p.qmax - 1),
         ChangedRight(p, p2, t, i, Disabled), FnRings(p), Here(p, t, i),
         NEW st \in BOOLEAN, StreamsAs(p, t, i, st)
  PROVE  OneLessRight(p, p2, t, i, st)
<1>1. Disabled.state = "disabled"
  BY DEF Disabled
<1>2. ~Here(p2, t, i) /\ ~Streaming(p2, t, i)
  BY <1>1, Zenon DEF ChangedRight
<1>3. \A u \in QType, j \in 0..(p.qmax - 1) : ~(u = t /\ j = i) =>
        (Here(p2, u, j) <=> Here(p, u, j)) /\ (Streaming(p2, u, j) <=> Streaming(p, u, j))
  BY Zenon DEF ChangedRight
<1>4. Here(p, "cmpt", i) => ~Streaming(p, "h2c", i) /\ ~Streaming(p, "c2h", i)
  BY Zenon DEF FnRings
<1> SUFFICES ASSUME NEW u \in QType
             PROVE  /\ CountsAs(u, t, st) => i \in UsedBy(p, u) /\ UsedBy(p2, u) = UsedBy(p, u) \ {i}
                    /\ ~CountsAs(u, t, st) => UsedBy(p2, u) = UsedBy(p, u)
  BY Zenon DEF OneLessRight
<1>5. \A j : j # i => (j \in UsedBy(p2, u) <=> j \in UsedBy(p, u))
  BY <1>3, InUsed, RowIs, Zenon
<1>6. "c2h" # "cmpt"
  OBVIOUS
<1>11. \A w : i \in UsedBy(p2, w) <=> Here(p2, w, i) \/ (w = "cmpt" /\ Streaming(p2, "c2h", i))
  <2>1. i \in 0..(p2.qmax - 1)
    BY Zenon
  <2> QED
    BY <2>1, InUsed, Zenon
<1>12. \A w : i \in UsedBy(p, w) <=> Here(p, w, i) \/ (w = "cmpt" /\ Streaming(p, "c2h", i))
  BY InUsed, Zenon
<1>7. ASSUME CountsAs(u, t, st)
      PROVE  i \in UsedBy(p, u) /\ i \notin UsedBy(p2, u)
  <2>1. CASE u = t
    <3>1. i \in UsedBy(p, u)
      BY <2>1, <1>12, Zenon
    <3>2. ~(u = "cmpt" /\ Streaming(p2, "c2h", i))
      BY <1>3, <1>4, <1>6, <2>1, RowIs, Zenon
    <3> QED
      BY <1>2, <2>1, <3>1, <3>2, <1>11, <1>12, Zenon
  <2>2. CASE u = "cmpt" /\ t = "c2h" /\ st
    <3>1. Streaming(p, "c2h", i) /\ ~Here(p, "cmpt", i)
      BY <1>4, <2>2, Zenon DEF StreamsAs
    <3>2. ~Here(p2, "cmpt", i) /\ ~Streaming(p2, "c2h", i)
      BY <1>2, <1>3, <1>6, <2>2, <3>1, RowIs, Zenon
    <3> QED
      BY <2>2, <3>1, <3>2, <1>11, <1>12, Zenon
  <2> QED
    BY <1>7, <2>1, <2>2, Zenon DEF CountsAs
<1>8. ASSUME ~CountsAs(u, t, st)
      PROVE  i \in UsedBy(p2, u) <=> i \in UsedBy(p, u)
  <2>1. u # t /\ ~(u = "cmpt" /\ t = "c2h" /\ st)
    BY <1>8, Zenon DEF CountsAs
  <2>2. Here(p2, u, i) <=> Here(p, u, i)
    BY <1>3, <2>1, Zenon
  <2>3. u = "cmpt" => (Streaming(p2, "c2h", i) <=> Streaming(p, "c2h", i))
    BY <1>2, <1>3, <2>1, RowIs, Zenon DEF StreamsAs
  <2> QED
    BY <2>2, <2>3, <1>11, <1>12, Zenon
<1>9. ASSUME CountsAs(u, t, st)
      PROVE  i \in UsedBy(p, u) /\ UsedBy(p2, u) = UsedBy(p, u) \ {i}
  BY <1>5, <1>7, <1>9, OneLess
<1>10. ASSUME ~CountsAs(u, t, st)
       PROVE  UsedBy(p2, u) = UsedBy(p, u)
  BY <1>5, <1>8, <1>10, AsBefore
<1> QED
  BY <1>9, <1>10

LEMMA Deleted ==
  ASSUME NEW p, FnInv(p), NEW t \in QType, NEW i \in 0..(p.qmax - 1), NEW n, n = Slot(p, t, i),
         Here(p, t, i), NEW st \in BOOLEAN, StreamsAs(p, t, i, st),
         NEW p2, DeletedTablesRight(p, p2, n)
  PROVE  DeletedRight(p, p2, t, i, st)
<1>1. /\ FnType(p) /\ FnRows(p) /\ FnRings(p) /\ FnHandles(p)
      /\ p.qmax \in Nat /\ (p.qmax = 0 \/ p.xqmax = p.qmax) /\ p.init_qrange \in BOOLEAN
      /\ p.qdata \in [0..(3 * p.qmax - 1) -> QData]
  BY Zenon DEF FnInv, FnType
<1>2. /\ FnShape(p2) /\ SameBut(p, p2) /\ SameInit(p, p2)
      /\ p2.descq = [m \in 0..(3 * p.qmax - 1) |-> IF m = n THEN Disabled ELSE p.descq[m]]
      /\ p2.qdata = [m \in 0..(3 * p.qmax - 1) |-> IF m = n THEN NoData ELSE p.qdata[m]]
  BY Zenon DEF DeletedTablesRight
<1>3. p2.qmax = p.qmax /\ p2.xqmax = p.xqmax /\ p2.init_qrange = p.init_qrange
  BY <1>2, Zenon DEF SameBut, SameInit
<1>4. Disabled \in DescQueue /\ NoData \in QData
  BY DEF Disabled, NoData, DescQueue, QData, QType
<1>5. ChangedRight(p, p2, t, i, Disabled)
  BY <1>1, <1>2, <1>3, <1>4, Changed
<1>6. FnType(p2)
  <2>1. p2.descq \in [0..(3 * p2.qmax - 1) -> DescQueue]
    BY <1>5, Zenon DEF ChangedRight
  <2>2. p2.qdata \in [0..(3 * p2.qmax - 1) -> QData]
    <3>1. \A m \in 0..(3 * p.qmax - 1) : (IF m = n THEN NoData ELSE p.qdata[m]) \in QData
      BY <1>1, <1>4, Zenon
    <3>2. p2.qdata \in [0..(3 * p.qmax - 1) -> QData]
      BY <1>2, <3>1, Zenon
    <3> QED
      BY <1>3, <3>2, Zenon
  <2> QED
    BY <1>1, <1>2, <1>3, <2>1, <2>2, Zenon DEF FnType
<1>7. FnRows(p2)
  BY <1>1, <1>3, DeletedRows
<1>8. FnRings(p2)
  BY <1>1, <1>3, <1>5, DeletedRings
<1>9. FnHandles(p2)
  BY <1>1, <1>3, <1>5, DeletedHandles
<1>10. OneLessRight(p, p2, t, i, st)
  BY <1>1, <1>3, <1>5, DeletedUses
<1> QED
  BY <1>2, <1>6, <1>7, <1>8, <1>9, <1>10, Zenon DEF DeletedRight, OneLessRight, FnInv

-----------------------------------------------------------------------------
(* A function is configured anew. *)

ConfiguredRight(e, old, p2) ==
  /\ FnInv(p2)
  /\ p2.qmax = e.total_q /\ p2.qbase = e.qbase /\ p2.rngsz = old.rngsz /\ p2.init_qrange = FALSE
  /\ \A u \in QType : UsedBy(p2, u) = {}

LEMMA TableIs ==
  ASSUME NEW n, NEW v, NEW S, v \in S
  PROVE  /\ Table(n, v) \in [0..(3 * n - 1) -> S]
         /\ \A m \in 0..(3 * n - 1) : Table(n, v)[m] = v
BY Zenon DEF Table

LEMMA ConfiguredIs ==
  ASSUME NEW e, e.total_q \in Nat, NEW old, NEW p2, p2 = Configured(e, old)
  PROVE  ConfiguredRight(e, old, p2)
<1> DEFINE n == e.total_q
           dirs == [i \in 0..(n - 1) |-> {}]
           descq == Table(n, Disabled)
           qdata == Table(n, NoData)
           xqmax == IF n = 0 THEN old.xqmax ELSE n
<1>1. p2 = Fn(n, e.qbase, descq, FALSE, old.rngsz, xqmax, qdata, dirs)
  BY Zenon DEF Configured, Fn
<1>2. n \in Nat
  OBVIOUS
<1>3. n # 0 => xqmax = n
  BY Zenon
<1>4. Disabled \in DescQueue /\ NoData \in QData /\ Disabled.state = "disabled"
  BY DEF Disabled, NoData, DescQueue, QData, QType
<1>5. /\ descq \in [0..(3 * n - 1) -> DescQueue]
      /\ \A m \in 0..(3 * n - 1) : descq[m] = Disabled
  BY <1>4, TableIs, Zenon
<1>6. /\ qdata \in [0..(3 * n - 1) -> QData]
      /\ \A m \in 0..(3 * n - 1) : qdata[m] = NoData
  BY <1>4, TableIs, Zenon
<1> HIDE DEF n, dirs, descq, qdata, xqmax
<1>7. PICK no : no = FALSE
  OBVIOUS
<1>8. p2 = Fn(n, e.qbase, descq, no, old.rngsz, xqmax, qdata, dirs)
  BY <1>1, <1>7, Zenon
<1>9. /\ FnShape(p2)
      /\ p2.qmax = n /\ p2.qbase = e.qbase /\ p2.descq = descq /\ p2.init_qrange = no
      /\ p2.rngsz = old.rngsz /\ p2.xqmax = xqmax /\ p2.qdata = qdata /\ p2.dirs = dirs
  BY <1>8, FnMade
<1>10. FnType(p2)
  BY <1>2, <1>3, <1>5, <1>6, <1>7, <1>9, Zenon DEF FnType
<1>11. ASSUME NEW u \in QType, NEW j \in 0..(n - 1)
       PROVE  /\ ~Here(p2, u, j) /\ ~Streaming(p2, u, j)
              /\ p2.qdata[Slot(p2, u, j)] = NoData
  <2>1. Slot(p2, u, j) \in 0..(3 * n - 1)
    BY <1>2, <1>9, SlotIn, Zenon
  <2> QED
    BY <1>4, <1>5, <1>6, <1>9, <2>1, Zenon DEF Here, Streaming
<1>12. FnRows(p2)
  BY <1>4, <1>5, <1>9, Zenon DEF FnRows
<1>13. FnRings(p2)
  BY <1>9, <1>11, RowIs, Zenon DEF FnRings
<1>14. FnHandles(p2)
  BY <1>9, <1>11, Zenon DEF FnHandles
<1>15. \A u \in QType : UsedBy(p2, u) = {}
  <2>1. \A u \in QType : \A j : j \notin UsedBy(p2, u)
    BY <1>9, <1>11, InUsed, RowIs, Zenon
  <2> QED
    BY <2>1, Zenon
<1> QED
  BY <1>7, <1>9, <1>10, <1>12, <1>13, <1>14, <1>15, Zenon DEF ConfiguredRight, FnInv, n

-----------------------------------------------------------------------------
(* The model's own words for a function's tables. *)

LEMMA InUseIs ==
  ASSUME NEW f, NEW t
  PROVE  InUse(f, t) = UsedBy(pf[f], t)
<1>1. \A u, i : At(f, u, i) = pf[f].descq[Slot(pf[f], u, i)]
  BY Zenon DEF At, Slot
<1>2. \A u, i : Present(f, u, i) <=> Here(pf[f], u, i)
  BY <1>1, Zenon DEF Present, Here
<1>3. \A u, i : Present(f, u, i) /\ At(f, u, i).st <=> Streaming(pf[f], u, i)
  BY <1>1, <1>2, Zenon DEF Streaming
<1>4. \A u, i : i \in Queues(f, u) <=> i \in 0..(pf[f].qmax - 1) /\ Here(pf[f], u, i)
  BY <1>2, Zenon DEF Queues
<1>5. \A i : i \in {j \in Queues(f, "c2h") : At(f, "c2h", j).st} <=>
             i \in 0..(pf[f].qmax - 1) /\ Streaming(pf[f], "c2h", i)
  BY <1>2, <1>3, Zenon DEF Queues
<1>6. \A i : i \in InUse(f, t) <=>
             i \in 0..(pf[f].qmax - 1) /\ (Here(pf[f], t, i) \/ (t = "cmpt" /\ Streaming(pf[f], "c2h", i)))
  BY <1>4, <1>5, Zenon DEF InUse
<1>7. \A i : i \in InUse(f, t) <=> i \in UsedBy(pf[f], t)
  BY <1>6, InUsed, Zenon
<1> QED
  BY <1>7, Zenon

LEMMA UsableIs ==
  ASSUME NEW f, NEW t \in QType, NEW st \in BOOLEAN, NEW i, FnRings(pf[f]),
         i \in 0..(pf[f].qmax - 1), IsUsableQueue(f, i, t, st)
  PROVE  Usable(pf[f], i, t, st)
<1> DEFINE p == pf[f]
<1>1. \A u, j : At(f, u, j) = p.descq[Slot(p, u, j)]
  BY Zenon DEF At, Slot
<1>2. \A u, j : Present(f, u, j) <=> Here(p, u, j)
  BY <1>1, Zenon DEF Present, Here
<1>3. \A j : Streams(f, j) <=> Streaming(p, "h2c", j) \/ Streaming(p, "c2h", j)
  BY <1>1, <1>2, Zenon DEF Streams, Streaming
<1>4. ~Here(p, t, i) /\ ~Streaming(p, t, i)
  BY <1>2, Zenon DEF IsUsableQueue, Streaming
<1>5. t = "cmpt" => ~Streaming(p, "h2c", i) /\ ~Streaming(p, "c2h", i)
  BY <1>3, Zenon DEF IsUsableQueue
<1>6. t # "cmpt" /\ st => ~Here(p, "cmpt", i)
  BY <1>2, Zenon DEF IsUsableQueue
<1>7. ASSUME t = "h2c", Here(p, "c2h", i)
      PROVE  Streaming(p, "c2h", i) <=> st
  <2>1. Streams(f, i) = st
    BY <1>2, <1>7 DEF IsUsableQueue
  <2>2. Streams(f, i) <=> st
    BY <2>1, Zenon
  <2> QED
    BY <1>3, <1>4, <1>7, <2>2, Zenon
<1>8. ASSUME t = "c2h", Here(p, "h2c", i)
      PROVE  Streaming(p, "h2c", i) <=> st
  <2>1. Streams(f, i) = st
    BY <1>2, <1>8 DEF IsUsableQueue
  <2>2. Streams(f, i) <=> st
    BY <2>1, Zenon
  <2> QED
    BY <1>3, <1>4, <1>8, <2>2, Zenon
<1> QED
  BY <1>4, <1>5, <1>6, <1>7, <1>8, Zenon DEF Usable

-----------------------------------------------------------------------------
(* Counting the queues in use. *)

LEMMA UsedIn ==
  ASSUME NEW p, p.qmax \in Nat, NEW t
  PROVE  /\ UsedBy(p, t) \subseteq 0..(p.qmax - 1) /\ UsedBy(p, t) \subseteq Nat
         /\ IsFiniteSet(UsedBy(p, t)) /\ Cardinality(UsedBy(p, t)) \in Nat
         /\ Cardinality(UsedBy(p, t)) <= p.qmax
         /\ \A i \in 0..(p.qmax - 1) : i \notin UsedBy(p, t) => Cardinality(UsedBy(p, t)) < p.qmax
<1> DEFINE U == UsedBy(p, t)  N == 0..(p.qmax - 1)
<1>1. U \subseteq N
  BY Zenon DEF UsedBy
<1>2. IsFiniteSet(N) /\ Cardinality(N) = p.qmax /\ N \subseteq Nat
  <2>1. 0 \in Int /\ p.qmax - 1 \in Int
    OBVIOUS
  <2>2. IsFiniteSet(N) /\ Cardinality(N) = IF 0 > p.qmax - 1 THEN 0 ELSE p.qmax - 1 - 0 + 1
    BY <2>1, FS_Interval
  <2> QED
    BY <2>2
<1> HIDE DEF U, N
<1>3. U \in SUBSET N
  BY <1>1
<1>4. IsFiniteSet(U) /\ Cardinality(U) <= Cardinality(N) /\ (Cardinality(N) = Cardinality(U) => N = U)
  BY <1>2, <1>3, FS_Subset
<1>5. Cardinality(U) \in Nat
  BY <1>4, FS_CardinalityType
<1>6. \A i \in N : i \notin U => Cardinality(U) < p.qmax
  BY <1>2, <1>4, <1>5
<1>7. U \subseteq Nat /\ Cardinality(U) <= p.qmax
  BY <1>1, <1>2, <1>4
<1> QED
  BY <1>1, <1>4, <1>5, <1>6, <1>7 DEF U, N

LEMMA InAll ==
  ASSUME NEW P, NEW O, \A f \in O : P[f].qmax \in Nat
  PROVE  \A f, t, i : <<f, t, i>> \in AllUsed(P, O) <=> f \in O /\ t \in QType /\ i \in UsedBy(P[f], t)
<1>1. \A f \in O : \A t : UsedBy(P[f], t) \subseteq Nat
  BY UsedIn, Zenon
<1> SUFFICES ASSUME NEW f, NEW t, NEW i
             PROVE  <<f, t, i>> \in AllUsed(P, O) <=> f \in O /\ t \in QType /\ i \in UsedBy(P[f], t)
  OBVIOUS
<1> DEFINE x == <<f, t, i>>
<1>2. x[1] = f /\ x[2] = t /\ x[3] = i
  OBVIOUS
<1>3. x \in O \X QType \X Nat <=> f \in O /\ t \in QType /\ i \in Nat
  OBVIOUS
<1> HIDE DEF x
<1>4. x \in AllUsed(P, O) <=> x \in O \X QType \X Nat /\ x[3] \in UsedBy(P[x[1]], x[2])
  BY Zenon DEF AllUsed
<1>5. x \in AllUsed(P, O) <=> f \in O /\ t \in QType /\ i \in UsedBy(P[f], t)
  BY <1>1, <1>2, <1>3, <1>4, Zenon
<1> QED
  BY <1>5 DEF x

LEMMA AllTriples ==
  ASSUME NEW P, NEW O, NEW x \in AllUsed(P, O)
  PROVE  \E f \in O, t \in QType, i \in Nat : x = <<f, t, i>>
BY DEF AllUsed

OneMoreRight(A, A2) ==
  /\ IsFiniteSet(A) <=> IsFiniteSet(A2)
  /\ IsFiniteSet(A) => Cardinality(A2) = Cardinality(A) + 1

LEMMA OneMoreCounts ==
  ASSUME NEW A, NEW x, x \notin A, NEW A2, A2 = A \cup {x}
  PROVE  OneMoreRight(A, A2)
<1>1. ASSUME IsFiniteSet(A)
      PROVE  IsFiniteSet(A2) /\ Cardinality(A2) = Cardinality(A) + 1
  BY <1>1, FS_AddElement
<1>2. ASSUME IsFiniteSet(A2)
      PROVE  IsFiniteSet(A)
  <2>1. A \in SUBSET A2
    OBVIOUS
  <2> QED
    BY <1>2, <2>1, FS_Subset
<1> QED
  BY <1>1, <1>2, Zenon DEF OneMoreRight

(* A queue of type t takes as many places as it counts as types. *)
Places(t, st) == IF t = "c2h" /\ st THEN 2 ELSE 1

PlacesRight(A, A2, n) ==
  /\ IsFiniteSet(A) <=> IsFiniteSet(A2)
  /\ IsFiniteSet(A) => Cardinality(A2) = Cardinality(A) + n

LEMMA AllCount ==
  ASSUME NEW P, NEW P2, NEW O, NEW f \in O, \A g \in O : P[g].qmax \in Nat /\ P2[g].qmax \in Nat,
         \A g \in O : g # f => P2[g] = P[g],
         NEW t \in QType, NEW i, NEW st \in BOOLEAN, UsesRight(P[f], P2[f], t, i, st)
  PROVE  PlacesRight(AllUsed(P, O), AllUsed(P2, O), Places(t, st))
<1> DEFINE A == AllUsed(P, O)  A2 == AllUsed(P2, O)
<1>1. \A g, u, j : <<g, u, j>> \in A <=> g \in O /\ u \in QType /\ j \in UsedBy(P[g], u)
  BY InAll, Zenon
<1>2. \A g, u, j : <<g, u, j>> \in A2 <=> g \in O /\ u \in QType /\ j \in UsedBy(P2[g], u)
  BY InAll, Zenon
<1>3. \A x : x \in A \/ x \in A2 => \E g \in O, u \in QType, j \in Nat : x = <<g, u, j>>
  <2>1. \A x \in A : \E g \in O, u \in QType, j \in Nat : x = <<g, u, j>>
    BY AllTriples
  <2>2. \A x \in A2 : \E g \in O, u \in QType, j \in Nat : x = <<g, u, j>>
    BY AllTriples
  <2> QED
    BY <2>1, <2>2, Zenon
<1> HIDE DEF A, A2
<1>4. \A u \in QType : /\ CountsAs(u, t, st) => i \notin UsedBy(P[f], u) /\ UsedBy(P2[f], u) = UsedBy(P[f], u) \cup {i}
                       /\ ~CountsAs(u, t, st) => UsedBy(P2[f], u) = UsedBy(P[f], u)
  BY Zenon DEF UsesRight
<1>5. \A u \in QType : CountsAs(u, t, st) => <<f, u, i>> \notin A /\ <<f, u, i>> \in A2
  BY <1>1, <1>2, <1>4, Zenon
<1>6. \A g \in O : \A u \in QType : \A j : ~(g = f /\ CountsAs(u, t, st) /\ j = i) =>
        (<<g, u, j>> \in A2 <=> <<g, u, j>> \in A)
  <2> SUFFICES ASSUME NEW g \in O, NEW u \in QType, NEW j, ~(g = f /\ CountsAs(u, t, st) /\ j = i)
               PROVE  j \in UsedBy(P2[g], u) <=> j \in UsedBy(P[g], u)
    BY <1>1, <1>2, Zenon
  <2>1. CASE g # f
    BY <2>1, Zenon
  <2>2. CASE g = f /\ ~CountsAs(u, t, st)
    BY <1>4, <2>2, Zenon
  <2>3. CASE g = f /\ CountsAs(u, t, st) /\ j # i
    <3>1. UsedBy(P2[g], u) = UsedBy(P[g], u) \cup {i}
      BY <1>4, <2>3, Zenon
    <3> QED
      BY <2>3, <3>1, Zenon
  <2> QED
    BY <2>1, <2>2, <2>3, Zenon
<1>7. CASE t = "c2h" /\ st
  <2>1. CountsAs("c2h", t, st) /\ CountsAs("cmpt", t, st) /\ ~CountsAs("h2c", t, st)
    BY <1>7 DEF CountsAs
  <2>12. PICK x, y, B : x = <<f, "c2h", i>> /\ y = <<f, "cmpt", i>> /\ B = A \cup {x}
    OBVIOUS
  <2>2. x # y
    BY <2>12
  <2>3. x \notin A /\ x \in A2 /\ y \notin A /\ y \in A2
    BY <1>5, <2>1, <2>12, RowIs, Zenon
  <2>4. \A z : z # x /\ z # y => (z \in A2 <=> z \in A)
    <3> SUFFICES ASSUME NEW z, z # x, z # y, z \in A \/ z \in A2
                 PROVE  z \in A2 <=> z \in A
      BY Zenon
    <3>1. PICK g \in O, u \in QType, j \in Nat : z = <<g, u, j>>
      BY <1>3, Zenon
    <3>2. ~(g = f /\ CountsAs(u, t, st) /\ j = i)
      BY <2>1, <2>12, <3>1, RowIs, Zenon
    <3> QED
      BY <1>6, <3>1, <3>2, Zenon
  <2>5. A2 = B \cup {y} /\ y \notin B
    BY <2>2, <2>3, <2>4, <2>12, Zenon
  <2>6. OneMoreRight(A, B) /\ OneMoreRight(B, A2)
    BY <2>3, <2>5, <2>12, OneMoreCounts, Zenon
  <2>7. Places(t, st) = 2
    BY <1>7 DEF Places
  <2>8. (IsFiniteSet(A) <=> IsFiniteSet(B)) /\ (IsFiniteSet(B) <=> IsFiniteSet(A2))
    BY <2>6, Zenon DEF OneMoreRight
  <2>9. IsFiniteSet(A) => Cardinality(B) = Cardinality(A) + 1 /\ Cardinality(A2) = Cardinality(B) + 1
    BY <2>6, <2>8, Zenon DEF OneMoreRight
  <2>10. IsFiniteSet(A) => Cardinality(A) \in Nat
    BY FS_CardinalityType
  <2>11. IsFiniteSet(A) => Cardinality(A2) = Cardinality(A) + 2
    BY <2>9, <2>10
  <2> QED
    BY <2>7, <2>8, <2>11, Zenon DEF PlacesRight, A, A2
<1>8. CASE ~(t = "c2h" /\ st)
  <2>1. CountsAs(t, t, st) /\ \A u \in QType : u # t => ~CountsAs(u, t, st)
    BY <1>8, Zenon DEF CountsAs
  <2> DEFINE x == <<f, t, i>>
  <2>2. x \notin A /\ x \in A2
    BY <1>5, <2>1, Zenon
  <2>3. \A z : z # x => (z \in A2 <=> z \in A)
    <3> SUFFICES ASSUME NEW z, z # x, z \in A \/ z \in A2
                 PROVE  z \in A2 <=> z \in A
      BY Zenon
    <3>1. PICK g \in O, u \in QType, j \in Nat : z = <<g, u, j>>
      BY <1>3, Zenon
    <3>2. ~(g = f /\ CountsAs(u, t, st) /\ j = i)
      BY <2>1, <3>1, Zenon
    <3> QED
      BY <1>6, <3>1, <3>2, Zenon
  <2>4. A2 = A \cup {x}
    BY <2>2, <2>3, Zenon
  <2>5. OneMoreRight(A, A2)
    BY <2>2, <2>4, OneMoreCounts, Zenon
  <2>6. Places(t, st) = 1
    BY <1>8 DEF Places
  <2> QED
    BY <2>5, <2>6, Zenon DEF PlacesRight, OneMoreRight, A, A2
<1> QED
  BY <1>7, <1>8, Zenon

UsesCountRight(p, p2, t, st) ==
  \A u \in QType : Cardinality(UsedBy(p2, u)) =
                     Cardinality(UsedBy(p, u)) + (IF CountsAs(u, t, st) THEN 1 ELSE 0)

LEMMA UsesCount ==
  ASSUME NEW p, NEW p2, p.qmax \in Nat, NEW t, NEW st, NEW i, UsesRight(p, p2, t, i, st)
  PROVE  UsesCountRight(p, p2, t, st)
<1> SUFFICES ASSUME NEW u \in QType
             PROVE  Cardinality(UsedBy(p2, u)) =
                      Cardinality(UsedBy(p, u)) + (IF CountsAs(u, t, st) THEN 1 ELSE 0)
  BY Zenon DEF UsesCountRight
<1>1. IsFiniteSet(UsedBy(p, u)) /\ Cardinality(UsedBy(p, u)) \in Nat
  BY UsedIn, Zenon
<1>2. CASE CountsAs(u, t, st)
  <2>1. i \notin UsedBy(p, u) /\ UsedBy(p2, u) = UsedBy(p, u) \cup {i}
    BY <1>2, Zenon DEF UsesRight
  <2>2. Cardinality(UsedBy(p2, u)) = Cardinality(UsedBy(p, u)) + 1
    BY <1>1, <2>1, FS_AddElement
  <2> QED
    BY <1>2, <2>2, Zenon
<1>3. CASE ~CountsAs(u, t, st)
  <2>1. UsedBy(p2, u) = UsedBy(p, u)
    BY <1>3, Zenon DEF UsesRight
  <2>2. Cardinality(UsedBy(p, u)) = Cardinality(UsedBy(p, u)) + 0
    BY <1>1
  <2> QED
    BY <1>3, <2>1, <2>2, Zenon
<1> QED
  BY <1>2, <1>3, Zenon

-----------------------------------------------------------------------------
(* The pool's counts when a queue is added, or, read from right to left, removed. *)

LEMMA NoWrap ==
  ASSUME NEW m \in Nat, NEW a \in Nat, a < m
  PROVE  a % m = a
OBVIOUS

TallyRight(p, p2, f, t, st) ==
  /\ PoolShape(p) /\ PoolShape(p2) /\ p2.free = p.free /\ DOMAIN p2.dev = DOMAIN p.dev
  /\ \A g \in DOMAIN p.dev : p.dev[g] \in Device /\ p2.dev[g] \in Device /\ p2.dev[g].entry = p.dev[g].entry
  /\ \A g \in DOMAIN p.dev : g # f => p2.dev[g] = p.dev[g]
  /\ \A u \in QType : p2.dev[f].active[u] = p.dev[f].active[u] + (IF CountsAs(u, t, st) THEN 1 ELSE 0)
  /\ p2.active = p.active + Places(t, st)

LEMMA CountedDevices ==
  ASSUME NEW p, NEW p2, NEW f, NEW t, NEW n, NEW a, CountedRight(p, p2, f, t, n, a)
  PROVE  AllDevices(p2) /\ PoolShape(p2) /\ DOMAIN p2.dev = DOMAIN p.dev /\ p2.active = a
BY Zenon DEF CountedRight, AllDevices

LEMMA OneTally ==
  ASSUME NEW p, PoolShape(p), AllDevices(p), NEW f \in DOMAIN p.dev, NEW t \in QType, NEW st,
         ~(t = "c2h" /\ st), NEW p2,
         CountedRight(p, p2, f, t, p.dev[f].active[t] + 1, p.active + 1)
  PROVE  TallyRight(p, p2, f, t, st)
<1>1. \A u \in QType : p.dev[f].active[u] + 0 = p.dev[f].active[u]
  <2>1. \A u \in QType : p.dev[f].active[u] \in Nat
    BY DeviceIs, Zenon DEF AllDevices
  <2>2. \A n \in Nat : n + 0 = n
    OBVIOUS
  <2> QED
    BY <2>1, <2>2, Zenon
<1>2. \A u \in QType : CountsAs(u, t, st) <=> u = t
  BY Zenon DEF CountsAs
<1>3. \A u \in QType : p2.dev[f].active[u] = p.dev[f].active[u] + (IF CountsAs(u, t, st) THEN 1 ELSE 0)
  BY <1>1, <1>2, Zenon DEF CountedRight
<1>4. Places(t, st) = 1
  BY Zenon DEF Places
<1> QED
  BY <1>3, <1>4, Zenon DEF TallyRight, CountedRight, AllDevices

LEMMA TwoTally ==
  ASSUME NEW p, PoolShape(p), AllDevices(p), p.active \in Nat, NEW f \in DOMAIN p.dev, NEW st,
         NEW t, t = "c2h" /\ st, NEW a, NEW b,
         (a = "c2h" /\ b = "cmpt") \/ (a = "cmpt" /\ b = "c2h"), NEW p1, NEW p2,
         CountedRight(p, p1, f, a, p.dev[f].active[a] + 1, p.active + 1),
         CountedRight(p1, p2, f, b, p1.dev[f].active[b] + 1, p1.active + 1)
  PROVE  TallyRight(p, p2, f, t, st)
<1>1. \A u \in QType : p.dev[f].active[u] + 0 = p.dev[f].active[u]
  <2>1. \A u \in QType : p.dev[f].active[u] \in Nat
    BY DeviceIs, Zenon DEF AllDevices
  <2>2. \A n \in Nat : n + 0 = n
    OBVIOUS
  <2> QED
    BY <2>1, <2>2, Zenon
<1>2. \A u \in QType : CountsAs(u, t, st) <=> u = "c2h" \/ u = "cmpt"
  BY Zenon DEF CountsAs
<1>3. "c2h" # "cmpt" /\ "h2c" # "c2h" /\ "h2c" # "cmpt"
  OBVIOUS
<1>4. /\ p2.dev[f].active["h2c"] = p.dev[f].active["h2c"]
      /\ p2.dev[f].active["c2h"] = p.dev[f].active["c2h"] + 1
      /\ p2.dev[f].active["cmpt"] = p.dev[f].active["cmpt"] + 1
  <2>1. CASE a = "c2h" /\ b = "cmpt"
    BY <1>3, <2>1, RowIs, Zenon DEF CountedRight
  <2>2. CASE a = "cmpt" /\ b = "c2h"
    BY <1>3, <2>2, RowIs, Zenon DEF CountedRight
  <2> QED
    BY <2>1, <2>2, Zenon
<1>5. \A u \in QType : p2.dev[f].active[u] = p.dev[f].active[u] + (IF CountsAs(u, t, st) THEN 1 ELSE 0)
  BY <1>1, <1>2, <1>3, <1>4, RowIs, Zenon
<1>6. Places(t, st) = 2
  BY Zenon DEF Places
<1>7. p2.active = p.active + 2
  <2>1. p2.active = p1.active + 1 /\ p1.active = p.active + 1
    BY Zenon DEF CountedRight
  <2> QED
    BY <2>1
<1>8. \A g \in DOMAIN p.dev : g # f => p2.dev[g] = p.dev[g]
  BY Zenon DEF CountedRight
<1>9. \A g \in DOMAIN p.dev : p.dev[g] \in Device /\ p2.dev[g] \in Device /\ p2.dev[g].entry = p.dev[g].entry
  BY Zenon DEF CountedRight, AllDevices
<1>10. PoolShape(p2) /\ p2.free = p.free /\ DOMAIN p2.dev = DOMAIN p.dev
  BY Zenon DEF CountedRight
<1> QED
  BY <1>5, <1>6, <1>7, <1>8, <1>9, <1>10, Zenon DEF TallyRight

LEMMA TallyUp ==
  ASSUME NEW p, PoolShape(p), AllDevices(p), p.active \in Nat, p.active + 2 < CountModulus,
         NEW f \in DOMAIN p.dev, NEW t \in QType, NEW st \in BOOLEAN, CanIncrement(p, f, t),
         NEW one, one = IncrementActiveQueue(p, f, t),
         st /\ t = "c2h" => CanIncrement(one, f, "cmpt"),
         NEW p2, p2 = IF st /\ t = "c2h" THEN IncrementActiveQueue(one, f, "cmpt") ELSE one
  PROVE  TallyRight(p, p2, f, t, st)
<1>1. (p.active + 1) % CountModulus = p.active + 1
  BY NoWrap, PoolAssumption
<1>2. CountedRight(p, one, f, t, p.dev[f].active[t] + 1, p.active + 1)
  <2>1. \A g \in DOMAIN p.dev : p.dev[g] \in Device
    BY Zenon DEF AllDevices
  <2>2. CountedRight(p, one, f, t, p.dev[f].active[t] + 1, (p.active + 1) % CountModulus)
    BY <2>1, Incremented, Zenon
  <2> QED
    BY <1>1, <2>2, Zenon
<1>3. AllDevices(one) /\ PoolShape(one) /\ DOMAIN one.dev = DOMAIN p.dev /\ one.active = p.active + 1
  BY <1>2, CountedDevices
<1>4. CASE st /\ t = "c2h"
  <2>1. p2 = IncrementActiveQueue(one, f, "cmpt") /\ CanIncrement(one, f, "cmpt")
    BY <1>4, Zenon
  <2>2. (one.active + 1) % CountModulus = one.active + 1
    BY <1>3, NoWrap, PoolAssumption
  <2>3. f \in DOMAIN one.dev /\ \A g \in DOMAIN one.dev : one.dev[g] \in Device
    BY <1>3, Zenon DEF AllDevices
  <2>4. CountedRight(one, p2, f, "cmpt", one.dev[f].active["cmpt"] + 1, (one.active + 1) % CountModulus)
    BY <1>3, <2>1, <2>3, Incremented, RowIs, Zenon
  <2>5. CountedRight(one, p2, f, "cmpt", one.dev[f].active["cmpt"] + 1, one.active + 1)
    BY <2>2, <2>4, Zenon
  <2>6. CountedRight(p, one, f, "c2h", p.dev[f].active["c2h"] + 1, p.active + 1)
    BY <1>2, <1>4, Zenon
  <2>7. t = "c2h" /\ st
    BY <1>4, Zenon
  <2> QED
    BY <2>5, <2>6, <2>7, TwoTally
<1>5. CASE ~(st /\ t = "c2h")
  <2>1. p2 = one
    BY <1>5, Zenon
  <2> QED
    BY <1>2, <1>5, <2>1, OneTally, Zenon
<1> QED
  BY <1>4, <1>5, Zenon

LEMMA CountedBack ==
  ASSUME NEW p, PoolShape(p), AllDevices(p), p.active \in Nat, NEW f \in DOMAIN p.dev, NEW t \in QType,
         NEW p2, CountedRight(p, p2, f, t, p.dev[f].active[t] - 1, p.active - 1)
  PROVE  CountedRight(p2, p, f, t, p2.dev[f].active[t] + 1, p2.active + 1)
<1>1. p2.dev[f].active[t] + 1 = p.dev[f].active[t] /\ p2.active + 1 = p.active
  <2>1. p.dev[f].active[t] \in Nat
    BY DeviceIs, Zenon DEF AllDevices
  <2>2. p2.dev[f].active[t] = p.dev[f].active[t] - 1 /\ p2.active = p.active - 1
    BY Zenon DEF CountedRight
  <2>3. \A m \in Nat : (m - 1) + 1 = m
    OBVIOUS
  <2> QED
    BY <2>1, <2>2, <2>3, Zenon
<1>2. \A g \in DOMAIN p2.dev : p.dev[g] \in Device /\ p.dev[g].entry = p2.dev[g].entry
  BY Zenon DEF CountedRight, AllDevices
<1>3. \A g \in DOMAIN p2.dev : g # f => p.dev[g] = p2.dev[g]
  BY Zenon DEF CountedRight
<1>4. \A u \in QType : u # t => p.dev[f].active[u] = p2.dev[f].active[u]
  BY Zenon DEF CountedRight
<1>5. p.free = p2.free /\ DOMAIN p.dev = DOMAIN p2.dev
  BY Zenon DEF CountedRight
<1> QED
  BY <1>1, <1>2, <1>3, <1>4, <1>5, Zenon DEF CountedRight

LEMMA TallyDown ==
  ASSUME NEW p, PoolShape(p), AllDevices(p), p.active \in Nat, p.active < CountModulus,
         NEW f \in DOMAIN p.dev, NEW q, q.q_type \in QType, q.st \in BOOLEAN,
         \A u \in QType : CountsAs(u, q.q_type, q.st) => p.dev[f].active[u] # 0,
         Places(q.q_type, q.st) <= p.active,
         NEW p2, p2 = Uncounted(p, f, q)
  PROVE  TallyRight(p2, p, f, q.q_type, q.st) /\ p2.active \in Nat
<1>1. PICK t, st : t = q.q_type /\ st = q.st
  OBVIOUS
<1>2. PICK one : one = DecrementActiveQueue(p, f, t)
  OBVIOUS
<1>3. p2 = IF st /\ t = "c2h" THEN DecrementActiveQueue(one, f, "cmpt") ELSE one
  BY <1>1, <1>2, Zenon DEF Uncounted
<1>4. t \in QType /\ st \in BOOLEAN
  BY <1>1, Zenon
<1>5. p.active >= 1 /\ (t = "c2h" /\ st => p.active >= 2)
  <2>1. Places(t, st) <= p.active
    BY <1>1, Zenon
  <2>2. CASE t = "c2h" /\ st
    <3>1. Places(t, st) = 2
      BY <2>2, Zenon DEF Places
    <3> QED
      BY <2>1, <3>1
  <2>3. CASE ~(t = "c2h" /\ st)
    <3>1. Places(t, st) = 1
      BY <2>3, Zenon DEF Places
    <3>2. 1 <= p.active
      BY <2>1, <3>1, Zenon
    <3>3. p.active >= 1
      BY <3>2
    <3> QED
      BY <2>3, <3>3, Zenon
  <2> QED
    BY <2>2, <2>3, Zenon
<1>6. (p.active - 1) % CountModulus = p.active - 1 /\ p.active - 1 \in Nat
  BY <1>5, NoWrap, PoolAssumption
<1>7. CountedRight(p, one, f, t, p.dev[f].active[t] - 1, p.active - 1)
  <2>1. \A g \in DOMAIN p.dev : p.dev[g] \in Device
    BY Zenon DEF AllDevices
  <2>2. p.dev[f].active[t] # 0
    BY <1>1, Zenon DEF CountsAs
  <2>3. CountedRight(p, one, f, t, p.dev[f].active[t] - 1, (p.active - 1) % CountModulus)
    BY <1>2, <1>4, <2>1, <2>2, Decremented, Zenon
  <2> QED
    BY <1>6, <2>3, Zenon
<1>8. AllDevices(one) /\ PoolShape(one) /\ DOMAIN one.dev = DOMAIN p.dev /\ one.active = p.active - 1
  BY <1>7, CountedDevices, Zenon
<1>9. CountedRight(one, p, f, t, one.dev[f].active[t] + 1, one.active + 1)
  BY <1>4, <1>7, CountedBack, Zenon
<1>10. CASE st /\ t = "c2h"
  <2>1. p2 = DecrementActiveQueue(one, f, "cmpt")
    BY <1>3, <1>10, Zenon
  <2>2. (one.active - 1) % CountModulus = one.active - 1 /\ one.active \in Nat /\ one.active - 1 \in Nat
    <3>1. one.active - 1 \in Nat /\ one.active - 1 < CountModulus /\ one.active \in Nat
      BY <1>5, <1>8, <1>10, PoolAssumption
    <3> QED
      BY <3>1, NoWrap, PoolAssumption
  <2>3. f \in DOMAIN one.dev /\ \A g \in DOMAIN one.dev : one.dev[g] \in Device
    BY <1>8, Zenon DEF AllDevices
  <2>4. one.dev[f].active["cmpt"] # 0
    <3>1. p.dev[f].active["cmpt"] # 0
      BY <1>1, <1>10, RowIs, Zenon DEF CountsAs
    <3>2. "cmpt" # t
      BY <1>10
    <3> QED
      BY <1>7, <3>1, <3>2, RowIs, Zenon DEF CountedRight
  <2>5. CountedRight(one, p2, f, "cmpt", one.dev[f].active["cmpt"] - 1, (one.active - 1) % CountModulus)
    BY <1>8, <2>1, <2>3, <2>4, Decremented, RowIs, Zenon
  <2>6. CountedRight(one, p2, f, "cmpt", one.dev[f].active["cmpt"] - 1, one.active - 1)
    BY <2>2, <2>5, Zenon
  <2>7. CountedRight(p2, one, f, "cmpt", p2.dev[f].active["cmpt"] + 1, p2.active + 1)
    BY <1>8, <2>2, <2>3, <2>6, CountedBack, RowIs, Zenon
  <2>8. AllDevices(p2) /\ PoolShape(p2) /\ DOMAIN p2.dev = DOMAIN one.dev /\ p2.active = one.active - 1
    BY <2>6, CountedDevices, Zenon
  <2>9. p2.active \in Nat /\ f \in DOMAIN p2.dev
    BY <2>2, <2>3, <2>8, Zenon
  <2>10. CountedRight(one, p, f, "c2h", one.dev[f].active["c2h"] + 1, one.active + 1)
    BY <1>9, <1>10, Zenon
  <2>11. t = "c2h" /\ st
    BY <1>10, Zenon
  <2>12. TallyRight(p2, p, f, t, st)
    BY <2>7, <2>8, <2>9, <2>10, <2>11, TwoTally
  <2> QED
    BY <1>1, <2>9, <2>12, Zenon
<1>11. CASE ~(st /\ t = "c2h")
  <2>1. p2 = one
    BY <1>3, <1>11, Zenon
  <2>2. f \in DOMAIN one.dev /\ ~(t = "c2h" /\ st)
    BY <1>8, <1>11, Zenon
  <2>3. TallyRight(one, p, f, t, st)
    BY <1>4, <1>8, <1>9, <2>2, OneTally, Zenon
  <2>4. p2.active \in Nat
    BY <1>6, <1>8, <2>1, Zenon
  <2> QED
    BY <1>1, <2>1, <2>3, <2>4, Zenon
<1> QED
  BY <1>10, <1>11, Zenon

-----------------------------------------------------------------------------
(* A function that goes takes its queues out of the board's count. *)

(* The queues of type t of function f, among all. *)
Mine(P, f, t) == {x \in AllUsed(P, {f}) : x[2] = t}

LEMMA InMine ==
  ASSUME NEW P, NEW f, P[f].qmax \in Nat, NEW t \in QType
  PROVE  \A i : i \in UsedBy(P[f], t) => <<f, t, i>> \in Mine(P, f, t)
<1> SUFFICES ASSUME NEW i, i \in UsedBy(P[f], t)
             PROVE  <<f, t, i>> \in Mine(P, f, t)
  OBVIOUS
<1>1. <<f, t, i>> \in AllUsed(P, {f})
  <2>1. \A g \in {f} : P[g].qmax \in Nat
    BY Zenon
  <2>2. f \in {f}
    OBVIOUS
  <2> QED
    BY <2>1, <2>2, InAll
<1>2. <<f, t, i>>[2] = t
  OBVIOUS
<1> QED
  BY <1>1, <1>2, Zenon DEF Mine

LEMMA LeavingSlot ==
  ASSUME NEW f, FnInv(pf[f]), NEW t \in QType, NEW n \in Leaving(f, t)
  PROVE  /\ pf[f].descq[n].qidx \in UsedBy(pf[f], t)
         /\ n = Slot(pf[f], IF t = "cmpt" THEN "c2h" ELSE t, pf[f].descq[n].qidx)
<1> DEFINE p == pf[f]  d == p.descq[n]
<1>1. /\ p.qmax \in Nat /\ p.descq \in [0..(3 * p.qmax - 1) -> DescQueue] /\ FnRows(p)
  BY Zenon DEF FnInv, FnType
<1>2. /\ n \in 0..(2 * p.qmax - 1) /\ d.state # "disabled"
      /\ d.q_type = t \/ (t = "cmpt" /\ d.q_type = "c2h" /\ d.st)
  BY Zenon DEF Leaving
<1>3. n \in 0..(3 * p.qmax - 1)
  BY <1>1, <1>2
<1>4. d \in DescQueue
  BY <1>1, <1>3, Zenon
<1>5. d.q_type \in QType /\ d.qidx \in Nat
  BY <1>4 DEF DescQueue
<1>6. d.qidx < p.qmax /\ n = Slot(p, d.q_type, d.qidx)
  BY <1>1, <1>2, <1>3, Zenon DEF FnRows
<1>7. d.qidx \in 0..(p.qmax - 1)
  BY <1>1, <1>5, <1>6
<1>8. d.q_type # "cmpt"
  <2>1. ASSUME d.q_type = "cmpt"
        PROVE  FALSE
    <3>1. n = 2 * p.qmax + d.qidx
      BY <1>6, <2>1, RowIs, Zenon DEF Slot
    <3> QED
      <4> DEFINE a == p.qmax  b == d.qidx
      <4>1. n = 2 * a + b /\ a \in Nat /\ n \in 0..(2 * a - 1) /\ b \in Nat
        BY <1>1, <1>2, <1>5, <3>1, Zenon
      <4> HIDE DEF a, b
      <4> QED
        BY ONLY <4>1
  <2> QED
    BY <2>1, Zenon
<1>9. Here(p, d.q_type, d.qidx) /\ (d.st => Streaming(p, d.q_type, d.qidx))
  BY <1>2, <1>6, Zenon DEF Here, Streaming
<1>10. CASE d.q_type = t
  <2>1. t # "cmpt"
    BY <1>8, <1>10, Zenon
  <2>2. d.qidx \in UsedBy(p, t)
    BY <1>7, <1>9, <1>10, InUsed, Zenon
  <2> QED
    BY <1>6, <1>10, <2>1, <2>2, Zenon
<1>11. CASE t = "cmpt" /\ d.q_type = "c2h" /\ d.st
  <2>1. d.qidx \in UsedBy(p, t)
    BY <1>7, <1>9, <1>11, InUsed, Zenon
  <2> QED
    BY <1>6, <1>11, <2>1, Zenon
<1> QED
  BY <1>2, <1>10, <1>11, Zenon

LEMMA FewLeave ==
  ASSUME NEW f, FnInv(pf[f]), NEW t \in QType
  PROVE  /\ IsFiniteSet(Leaving(f, t)) /\ Cardinality(Leaving(f, t)) \in Nat
         /\ IsFiniteSet(Mine(pf, f, t)) => Cardinality(Leaving(f, t)) <= Cardinality(Mine(pf, f, t))
<1> DEFINE L == Leaving(f, t)  M == Mine(pf, f, t)
           m == [n \in L |-> <<f, t, pf[f].descq[n].qidx>>]
<1>1. pf[f].qmax \in Nat
  BY Zenon DEF FnInv, FnType
<1>2. \A n \in L : m[n] \in M
  BY <1>1, LeavingSlot, InMine, Zenon
<1>3. \A a, b \in L : m[a] = m[b] => a = b
  <2> SUFFICES ASSUME NEW a \in L, NEW b \in L, m[a] = m[b]
               PROVE  a = b
    BY Zenon
  <2>1. <<f, t, pf[f].descq[a].qidx>> = <<f, t, pf[f].descq[b].qidx>>
    BY Zenon
  <2>2. pf[f].descq[a].qidx = pf[f].descq[b].qidx
    BY <2>1
  <2>3. a = Slot(pf[f], IF t = "cmpt" THEN "c2h" ELSE t, pf[f].descq[a].qidx)
    BY LeavingSlot, Zenon
  <2>4. b = Slot(pf[f], IF t = "cmpt" THEN "c2h" ELSE t, pf[f].descq[b].qidx)
    BY LeavingSlot, Zenon
  <2> HIDE DEF L, M, m
  <2>5. Slot(pf[f], IF t = "cmpt" THEN "c2h" ELSE t, pf[f].descq[a].qidx)
         = Slot(pf[f], IF t = "cmpt" THEN "c2h" ELSE t, pf[f].descq[b].qidx)
    BY <2>2, Zenon
  <2> QED
    BY <2>3, <2>4, <2>5, Zenon
<1>4. m \in Injection(L, M)
  <2>1. m \in [L -> M]
    BY <1>2, Zenon
  <2> QED
    BY <1>3, <2>1, Zenon DEF Injection, IsInjective
<1>5. IsFiniteSet(L) /\ Cardinality(L) \in Nat
  <2> DEFINE N == 0..(2 * pf[f].qmax - 1)
  <2>1. IsFiniteSet(N)
    BY <1>1, FS_Interval
  <2>2. L \in SUBSET N
    BY Zenon DEF Leaving
  <2> HIDE DEF N, L
  <2>3. IsFiniteSet(L)
    BY <2>1, <2>2, FS_Subset
  <2> QED
    BY <2>3, FS_CardinalityType
<1> HIDE DEF L, M, m
<1>6. IsFiniteSet(M) => Cardinality(L) <= Cardinality(M)
  BY <1>4, FS_Injection
<1> QED
  BY <1>5, <1>6 DEF L, M

LEMMA TwoApart ==
  ASSUME NEW A, IsFiniteSet(A), NEW B, IsFiniteSet(B), \A x \in A : x \notin B
  PROVE  IsFiniteSet(A \cup B) /\ Cardinality(A \cup B) = Cardinality(A) + Cardinality(B)
<1>1. A \cap B = {}
  OBVIOUS
<1>2. Cardinality(A \cap B) = 0
  BY <1>1, FS_EmptySet, Zenon
<1>3. Cardinality(A) \in Nat /\ Cardinality(B) \in Nat
  BY FS_CardinalityType
<1>4. /\ IsFiniteSet(A \cup B)
      /\ Cardinality(A \cup B) = Cardinality(A) + Cardinality(B) - Cardinality(A \cap B)
  BY FS_Union, Zenon
<1>5. PICK a, b, c : /\ a = Cardinality(A) /\ b = Cardinality(B)
                     /\ c = Cardinality(A) + Cardinality(B)
  OBVIOUS
<1>6. a + b - 0 = a + b
  BY <1>3, <1>5
<1> QED
  BY <1>2, <1>4, <1>5, <1>6, Zenon

LEMMA FourApart ==
  ASSUME NEW A, IsFiniteSet(A), NEW R, NEW X, NEW Y, NEW Z,
         R \subseteq A, X \subseteq A, Y \subseteq A, Z \subseteq A,
         \A x \in X : x \notin R, \A y \in Y : y \notin R /\ y \notin X,
         \A z \in Z : z \notin R /\ z \notin X /\ z \notin Y
  PROVE  Cardinality(R) + Cardinality(X) + Cardinality(Y) + Cardinality(Z) <= Cardinality(A)
<1>1. IsFiniteSet(R) /\ IsFiniteSet(X) /\ IsFiniteSet(Y) /\ IsFiniteSet(Z)
  BY FS_Subset
<1>2. /\ IsFiniteSet(R \cup X)
      /\ Cardinality(R \cup X) = Cardinality(R) + Cardinality(X)
  <2>1. \A x \in R : x \notin X
    BY Zenon
  <2> QED
    BY <1>1, <2>1, TwoApart, Zenon
<1>3. /\ IsFiniteSet((R \cup X) \cup Y)
      /\ Cardinality((R \cup X) \cup Y) = Cardinality(R \cup X) + Cardinality(Y)
  <2>1. \A x \in R \cup X : x \notin Y
    BY Zenon
  <2> QED
    BY <1>1, <1>2, <2>1, TwoApart, Zenon
<1>4. /\ IsFiniteSet(((R \cup X) \cup Y) \cup Z)
      /\ Cardinality(((R \cup X) \cup Y) \cup Z) = Cardinality((R \cup X) \cup Y) + Cardinality(Z)
  <2>1. \A x \in (R \cup X) \cup Y : x \notin Z
    BY Zenon
  <2> QED
    BY <1>1, <1>3, <2>1, TwoApart, Zenon
<1>5. ((R \cup X) \cup Y) \cup Z \in SUBSET A
  BY Zenon
<1>6. Cardinality(((R \cup X) \cup Y) \cup Z) <= Cardinality(A)
  BY <1>5, FS_Subset
<1> QED
  BY <1>2, <1>3, <1>4, <1>6

\* What function f takes with it.
Gone(f) == Cardinality(Leaving(f, "h2c")) + Cardinality(Leaving(f, "c2h")) + Cardinality(Leaving(f, "cmpt"))

LEMMA MineIn ==
  ASSUME NEW P, NEW O, NEW f \in O, \A g \in O : P[g].qmax \in Nat, NEW t \in QType
  PROVE  /\ Mine(P, f, t) \subseteq AllUsed(P, O)
         /\ \A x \in Mine(P, f, t) : x \notin AllUsed(P, O \ {f}) /\ x[2] = t
<1> SUFFICES ASSUME NEW x \in Mine(P, f, t)
             PROVE  x \in AllUsed(P, O) /\ x \notin AllUsed(P, O \ {f}) /\ x[2] = t
  BY Zenon
<1>1. x \in AllUsed(P, {f}) /\ x[2] = t
  BY Zenon DEF Mine
<1>2. PICK g \in {f}, u \in QType, i \in Nat : x = <<g, u, i>>
  <2>1. x \in AllUsed(P, {f})
    BY <1>1, Zenon
  <2> QED
    BY <2>1, AllTriples
<1>3. g = f
  OBVIOUS
<1>4. <<f, u, i>> \in AllUsed(P, {f})
  BY <1>1, <1>2, <1>3, Zenon
<1>5. i \in UsedBy(P[f], u)
  <2>1. \A h \in {f} : P[h].qmax \in Nat
    BY Zenon
  <2> QED
    BY <1>4, <2>1, InAll, Zenon
<1>6. <<f, u, i>> \in AllUsed(P, O)
  BY <1>5, InAll, Zenon
<1>7. <<f, u, i>> \notin AllUsed(P, O \ {f})
  <2>1. \A h \in O \ {f} : P[h].qmax \in Nat
    BY Zenon
  <2>2. <<f, u, i>> \in AllUsed(P, O \ {f}) => f \in O \ {f}
    BY <2>1, InAll, Zenon
  <2> QED
    BY <2>2, Zenon
<1> QED
  BY <1>1, <1>2, <1>3, <1>6, <1>7, Zenon

LEMMA LessUsed ==
  ASSUME NEW P, NEW O, NEW f, \A g \in O : P[g].qmax \in Nat
  PROVE  AllUsed(P, O \ {f}) \subseteq AllUsed(P, O)
BY Zenon DEF AllUsed

LEMMA CloseCount ==
  ASSUME NEW O, NEW f \in O, \A g \in O : pf[g].qmax \in Nat, FnInv(pf[f]),
         IsFiniteSet(AllUsed(pf, O))
  PROVE  /\ IsFiniteSet(AllUsed(pf, O \ {f}))
         /\ \A t \in QType : Cardinality(Leaving(f, t)) \in Nat
         /\ Gone(f) \in Nat
         /\ Cardinality(AllUsed(pf, O \ {f})) + Gone(f) <= Cardinality(AllUsed(pf, O))
<1> DEFINE A == AllUsed(pf, O)  R == AllUsed(pf, O \ {f})
           X == Mine(pf, f, "h2c")  Y == Mine(pf, f, "c2h")  Z == Mine(pf, f, "cmpt")
<1>1. /\ X \subseteq A /\ \A x \in X : x \notin R /\ x[2] = "h2c"
      /\ Y \subseteq A /\ \A x \in Y : x \notin R /\ x[2] = "c2h"
      /\ Z \subseteq A /\ \A x \in Z : x \notin R /\ x[2] = "cmpt"
  <2>1. \A t \in QType : /\ Mine(pf, f, t) \subseteq A
                         /\ \A x \in Mine(pf, f, t) : x \notin R /\ x[2] = t
    BY MineIn, Zenon
  <2> QED
    BY <2>1, RowIs, Zenon
<1>2. /\ \A x \in X : x \notin R
      /\ \A y \in Y : y \notin R /\ y \notin X
      /\ \A z \in Z : z \notin R /\ z \notin X /\ z \notin Y
  <2>1. "h2c" # "c2h" /\ "h2c" # "cmpt" /\ "c2h" # "cmpt"
    OBVIOUS
  <2> HIDE DEF X, Y, Z, R, A
  <2> QED
    BY <1>1, <2>1, Zenon
<1>3. R \subseteq A
  BY LessUsed, Zenon
<1>4. Cardinality(R) + Cardinality(X) + Cardinality(Y) + Cardinality(Z) <= Cardinality(A)
  <2> HIDE DEF X, Y, Z, R, A
  <2>1. IsFiniteSet(A)
    BY DEF A
  <2> QED
    BY <1>1, <1>2, <1>3, <2>1, FourApart, Zenon
<1>5. IsFiniteSet(R) /\ IsFiniteSet(X) /\ IsFiniteSet(Y) /\ IsFiniteSet(Z)
  <2>1. \A S : S \subseteq A => IsFiniteSet(S)
    BY FS_Subset
  <2> QED
    BY <1>1, <1>3, <2>1, Zenon
<1>6. /\ Cardinality(R) \in Nat /\ Cardinality(X) \in Nat /\ Cardinality(Y) \in Nat
      /\ Cardinality(Z) \in Nat /\ Cardinality(A) \in Nat
  BY <1>5, FS_CardinalityType
<1>7. /\ Cardinality(Leaving(f, "h2c")) \in Nat /\ Cardinality(Leaving(f, "h2c")) <= Cardinality(X)
      /\ Cardinality(Leaving(f, "c2h")) \in Nat /\ Cardinality(Leaving(f, "c2h")) <= Cardinality(Y)
      /\ Cardinality(Leaving(f, "cmpt")) \in Nat /\ Cardinality(Leaving(f, "cmpt")) <= Cardinality(Z)
  BY <1>5, FewLeave, RowIs, Zenon
<1>8. \A t \in QType : Cardinality(Leaving(f, t)) \in Nat
  BY <1>7, RowIs, Zenon
<1>9. Gone(f) \in Nat /\ Cardinality(R) + Gone(f) <= Cardinality(A)
  <2> HIDE DEF X, Y, Z, R, A
  <2> QED
    BY <1>4, <1>6, <1>7 DEF Gone
<1> QED
  BY <1>5, <1>8, <1>9, Zenon

(* What is left of the pool when the queues of f are gone. *)
CleanedRight(p, p2, f, active) ==
  /\ PoolShape(p2) /\ p2.free = p.free /\ p2.active = active /\ DOMAIN p2.dev = DOMAIN p.dev
  /\ AllDevices(p2)
  /\ \A g \in DOMAIN p.dev : p2.dev[g].entry = p.dev[g].entry
  /\ \A g \in DOMAIN p.dev : g # f => p2.dev[g] = p.dev[g]
  /\ \A u \in QType : p.dev[f].active[u] = 0 => p2.dev[f].active[u] = 0

LEMMA Lowered ==
  ASSUME NEW x \in Nat, NEW y \in Nat, NEW z, z = IF x > y THEN x - y ELSE 0
  PROVE  z \in Nat /\ (x = 0 => z = 0)
OBVIOUS

LEMMA CleanedIs ==
  ASSUME NEW p, PoolShape(p), AllDevices(p), NEW f \in DOMAIN p.dev, p.active \in Nat,
         \A t \in QType : Cardinality(Leaving(f, t)) \in Nat,
         NEW p2, p2 = Cleaned(p, f)
  PROVE  CleanedRight(p, p2, f, (p.active - Gone(f)) % CountModulus)
<1>1. PICK d : d = p.dev[f]
  OBVIOUS
<1>2. PICK a : a = [t \in QType |-> IF d.active[t] > Cardinality(Leaving(f, t))
                                    THEN d.active[t] - Cardinality(Leaving(f, t)) ELSE 0]
  OBVIOUS
<1>3. PICK m : m = (p.active - Cardinality(Leaving(f, "h2c")) - Cardinality(Leaving(f, "c2h"))
                     - Cardinality(Leaving(f, "cmpt"))) % CountModulus
  OBVIOUS
<1>4. PICK p1 : p1 = [p EXCEPT !.dev[f].active = a]
  OBVIOUS
<1>5. p2 = [p1 EXCEPT !.active = m]
  BY <1>1, <1>2, <1>3, <1>4, Zenon DEF Cleaned
<1>6. m = (p.active - Gone(f)) % CountModulus
  <2>1. PICK x, y, z : /\ x = Cardinality(Leaving(f, "h2c")) /\ y = Cardinality(Leaving(f, "c2h"))
                       /\ z = Cardinality(Leaving(f, "cmpt"))
    OBVIOUS
  <2>2. x \in Nat /\ y \in Nat /\ z \in Nat
    BY <2>1, RowIs, Zenon
  <2>3. \A n \in Nat : n - x - y - z = n - (x + y + z)
    BY <2>2
  <2>4. p.active - x - y - z = p.active - (x + y + z)
    BY <2>3, Zenon
  <2> QED
    BY <1>3, <2>1, <2>4, Zenon DEF Gone
<1>7. d \in Device /\ d.active \in [QType -> Nat] /\ \A t \in QType : d.active[t] \in Nat
  BY <1>1, DeviceIs, Zenon DEF AllDevices
<1>8. \A t \in QType : a[t] \in Nat /\ (d.active[t] = 0 => a[t] = 0)
  <2> SUFFICES ASSUME NEW t \in QType
               PROVE  a[t] \in Nat /\ (d.active[t] = 0 => a[t] = 0)
    BY Zenon
  <2>1. PICK x, y : x = d.active[t] /\ y = Cardinality(Leaving(f, t))
    OBVIOUS
  <2>2. x \in Nat /\ y \in Nat
    BY <1>7, <2>1, Zenon
  <2>3. a[t] = IF x > y THEN x - y ELSE 0
    BY <1>2, <2>1, Zenon
  <2> QED
    BY <2>1, <2>2, <2>3, Lowered, Zenon
<1>9. a \in [QType -> Nat]
  <2>1. a = [t \in QType |-> a[t]]
    BY <1>2, Zenon
  <2> QED
    BY <1>8, <2>1, Zenon
<1>10. PICK d2 : d2 = [d EXCEPT !.active = a]
  OBVIOUS
<1>11. PICK dev : dev = [p.dev EXCEPT ![f] = d2]
  OBVIOUS
<1>12. p1 = [p EXCEPT !.dev = dev]
  BY <1>1, <1>4, <1>10, <1>11, Zenon
<1>13. PlSetRight(p, p1, p.free, dev, p.active)
  BY <1>12, PlSet, Zenon
<1>14. PoolShape(p1)
  BY <1>13, Zenon DEF PlSetRight
<1>15. PlSetRight(p1, p2, p1.free, p1.dev, m)
  BY <1>5, <1>14, PlSet, Zenon
<1>16. PoolShape(p2) /\ p2.free = p.free /\ p2.dev = dev /\ p2.active = m
  BY <1>13, <1>15, Zenon DEF PlSetRight
<1>17. d2 \in Device /\ d2.entry = d.entry /\ d2.active = a
  BY <1>7, <1>9, <1>10, DeviceIs, Zenon
<1>18. /\ DOMAIN dev = DOMAIN p.dev /\ dev[f] = d2
       /\ \A g \in DOMAIN p.dev : g # f => dev[g] = p.dev[g]
  BY <1>11, Zenon
<1>19. \A g \in DOMAIN p.dev : dev[g] \in Device /\ dev[g].entry = p.dev[g].entry
  BY <1>1, <1>17, <1>18, Zenon DEF AllDevices
<1>20. \A u \in QType : p.dev[f].active[u] = 0 => dev[f].active[u] = 0
  BY <1>1, <1>8, <1>17, <1>18, Zenon
<1> QED
  BY <1>6, <1>16, <1>18, <1>19, <1>20, Zenon DEF CleanedRight, AllDevices

-----------------------------------------------------------------------------
(* The invariant: p, P, m and s stand for pool, pf, fmap and stale. *)

PoolInv(p) ==
  /\ PoolShape(p) /\ AllDevices(p)
  /\ DOMAIN p.dev \subseteq Func /\ p.active \in 0..(MaxActive + 1)
  /\ Shared(p.free, p.dev)

(* What the driver keeps of a function is what the pool and the card's map say. *)
FnLinked(p, e, entry) ==
  /\ p.qmax = e.total_q
  /\ p.qmax # 0 => p.qbase = e.qbase
  /\ p.init_qrange => entry = [qbase |-> p.qbase, total_q |-> p.qmax]

FnCounted(p, d) == \A t \in QType : d.active[t] = Cardinality(UsedBy(p, t))

UsesInv(p, P) ==
  /\ IsFiniteSet(AllUsed(P, DOMAIN p.dev))
  /\ Cardinality(AllUsed(P, DOMAIN p.dev)) <= p.active

Kept(p, P, m, s) ==
  /\ PoolInv(p) /\ DOMAIN P = Func /\ DOMAIN m = Func /\ s \in BOOLEAN
  /\ s \/ Fresh(p.free, p.dev)
  /\ \A f \in Func : FnInv(P[f])
  /\ \A f \in DOMAIN p.dev : FnLinked(P[f], p.dev[f].entry, m[f]) /\ FnCounted(P[f], p.dev[f])
  /\ UsesInv(p, P)

ControlInv == Kept(pool, pf, fmap, stale)

LEMMA OneFunction ==
  ASSUME NEW p, NEW P, NEW m, NEW s, Kept(p, P, m, s), NEW f \in DOMAIN p.dev,
         NEW p2, NEW P2, NEW m2, NEW s2, PoolInv(p2), DOMAIN p2.dev = DOMAIN p.dev,
         \A g \in DOMAIN p.dev : g # f => p2.dev[g] = p.dev[g] /\ m2[g] = m[g],
         DOMAIN P2 = Func, DOMAIN m2 = Func, \A g \in Func : g # f => P2[g] = P[g],
         s2 \in BOOLEAN, s2 \/ Fresh(p2.free, p2.dev),
         FnInv(P2[f]), FnLinked(P2[f], p2.dev[f].entry, m2[f]), FnCounted(P2[f], p2.dev[f]),
         UsesInv(p2, P2)
  PROVE  Kept(p2, P2, m2, s2)
<1>1. \A g \in Func : FnInv(P2[g])
  BY Zenon DEF Kept
<1>2. DOMAIN p.dev \subseteq Func
  BY Zenon DEF Kept, PoolInv
<1>3. ASSUME NEW g \in DOMAIN p2.dev
      PROVE  FnLinked(P2[g], p2.dev[g].entry, m2[g]) /\ FnCounted(P2[g], p2.dev[g])
  <2>1. CASE g = f
    BY <2>1, Zenon
  <2>2. CASE g # f
    <3>1. p2.dev[g] = p.dev[g] /\ m2[g] = m[g] /\ P2[g] = P[g]
      BY <1>2, <2>2, Zenon
    <3>2. FnLinked(P[g], p.dev[g].entry, m[g]) /\ FnCounted(P[g], p.dev[g])
      BY Zenon DEF Kept
    <3> QED
      BY <3>1, <3>2, Zenon
  <2> QED
    BY <2>1, <2>2, Zenon
<1> QED
  BY <1>1, <1>3, Zenon DEF Kept

UsesAlike(P, O, P2, O2) ==
  /\ \A g \in O : P[g].qmax \in Nat
  /\ \A g \in O2 : P2[g].qmax \in Nat
  /\ \A g, i : \A u \in QType :
       g \in O2 /\ i \in UsedBy(P2[g], u) <=> g \in O /\ i \in UsedBy(P[g], u)

LEMMA UsesSame ==
  ASSUME NEW P, NEW O, NEW P2, NEW O2, UsesAlike(P, O, P2, O2)
  PROVE  AllUsed(P2, O2) = AllUsed(P, O)
<1>3. /\ \A g \in O : P[g].qmax \in Nat
      /\ \A g \in O2 : P2[g].qmax \in Nat
      /\ \A g, i : \A u \in QType :
           g \in O2 /\ i \in UsedBy(P2[g], u) <=> g \in O /\ i \in UsedBy(P[g], u)
  BY Zenon DEF UsesAlike
<1>1. ASSUME NEW x \in AllUsed(P2, O2)
      PROVE  x \in AllUsed(P, O)
  <2>1. PICK g \in O2, u \in QType, i \in Nat : x = <<g, u, i>>
    BY <1>1, AllTriples
  <2>2. g \in O2 /\ u \in QType /\ i \in UsedBy(P2[g], u)
    BY <1>1, <1>3, <2>1, InAll, Zenon
  <2>3. g \in O /\ i \in UsedBy(P[g], u)
    BY <1>3, <2>2, Zenon
  <2> QED
    BY <1>3, <2>1, <2>2, <2>3, InAll, Zenon
<1>2. ASSUME NEW x \in AllUsed(P, O)
      PROVE  x \in AllUsed(P2, O2)
  <2>1. PICK g \in O, u \in QType, i \in Nat : x = <<g, u, i>>
    BY <1>2, AllTriples
  <2>2. g \in O /\ u \in QType /\ i \in UsedBy(P[g], u)
    BY <1>2, <1>3, <2>1, InAll, Zenon
  <2>3. g \in O2 /\ i \in UsedBy(P2[g], u)
    BY <1>3, <2>2, Zenon
  <2> QED
    BY <1>3, <2>1, <2>2, <2>3, InAll, Zenon
<1> QED
  BY <1>1, <1>2, Zenon

LEMMA QmaxIs ==
  ASSUME NEW p, NEW P, NEW m, NEW s, Kept(p, P, m, s)
  PROVE  \A g \in DOMAIN p.dev : g \in Func /\ P[g].qmax \in Nat
BY Zenon DEF Kept, PoolInv, FnInv, FnType

LEMMA ClosedIs ==
  FnInv(Closed) /\ Closed.qmax = 0 /\ \A t : UsedBy(Closed, t) = {}
<1>1. PICK no : no = FALSE
  OBVIOUS
<1>2. Closed = Fn(0, -1, <<>>, no, 0, 0, <<>>, <<>>)
  BY <1>1, Zenon DEF Closed, Fn
<1>3. /\ FnShape(Closed)
      /\ Closed.qmax = 0 /\ Closed.descq = <<>> /\ Closed.init_qrange = no /\ Closed.qdata = <<>>
  BY <1>2, FnMade
<1>4. \A n : n \notin 0..(3 * Closed.qmax - 1) /\ n \notin 0..(Closed.qmax - 1)
  <2>1. PICK k : k = Closed.qmax
    OBVIOUS
  <2>2. k = 0
    BY <1>3, <2>1, Zenon
  <2>3. \A n : n \notin 0..(3 * k - 1) /\ n \notin 0..(k - 1)
    BY <2>2
  <2> QED
    BY <2>1, <2>3, Zenon
<1>5. \A S : <<>> \in [0..(3 * Closed.qmax - 1) -> S]
  <2>1. \A T, S : T = {} => <<>> \in [T -> S]
    OBVIOUS
  <2>2. 0..(3 * Closed.qmax - 1) = {}
    BY <1>4, Zenon
  <2> QED
    BY <2>1, <2>2, Zenon
<1>6. FnType(Closed)
  <2>1. 0 \in Nat
    OBVIOUS
  <2> QED
    BY <1>1, <1>3, <1>5, <2>1, Zenon DEF FnType
<1>7. FnRows(Closed) /\ FnRings(Closed) /\ FnHandles(Closed)
  BY <1>4, Zenon DEF FnRows, FnRings, FnHandles
<1>8. \A t, i : i \notin UsedBy(Closed, t)
  BY <1>4, InUsed, Zenon
<1>9. \A t : UsedBy(Closed, t) = {}
  BY <1>8, Zenon
<1> QED
  BY <1>3, <1>6, <1>7, <1>9, Zenon DEF FnInv

-----------------------------------------------------------------------------
(* The steps. *)

LEMMA NoUses ==
  ASSUME NEW p, NEW P, DOMAIN p.dev = {}, p.active \in Nat
  PROVE  UsesInv(p, P)
<1>1. AllUsed(P, {}) = {}
  BY Zenon DEF AllUsed
<1>2. IsFiniteSet({}) /\ Cardinality({}) = 0
  BY FS_EmptySet, Zenon
<1>3. 0 <= p.active
  OBVIOUS
<1> QED
  BY <1>1, <1>2, <1>3, Zenon DEF UsesInv

LEMMA MasterIs ==
  ASSUME MaxActive \in Nat
  PROVE  /\ PoolInv(MasterCreate) /\ DOMAIN MasterCreate.dev = {} /\ MasterCreate.active = 0
         /\ Fresh(MasterCreate.free, MasterCreate.dev)
         /\ \A P : UsesInv(MasterCreate, P)
<1>1. PICK a : a = <<[qbase |-> 0, total_q |-> TotalQ]>>
  OBVIOUS
<1>2. MasterCreate = Pl(a, <<>>, 0)
  BY <1>1, Zenon DEF MasterCreate, Pl
<1>3. /\ PoolShape(MasterCreate) /\ MasterCreate.free = a
      /\ MasterCreate.dev = <<>> /\ MasterCreate.active = 0
  <2>1. PICK b, c : b = <<>> /\ c = 0
    OBVIOUS
  <2>2. MasterCreate = Pl(a, b, c)
    BY <1>2, <2>1, Zenon
  <2> QED
    BY <2>1, <2>2, PlMade
<1>4. DOMAIN MasterCreate.dev = {}
  <2>1. DOMAIN <<>> = {}
    OBVIOUS
  <2> QED
    BY <1>3, <2>1, Zenon
<1>5. Shared(MasterCreate.free, MasterCreate.dev) /\ Fresh(MasterCreate.free, MasterCreate.dev)
  BY <1>4, SharedAtFirst, Zenon
<1>6. 0 \in 0..(MaxActive + 1) /\ 0 \in Nat
  OBVIOUS
<1>7. AllDevices(MasterCreate) /\ DOMAIN MasterCreate.dev \subseteq Func
  BY <1>4, Zenon DEF AllDevices
<1>8. PoolInv(MasterCreate)
  BY <1>3, <1>5, <1>6, <1>7, Zenon DEF PoolInv
<1>9. \A P : UsesInv(MasterCreate, P)
  BY <1>3, <1>4, <1>6, NoUses, Zenon
<1> QED
  BY <1>3, <1>4, <1>5, <1>8, <1>9, Zenon

LEMMA ControlAtFirst ==
  ASSUME MaxActive \in Nat, ControlInit
  PROVE  ControlInv
<1>1. /\ pool = MasterCreate /\ DOMAIN pf = Func /\ DOMAIN fmap = Func
      /\ stale \in BOOLEAN /\ \A f \in Func : pf[f] = Closed
  BY Zenon DEF ControlInit
<1>2. /\ PoolInv(pool) /\ DOMAIN pool.dev = {} /\ Fresh(pool.free, pool.dev) /\ UsesInv(pool, pf)
  BY <1>1, MasterIs, Zenon
<1>3. \A f \in Func : FnInv(pf[f])
  BY <1>1, ClosedIs, Zenon
<1> QED
  BY <1>1, <1>2, <1>3, Zenon DEF ControlInv, Kept

\* The next step's names.
Steps(p2, P2, m2, s2) == pool' = p2 /\ pf' = P2 /\ fmap' = m2 /\ stale' = s2

LEMMA StepsTo ==
  ASSUME NEW p2, NEW P2, NEW m2, NEW s2, Steps(p2, P2, m2, s2), Kept(p2, P2, m2, s2)
  PROVE  ControlInv'
<1>1. ControlInv' <=> Kept(pool', pf', fmap', stale')
  BY Zenon DEF ControlInv
<1> QED
  BY <1>1, Zenon DEF Steps

LEMMA OpenKeeps ==
  ASSUME ControlInv, NEW f \in Func, DeviceOpen(f)
  PROVE  ControlInv'
<1>1. PICK p2 : p2 = DevUpdate(DevEntryCreate(pool, f), f, 0, -1).pool
  OBVIOUS
<1>2. PICK P2 : P2 = [pf EXCEPT ![f] = Configured(p2.dev[f].entry, Closed)]
  OBVIOUS
<1>3. f \notin DOMAIN pool.dev /\ Steps(p2, P2, fmap, stale)
  BY <1>1, <1>2, Zenon DEF DeviceOpen, Steps, Opened
<1>4. PICK p, P, m, s : p = pool /\ P = pf /\ m = fmap /\ s = stale
  OBVIOUS
<1>5. Kept(p, P, m, s)
  BY <1>4, Zenon DEF ControlInv
<1>6. PoolInv(p) /\ DOMAIN P = Func /\ DOMAIN m = Func /\ s \in BOOLEAN /\ UsesInv(p, P)
  BY <1>5, Zenon DEF Kept
<1>7. PoolShape(p) /\ AllDevices(p) /\ Shared(p.free, p.dev) /\ DOMAIN p.dev \subseteq Func
  BY <1>6, Zenon DEF PoolInv
<1>8. KnownRight(p, p2, f)
  BY <1>1, <1>3, <1>4, <1>7, OpenedIs, Zenon
<1>9. /\ DOMAIN p2.dev = DOMAIN p.dev \cup {f} /\ p2.dev[f].entry = NoQueues
      /\ p2.free = p.free /\ p2.active = p.active
      /\ \A g \in DOMAIN p.dev : p2.dev[g] = p.dev[g] /\ g # f
  BY <1>3, <1>4, <1>8, Zenon DEF KnownRight
<1>10. \A g \in DOMAIN p.dev : p2.dev[g].entry = p.dev[g].entry
  BY <1>9, Zenon
<1>11. f \notin DOMAIN p.dev
  BY <1>9, Zenon
<1>12. /\ Shared(p.free, p.dev) => Shared(p.free, p2.dev)
       /\ Fresh(p.free, p.dev) => Fresh(p.free, p2.dev)
  BY <1>9, <1>10, <1>11, SharedNew
<1>13. Shared(p2.free, p2.dev) /\ (s \/ Fresh(p2.free, p2.dev))
  BY <1>5, <1>7, <1>9, <1>12, Zenon DEF Kept
<1>14. PoolInv(p2)
  BY <1>6, <1>8, <1>9, <1>13, Zenon DEF PoolInv, KnownRight
<1>15. DOMAIN P2 = Func /\ P2[f] = Configured(NoQueues, Closed) /\ \A g \in Func : g # f => P2[g] = P[g]
  BY <1>2, <1>4, <1>6, <1>9, Zenon
<1>16. NoQueues.total_q = 0 /\ NoQueues.total_q \in Nat
  BY NoQueuesIs
<1>17. ConfiguredRight(NoQueues, Closed, P2[f])
  BY <1>15, <1>16, ConfiguredIs, Zenon
<1>18. FnInv(P2[f]) /\ P2[f].qmax = 0 /\ P2[f].qmax \in Nat /\ \A u \in QType : UsedBy(P2[f], u) = {}
  BY <1>16, <1>17, Zenon DEF ConfiguredRight
<1>19. FnLinked(P2[f], p2.dev[f].entry, m[f])
  <2>1. P2[f].init_qrange = FALSE
    BY <1>17, Zenon DEF ConfiguredRight
  <2>2. ~P2[f].init_qrange
    BY <2>1, Zenon
  <2> QED
    BY <1>9, <1>16, <1>18, <2>2, Zenon DEF FnLinked
<1>20. FnCounted(P2[f], p2.dev[f])
  <2>1. Cardinality({}) = 0
    BY FS_EmptySet, Zenon
  <2>2. \A t \in QType : p2.dev[f].active[t] = 0
    BY <1>8, Zenon DEF KnownRight
  <2> QED
    BY <1>18, <2>1, <2>2, Zenon DEF FnCounted
<1>21. \A g \in Func : FnInv(P2[g])
  BY <1>5, <1>15, <1>18, Zenon DEF Kept
<1>22. \A g \in DOMAIN p2.dev : FnLinked(P2[g], p2.dev[g].entry, m[g]) /\ FnCounted(P2[g], p2.dev[g])
  <2> SUFFICES ASSUME NEW g \in DOMAIN p2.dev
               PROVE  FnLinked(P2[g], p2.dev[g].entry, m[g]) /\ FnCounted(P2[g], p2.dev[g])
    BY Zenon
  <2>1. CASE g = f
    BY <2>1, <1>19, <1>20, Zenon
  <2>2. CASE g # f
    <3>1. g \in DOMAIN p.dev
      BY <2>2, <1>9, Zenon
    <3>2. p2.dev[g] = p.dev[g] /\ P2[g] = P[g]
      BY <3>1, <2>2, <1>7, <1>9, <1>15, Zenon
    <3>3. FnLinked(P[g], p.dev[g].entry, m[g]) /\ FnCounted(P[g], p.dev[g])
      BY <3>1, <1>5, Zenon DEF Kept
    <3> QED
      BY <3>2, <3>3, Zenon
  <2> QED
    BY <2>1, <2>2, Zenon
<1>23. AllUsed(P2, DOMAIN p2.dev) = AllUsed(P, DOMAIN p.dev)
  <2>1. \A g \in DOMAIN p.dev : g \in Func /\ P[g].qmax \in Nat
    BY <1>5, QmaxIs, Zenon
  <2>2. \A g \in DOMAIN p2.dev : P2[g].qmax \in Nat
    BY <1>9, <1>15, <1>18, <2>1, Zenon
  <2>3. \A g, i : \A u \in QType :
          g \in DOMAIN p2.dev /\ i \in UsedBy(P2[g], u) <=> g \in DOMAIN p.dev /\ i \in UsedBy(P[g], u)
    <3> SUFFICES ASSUME NEW g, NEW i, NEW u \in QType
                 PROVE  g \in DOMAIN p2.dev /\ i \in UsedBy(P2[g], u) <=>
                          g \in DOMAIN p.dev /\ i \in UsedBy(P[g], u)
      BY Zenon
    <3>1. CASE g = f
      BY <3>1, <1>9, <1>11, <1>18, Zenon
    <3>2. CASE g # f
      <4>1. g \in DOMAIN p2.dev <=> g \in DOMAIN p.dev
        BY <3>2, <1>9, Zenon
      <4>2. g \in DOMAIN p.dev => P2[g] = P[g]
        BY <3>2, <2>1, <1>15, Zenon
      <4> QED
        BY <4>1, <4>2, Zenon
    <3> QED
      BY <3>1, <3>2, Zenon
  <2>4. \A g \in DOMAIN p.dev : P[g].qmax \in Nat
    BY <2>1, Zenon
  <2>5. UsesAlike(P, DOMAIN p.dev, P2, DOMAIN p2.dev)
    BY <2>2, <2>3, <2>4, Zenon DEF UsesAlike
  <2> QED
    BY ONLY <2>5, UsesSame
<1>24. UsesInv(p2, P2)
  BY <1>6, <1>9, <1>23, Zenon DEF UsesInv
<1>25. Kept(p2, P2, m, s)
  BY <1>6, <1>13, <1>14, <1>15, <1>21, <1>22, <1>24, Zenon DEF Kept
<1> QED
  BY <1>3, <1>4, <1>25, StepsTo, Zenon

SameLink(p, x) == x.qmax = p.qmax /\ x.qbase = p.qbase /\ x.init_qrange = p.init_qrange

(* A step of one function that leaves the queues in use as they are. *)
LEMMA QuietKeeps ==
  ASSUME NEW p, NEW P, NEW m, NEW s, Kept(p, P, m, s), NEW f \in DOMAIN p.dev,
         NEW x, FnInv(x), SameLink(P[f], x), \A u \in QType : UsedBy(x, u) = UsedBy(P[f], u),
         NEW P2, P2 = [P EXCEPT ![f] = x]
  PROVE  Kept(p, P2, m, s)
<1>1. /\ PoolInv(p) /\ DOMAIN P = Func /\ DOMAIN m = Func /\ s \in BOOLEAN
      /\ s \/ Fresh(p.free, p.dev)
      /\ FnLinked(P[f], p.dev[f].entry, m[f]) /\ FnCounted(P[f], p.dev[f]) /\ UsesInv(p, P)
  BY Zenon DEF Kept
<1>2. f \in Func
  BY QmaxIs, Zenon
<1>3. DOMAIN P2 = Func /\ P2[f] = x /\ \A g \in Func : g # f => P2[g] = P[g]
  BY <1>1, <1>2, Zenon
<1>4. FnLinked(x, p.dev[f].entry, m[f])
  BY <1>1, Zenon DEF FnLinked, SameLink
<1>5. FnCounted(x, p.dev[f])
  BY <1>1, Zenon DEF FnCounted
<1>6. AllUsed(P2, DOMAIN p.dev) = AllUsed(P, DOMAIN p.dev)
  <2>1. \A g \in DOMAIN p.dev : g \in Func /\ P[g].qmax \in Nat
    BY QmaxIs
  <2>2. \A g \in DOMAIN p.dev : P2[g].qmax \in Nat
    BY <1>3, <2>1, Zenon DEF SameLink
  <2>3. \A g, i : \A u \in QType :
          g \in DOMAIN p.dev /\ i \in UsedBy(P2[g], u) <=> g \in DOMAIN p.dev /\ i \in UsedBy(P[g], u)
    BY <1>3, <2>1, Zenon
  <2>4. \A g \in DOMAIN p.dev : P[g].qmax \in Nat
    BY <2>1, Zenon
  <2>5. UsesAlike(P, DOMAIN p.dev, P2, DOMAIN p.dev)
    BY <2>2, <2>3, <2>4, Zenon DEF UsesAlike
  <2> QED
    BY ONLY <2>5, UsesSame
<1>7. UsesInv(p, P2)
  BY <1>1, <1>6, Zenon DEF UsesInv
<1>8. \A g \in DOMAIN p.dev : g # f => p.dev[g] = p.dev[g] /\ m[g] = m[g]
  OBVIOUS
<1>9. /\ FnInv(P2[f]) /\ FnLinked(P2[f], p.dev[f].entry, m[f]) /\ FnCounted(P2[f], p.dev[f])
  BY <1>3, <1>4, <1>5, Zenon
<1> QED
  BY <1>1, <1>3, <1>7, <1>8, <1>9, OneFunction

RngszRight(p, x) ==
  FnInv(x) /\ SameLink(p, x) /\ \A u \in QType : UsedBy(x, u) = UsedBy(p, u)

LEMMA RngszIs ==
  ASSUME NEW p, FnInv(p), NEW n, NEW x, x = [p EXCEPT !.rngsz = n]
  PROVE  RngszRight(p, x)
<1>1. FnType(p) /\ FnRows(p) /\ FnRings(p) /\ FnHandles(p) /\ FnShape(p)
  BY Zenon DEF FnInv, FnType
<1>2. RngszSet(p, x, n)
  BY <1>1, SetRngsz, Zenon
<1>3. /\ x.qmax = p.qmax /\ x.descq = p.descq /\ x.qdata = p.qdata
  BY <1>2, Zenon DEF RngszSet
<1>4. \A t, i : Slot(x, t, i) = Slot(p, t, i)
  BY <1>3, Zenon DEF Slot
<1>5. SameQueues(p, x)
  BY <1>3, <1>4, Zenon DEF SameQueues, Here, Streaming
<1>6. FnType(x)
  BY <1>1, <1>2, Zenon DEF FnType, RngszSet
<1>7. FnRows(x)
  <2>1. 0..(3 * x.qmax - 1) = 0..(3 * p.qmax - 1)
    BY <1>3, Zenon
  <2>2. p.init_qrange <=> x.init_qrange
    BY <1>2, Zenon DEF RngszSet
  <2>3. ASSUME NEW k \in 0..(3 * p.qmax - 1), x.descq[k].state # "disabled"
        PROVE  /\ x.descq[k].qidx < x.qmax
               /\ k = Slot(x, x.descq[k].q_type, x.descq[k].qidx)
               /\ x.init_qrange
    <3>1. /\ p.descq[k].qidx < p.qmax
          /\ k = Slot(p, p.descq[k].q_type, p.descq[k].qidx)
          /\ p.init_qrange
      BY <1>1, <1>3, <2>3, Zenon DEF FnRows
    <3> QED
      BY <1>3, <1>4, <2>2, <3>1, ZenonT(60)
  <2> QED
    BY <2>1, <2>3, Zenon DEF FnRows
<1>8. SameLink(p, x)
  BY <1>2, Zenon DEF SameLink, RngszSet
<1> QED
  BY <1>1, <1>3, <1>5, <1>6, <1>7, <1>8, SameRings, SameUses, SameHandles, Zenon DEF RngszRight, FnInv

LEMMA RngszKeeps ==
  ASSUME ControlInv, NEW f \in Func, NEW n, SetIntrRngsz(f, n)
  PROVE  ControlInv'
<1>1. PICK p, P, m, s : p = pool /\ P = pf /\ m = fmap /\ s = stale
  OBVIOUS
<1>2. Kept(p, P, m, s)
  BY <1>1, Zenon DEF ControlInv
<1>3. PICK P2 : P2 = [P EXCEPT ![f].rngsz = n]
  OBVIOUS
<1>4. PICK x : x = [P[f] EXCEPT !.rngsz = n]
  OBVIOUS
<1>5. f \in DOMAIN p.dev /\ Steps(p, P2, m, s)
  BY <1>1, <1>3, Zenon DEF SetIntrRngsz, Steps, Opened
<1>6. P2 = [P EXCEPT ![f] = x]
  BY <1>3, <1>4, Zenon
<1>7. FnInv(P[f])
  BY <1>2, Zenon DEF Kept
<1>8. RngszRight(P[f], x)
  BY <1>4, <1>7, RngszIs, Zenon
<1>9. FnInv(x) /\ SameLink(P[f], x) /\ \A u \in QType : UsedBy(x, u) = UsedBy(P[f], u)
  BY <1>8, Zenon DEF RngszRight
<1>10. Kept(p, P2, m, s)
  BY <1>2, <1>5, <1>6, <1>9, QuietKeeps
<1> QED
  BY <1>5, <1>10, StepsTo, Zenon

LEMMA HandleIs ==
  ASSUME NEW f, FnInv(pf[f]), NEW t \in QType, NEW i \in Nat, Known(f, t, i)
  PROVE  /\ f \in DOMAIN pool.dev /\ i \in 0..(pf[f].qmax - 1)
         /\ Handle(f, t, i) = Slot(pf[f], t, i) /\ Here(pf[f], t, i)
         /\ pf[f].qdata[Slot(pf[f], t, i)] # NoData
<1>1. PICK p : p = pf[f]
  OBVIOUS
<1>2. /\ f \in DOMAIN pool.dev /\ i < p.qmax /\ p.qdata[Slot(p, t, i)] # NoData
  BY <1>1, Zenon DEF Known, Opened, Slot
<1>3. p.qmax \in Nat /\ FnHandles(p)
  BY <1>1, Zenon DEF FnInv, FnType
<1>4. i \in 0..(p.qmax - 1)
  BY <1>2, <1>3
<1>5. p.qdata[Slot(p, t, i)].qhndl = Slot(p, t, i) /\ Here(p, t, i)
  BY <1>2, <1>3, <1>4, Zenon DEF FnHandles
<1>6. Handle(f, t, i) = p.qdata[Slot(p, t, i)].qhndl
  BY <1>1, Zenon DEF Handle, Slot
<1> QED
  BY <1>1, <1>2, <1>4, <1>5, <1>6, Zenon

LEMMA MoveKeeps ==
  ASSUME ControlInv, NEW f \in Func, NEW t \in QType, NEW i \in Nat, NEW from,
         NEW to, to = "enabled" \/ to = "online", MoveQueue(f, t, i, from, to),
         UNCHANGED <<pool, fmap, stale>>
  PROVE  ControlInv'
<1>1. PICK p, P, m, s : p = pool /\ P = pf /\ m = fmap /\ s = stale
  OBVIOUS
<1>2. Kept(p, P, m, s)
  BY <1>1, Zenon DEF ControlInv
<1>3. FnInv(P[f])
  BY <1>2, Zenon DEF Kept
<1>4. PICK h : h = Handle(f, t, i)
  OBVIOUS
<1>5. Known(f, t, i) /\ pf' = [pf EXCEPT ![f].descq[h].state = to]
  BY <1>4, Zenon DEF MoveQueue
<1>6. PICK P2 : P2 = [P EXCEPT ![f].descq[h].state = to]
  OBVIOUS
<1>7. PICK v : v = [P[f].descq[h] EXCEPT !.state = to]
  OBVIOUS
<1>8. PICK x : x = [P[f] EXCEPT !.descq[h] = v]
  OBVIOUS
<1>9. P2 = [P EXCEPT ![f] = x]
  BY <1>6, <1>7, <1>8, Zenon
<1>10. Steps(p, P2, m, s)
  BY <1>1, <1>5, <1>6, Zenon DEF Steps
<1>11. /\ f \in DOMAIN p.dev /\ i \in 0..(P[f].qmax - 1) /\ h = Slot(P[f], t, i) /\ Here(P[f], t, i)
  BY <1>1, <1>3, <1>4, <1>5, HandleIs, Zenon
<1>12. P[f].descq[h].state # "disabled"
  BY <1>11, Zenon DEF Here
<1>13. FnType(P[f]) /\ P[f].qmax \in Nat /\ P[f].descq \in [0..(3 * P[f].qmax - 1) -> DescQueue]
  BY <1>3, Zenon DEF FnInv, FnType
<1>14. P[f].descq[h] \in DescQueue
  <2>1. h \in 0..(3 * P[f].qmax - 1)
    BY <1>11, <1>13, SlotIn, Zenon
  <2> QED
    BY <1>13, <2>1, Zenon
<1>15. StateOnly(P[f].descq[h], v)
  BY <1>7, <1>14, MovedState, Zenon
<1>16. DescqSet(P[f], x, [k \in 0..(3 * P[f].qmax - 1) |-> IF k = h THEN v ELSE P[f].descq[k]])
  BY <1>8, <1>13, MovedTables, ZenonT(60)
<1>17. MovedRight(P[f], x)
  BY <1>3, <1>11, <1>12, <1>15, <1>16, Moved, SMTT(60)
<1>18. FnInv(x) /\ SameLink(P[f], x) /\ \A u \in QType : UsedBy(x, u) = UsedBy(P[f], u)
  BY <1>17, Zenon DEF MovedRight, SameLink, SameBut
<1>19. Kept(p, P2, m, s)
  BY <1>2, <1>9, <1>11, <1>18, QuietKeeps
<1> QED
  BY <1>10, <1>19, StepsTo, Zenon

LEMMA IdleIs ==
  ASSUME NEW p, NEW P, NEW m, NEW s, Kept(p, P, m, s), NEW f \in DOMAIN p.dev,
         \A t \in QType : p.dev[f].active[t] = 0
  PROVE  \A t \in QType : UsedBy(P[f], t) = {}
<1> SUFFICES ASSUME NEW t \in QType
             PROVE  UsedBy(P[f], t) = {}
  OBVIOUS
<1>1. FnCounted(P[f], p.dev[f])
  BY Zenon DEF Kept
<1>2. Cardinality(UsedBy(P[f], t)) = 0
  BY <1>1, Zenon DEF FnCounted
<1>3. P[f].qmax \in Nat
  BY QmaxIs, Zenon
<1>4. IsFiniteSet(UsedBy(P[f], t))
  BY <1>3, UsedIn, Zenon
<1> QED
  BY <1>2, <1>4, FS_EmptySet, Zenon

LEMMA NothingLeaves ==
  ASSUME NEW f, FnInv(pf[f]), \A t \in QType : UsedBy(pf[f], t) = {}
  PROVE  Gone(f) = 0 /\ \A t \in QType : Cardinality(Leaving(f, t)) \in Nat
<1>1. ASSUME NEW t \in QType
      PROVE  Cardinality(Leaving(f, t)) = 0
  <2>1. \A n : n \notin Leaving(f, t)
    <3> SUFFICES ASSUME NEW n \in Leaving(f, t)
                 PROVE  FALSE
      BY Zenon
    <3>1. pf[f].descq[n].qidx \in UsedBy(pf[f], t)
      BY LeavingSlot, Zenon
    <3> QED
      BY <3>1, Zenon
  <2>2. Leaving(f, t) = {}
    BY <2>1, Zenon
  <2> QED
    BY <2>2, FS_EmptySet, Zenon
<1>2. \A t \in QType : Cardinality(Leaving(f, t)) \in Nat
  BY <1>1
<1>3. 0 + 0 + 0 = 0
  OBVIOUS
<1>4. Gone(f) = 0
  BY <1>1, <1>3, RowIs, Zenon DEF Gone
<1> QED
  BY <1>2, <1>4, Zenon

LEMMA FreshLater ==
  ASSUME NEW p2, Ordered(p2.free, 1), \A g \in DOMAIN p2.dev : Owned(p2.dev[g].entry),
         ~\E g \in DOMAIN p2.dev : p2.dev[g].entry.total_q = 0 /\ p2.dev[g].entry.qbase >= 0
  PROVE  Fresh(p2.free, p2.dev)
<1> SUFFICES ASSUME NEW g \in DOMAIN p2.dev, p2.dev[g].entry.total_q = 0
             PROVE  p2.dev[g].entry.qbase < 0
  BY Zenon DEF Fresh
<1>1. p2.dev[g].entry.qbase \in Int
  BY OwnedIs, Zenon
<1>2. ~(p2.dev[g].entry.qbase >= 0)
  BY Zenon
<1>3. \A n \in Int : ~(n >= 0) => n < 0
  OBVIOUS
<1> QED
  BY <1>1, <1>2, <1>3, Zenon

\* The pool after the range of f has been asked for.
LEMMA RefitPool ==
  ASSUME NEW p, PoolInv(p), NEW f \in DOMAIN p.dev, NEW rv, NEW p2, NEW n, RefitRight(p, rv, p2, f, n)
  PROVE  PoolInv(p2) /\ DOMAIN p2.dev = DOMAIN p.dev /\ p2.active = p.active
BY Zenon DEF PoolInv, RefitRight, UpdatedRight

LEMMA StaleIs ==
  ASSUME NEW p, NEW P, NEW m, Kept(p, P, m, stale), NEW f \in DOMAIN p.dev,
         NEW rv, NEW p2, NEW n, RefitRight(p, rv, p2, f, n), NEW p3, SameEntries(p2.dev, p3.dev),
         p3.free = p2.free, NEW s2, s2 = NowStale(p3)
  PROVE  s2 \in BOOLEAN /\ (s2 \/ Fresh(p3.free, p3.dev))
<1>1. s2 = (stale \/ \E g \in DOMAIN p3.dev : p3.dev[g].entry.total_q = 0 /\ p3.dev[g].entry.qbase >= 0)
  BY Zenon DEF NowStale
<1>2. s2 \in BOOLEAN
  BY <1>1, Zenon
<1>3. ASSUME ~s2
      PROVE  Fresh(p3.free, p3.dev)
  <2>1. ~stale /\ ~\E g \in DOMAIN p3.dev : p3.dev[g].entry.total_q = 0 /\ p3.dev[g].entry.qbase >= 0
    BY <1>1, <1>3, Zenon
  <2>2. Fresh(p.free, p.dev)
    BY <2>1, Zenon DEF Kept
  <2>3. Ordered(p2.free, 1) /\ Shared(p2.free, p2.dev)
    BY <2>2, Zenon DEF RefitRight
  <2>4. Shared(p2.free, p3.dev)
    BY <2>3, SharedSame, Zenon
  <2>5. \A g \in DOMAIN p3.dev : Owned(p3.dev[g].entry)
    BY <2>4, Zenon DEF Shared
  <2>6. Ordered(p3.free, 1)
    BY <2>3, Zenon
  <2> QED
    BY <2>1, <2>5, <2>6, FreshLater, Zenon
<1> QED
  BY <1>2, <1>3, Zenon

LEMMA RefusedKeeps ==
  ASSUME NEW p, NEW P, NEW m, Kept(p, P, m, stale), NEW f \in DOMAIN p.dev,
         NEW rv, rv # 0, NEW p2, NEW n, RefitRight(p, rv, p2, f, n), NEW s2, s2 = NowStale(p2)
  PROVE  Kept(p2, P, m, s2)
<1>1. /\ PoolInv(p) /\ DOMAIN P = Func /\ DOMAIN m = Func /\ FnInv(P[f])
      /\ FnLinked(P[f], p.dev[f].entry, m[f]) /\ FnCounted(P[f], p.dev[f]) /\ UsesInv(p, P)
  BY Zenon DEF Kept, PoolInv
<1>2. PoolInv(p2) /\ DOMAIN p2.dev = DOMAIN p.dev /\ p2.active = p.active
  BY <1>1, RefitPool
<1>3. /\ \A g \in DOMAIN p.dev : g # f => p2.dev[g] = p.dev[g]
      /\ p2.dev[f].active = p.dev[f].active
  BY Zenon DEF RefitRight, UpdatedRight
<1>4. SameEntries(p2.dev, p2.dev)
  BY Zenon DEF SameEntries
<1>5. s2 \in BOOLEAN /\ (s2 \/ Fresh(p2.free, p2.dev))
  <2>1. PICK p3 : p3 = p2
    OBVIOUS
  <2>2. SameEntries(p2.dev, p3.dev) /\ p3.free = p2.free /\ s2 = NowStale(p3)
    BY <1>4, <2>1, Zenon
  <2>3. s2 \in BOOLEAN /\ (s2 \/ Fresh(p3.free, p3.dev))
    BY <2>2, StaleIs
  <2> QED
    BY <2>1, <2>3, Zenon
<1>6. /\ p2.dev[f].entry.total_q = p.dev[f].entry.total_q
      /\ p.dev[f].entry.total_q # 0 => p2.dev[f].entry = p.dev[f].entry
  BY Zenon DEF RefitRight
<1>7. FnLinked(P[f], p2.dev[f].entry, m[f])
  BY <1>1, <1>6, Zenon DEF FnLinked
<1>8. FnCounted(P[f], p2.dev[f])
  BY <1>1, <1>3, Zenon DEF FnCounted
<1>9. UsesInv(p2, P)
  BY <1>1, <1>2, Zenon DEF UsesInv
<1>10. \A g \in DOMAIN p.dev : g # f => p2.dev[g] = p.dev[g] /\ m[g] = m[g]
  BY <1>3, Zenon
<1> QED
  BY <1>1, <1>2, <1>5, <1>7, <1>8, <1>9, <1>10, OneFunction

LEMMA GrantedKeeps ==
  ASSUME MaxActive \in Nat, MaxActive + 1 < CountModulus,
         NEW p, NEW m, Kept(p, pf, m, stale), NEW f \in DOMAIN p.dev,
         \A t \in QType : p.dev[f].active[t] = 0,
         NEW n \in Nat, NEW rv, rv = 0, NEW p1, RefitRight(p, rv, p1, f, n),
         NEW p2, p2 = Cleaned(p1, f), NEW s2, s2 = NowStale(p2),
         NEW P2, P2 = [pf EXCEPT ![f] = Configured(p1.dev[f].entry, pf[f])]
  PROVE  Kept(p2, P2, m, s2)
<1>1. /\ PoolInv(p) /\ DOMAIN pf = Func /\ DOMAIN m = Func /\ FnInv(pf[f]) /\ UsesInv(p, pf) /\ f \in Func
  BY Zenon DEF Kept, PoolInv
<1>2. PoolInv(p1) /\ DOMAIN p1.dev = DOMAIN p.dev /\ p1.active = p.active
  BY <1>1, RefitPool
<1>3. /\ PoolShape(p1) /\ AllDevices(p1) /\ Shared(p1.free, p1.dev) /\ p1.active \in 0..(MaxActive + 1)
      /\ f \in DOMAIN p1.dev
  BY <1>2, Zenon DEF PoolInv
<1>4. /\ \A g \in DOMAIN p.dev : g # f => p1.dev[g] = p.dev[g]
      /\ \A t \in QType : p1.dev[f].active[t] = 0
  BY Zenon DEF RefitRight, UpdatedRight
<1>5. \A t \in QType : UsedBy(pf[f], t) = {}
  BY IdleIs
<1>6. Gone(f) = 0 /\ \A t \in QType : Cardinality(Leaving(f, t)) \in Nat
  BY <1>1, <1>5, NothingLeaves, Zenon
<1>7. p1.active \in Nat
  BY <1>3
<1>8. CleanedRight(p1, p2, f, (p1.active - Gone(f)) % CountModulus)
  BY <1>3, <1>6, <1>7, CleanedIs
<1>9. (p1.active - Gone(f)) % CountModulus = p1.active
  <2>1. PICK a, g : a = p1.active /\ g = Gone(f)
    OBVIOUS
  <2>2. a \in 0..(MaxActive + 1) /\ g = 0
    BY <1>3, <1>6, <2>1, Zenon
  <2>3. CountModulus \in Nat /\ a - g = a /\ a \in Nat /\ a < CountModulus
    BY <2>2, PoolAssumption
  <2>4. (a - g) % CountModulus = a
    BY <2>3, NoWrap, Zenon
  <2> QED
    BY <2>1, <2>4, Zenon
<1>10. /\ PoolShape(p2) /\ p2.free = p1.free /\ p2.active = p1.active /\ DOMAIN p2.dev = DOMAIN p.dev
       /\ AllDevices(p2)
       /\ \A g \in DOMAIN p.dev : p2.dev[g].entry = p1.dev[g].entry
       /\ \A g \in DOMAIN p.dev : g # f => p2.dev[g] = p1.dev[g]
       /\ \A t \in QType : p2.dev[f].active[t] = 0
  BY <1>2, <1>4, <1>8, <1>9, Zenon DEF CleanedRight
<1>11. SameEntries(p1.dev, p2.dev)
  BY <1>2, <1>10, Zenon DEF SameEntries
<1>12. Shared(p2.free, p2.dev)
  BY <1>3, <1>10, <1>11, SharedSame, Zenon
<1>13. PoolInv(p2)
  BY <1>2, <1>10, <1>12, Zenon DEF PoolInv
<1>14. s2 \in BOOLEAN /\ (s2 \/ Fresh(p2.free, p2.dev))
  <2>1. p2.free = p1.free
    BY <1>10, Zenon
  <2> QED
    BY <1>11, <2>1, StaleIs
<1>15. PICK e : e = p1.dev[f].entry
  OBVIOUS
<1>16. e \in Entry /\ e.total_q \in Nat
  <2>1. Owned(e)
    BY <1>3, <1>15, Zenon DEF Shared
  <2> QED
    BY <2>1, OwnedIs, Zenon
<1>17. DOMAIN P2 = Func /\ P2[f] = Configured(e, pf[f]) /\ \A g \in Func : g # f => P2[g] = pf[g]
  BY <1>1, <1>15, Zenon
<1>18. ConfiguredRight(e, pf[f], P2[f])
  BY <1>16, <1>17, ConfiguredIs, Zenon
<1>19. /\ FnInv(P2[f]) /\ P2[f].qmax = e.total_q /\ P2[f].qbase = e.qbase
       /\ \A u \in QType : UsedBy(P2[f], u) = {}
  BY <1>18, Zenon DEF ConfiguredRight
<1>20. FnLinked(P2[f], p2.dev[f].entry, m[f])
  <2>1. P2[f].init_qrange = FALSE
    BY <1>18, Zenon DEF ConfiguredRight
  <2>2. ~P2[f].init_qrange
    BY <2>1, Zenon
  <2>3. p2.dev[f].entry = e
    BY <1>10, <1>15, Zenon
  <2> QED
    BY <1>19, <2>2, <2>3, Zenon DEF FnLinked
<1>21. FnCounted(P2[f], p2.dev[f])
  <2>1. Cardinality({}) = 0
    BY FS_EmptySet, Zenon
  <2> QED
    BY <1>10, <1>19, <2>1, Zenon DEF FnCounted
<1>22. UsesInv(p2, P2)
  <2>1. \A g \in DOMAIN p.dev : g \in Func /\ pf[g].qmax \in Nat
    BY QmaxIs
  <2>2. \A g \in DOMAIN p.dev : P2[g].qmax \in Nat
    BY <1>16, <1>17, <1>19, <2>1, Zenon
  <2>3. \A g, i : \A u \in QType :
          g \in DOMAIN p.dev /\ i \in UsedBy(P2[g], u) <=> g \in DOMAIN p.dev /\ i \in UsedBy(pf[g], u)
    BY <1>5, <1>17, <1>19, <2>1, Zenon
  <2>4. \A g \in DOMAIN p.dev : pf[g].qmax \in Nat
    BY <2>1, Zenon
  <2>5. UsesAlike(pf, DOMAIN p.dev, P2, DOMAIN p.dev)
    BY <2>2, <2>3, <2>4, Zenon DEF UsesAlike
  <2>6. AllUsed(P2, DOMAIN p.dev) = AllUsed(pf, DOMAIN p.dev)
    BY ONLY <2>5, UsesSame
  <2> QED
    BY <1>1, <1>2, <1>10, <2>6, Zenon DEF UsesInv
<1>23. \A g \in DOMAIN p.dev : g # f => p2.dev[g] = p.dev[g] /\ m[g] = m[g]
  BY <1>4, <1>10, Zenon
<1>24. PICK P : P = pf
  OBVIOUS
<1>25. Kept(p, P, m, stale) /\ \A g \in Func : g # f => P2[g] = P[g]
  BY <1>17, <1>24, Zenon
<1>26. /\ DOMAIN p2.dev = DOMAIN p.dev /\ DOMAIN P2 = Func /\ DOMAIN m = Func
  BY <1>1, <1>10, <1>17, Zenon
<1>27. f \in DOMAIN p.dev
  OBVIOUS
<1> QED
  BY ONLY <1>13, <1>14, <1>19, <1>20, <1>21, <1>22, <1>23, <1>25, <1>26, <1>27, OneFunction

LEMMA QmaxKeeps ==
  ASSUME MaxActive \in Nat, MaxActive + 1 < CountModulus,
         ControlInv, NEW f \in Func, NEW n \in Nat, SetQmax(f, n)
  PROVE  ControlInv'
<1>1. PICK p, m : p = pool /\ m = fmap
  OBVIOUS
<1>2. Kept(p, pf, m, stale)
  BY <1>1, Zenon DEF ControlInv
<1>3. PoolShape(p) /\ AllDevices(p) /\ Shared(p.free, p.dev)
  BY <1>2, Zenon DEF Kept, PoolInv
<1>4. PICK u : u = DevUpdate(p, f, n, -1)
  OBVIOUS
<1>5. /\ f \in DOMAIN p.dev /\ ~Active(p, f)
      /\ fmap' = m /\ stale' = NowStale(pool')
      /\ IF u.rv < 0 THEN pool' = u.pool /\ pf' = pf
         ELSE pool' = Cleaned(u.pool, f)
              /\ pf' = [pf EXCEPT ![f] = Configured(u.pool.dev[f].entry, @)]
  BY <1>1, <1>4, Zenon DEF SetQmax, Opened
<1>6. \A t \in QType : p.dev[f].active[t] = 0
  BY <1>5, Zenon DEF Active
<1>7. RefitRight(p, u.rv, u.pool, f, n)
  <2>1. -1 \in Int
    OBVIOUS
  <2> QED
    BY <1>3, <1>4, <1>5, <2>1, DevUpdateIs
<1>8. PICK rv, p1 : rv = u.rv /\ p1 = u.pool
  OBVIOUS
<1>9. RefitRight(p, rv, p1, f, n)
  BY <1>7, <1>8, Zenon
<1>10. rv = 0 \/ rv = -1
  BY <1>9, Zenon DEF RefitRight
<1>11. PICK s2 : s2 = stale'
  OBVIOUS
<1>12. CASE rv = -1
  <2>1. rv < 0 /\ rv # 0
    BY <1>12
  <2>2. pool' = p1 /\ pf' = pf
    BY <1>5, <1>8, <2>1, Zenon
  <2>3. s2 = NowStale(p1)
    BY <1>5, <1>11, <2>2, Zenon
  <2>4. Kept(p1, pf, m, s2)
    BY <1>2, <1>5, <1>9, <2>1, <2>3, RefusedKeeps
  <2>5. Steps(p1, pf, m, s2)
    BY <1>5, <1>11, <2>2, Zenon DEF Steps
  <2> QED
    BY <2>4, <2>5, StepsTo, Zenon
<1>13. CASE rv = 0
  <2>1. ~(rv < 0)
    BY <1>13
  <2>2. PICK p2 : p2 = Cleaned(p1, f)
    OBVIOUS
  <2>3. PICK P2 : P2 = [pf EXCEPT ![f] = Configured(p1.dev[f].entry, pf[f])]
    OBVIOUS
  <2>4. pool' = p2 /\ pf' = P2
    BY <1>5, <1>8, <2>1, <2>2, <2>3, Zenon
  <2>5. s2 = NowStale(p2)
    BY <1>5, <1>11, <2>4, Zenon
  <2>6. Kept(p2, P2, m, s2)
    BY <1>2, <1>5, <1>6, <1>9, <1>13, <2>2, <2>3, <2>5, GrantedKeeps
  <2>7. Steps(p2, P2, m, s2)
    BY <1>5, <1>11, <2>4, Zenon DEF Steps
  <2> QED
    BY <2>6, <2>7, StepsTo, Zenon
<1> QED
  BY <1>10, <1>12, <1>13, Zenon

LEMMA CloseKeeps ==
  ASSUME MaxActive \in Nat, MaxActive + 1 < CountModulus,
         ControlInv, NEW f \in Func, DeviceClose(f)
  PROVE  ControlInv'
<1>1. PICK p, m, s : p = pool /\ m = fmap /\ s = stale
  OBVIOUS
<1>2. Kept(p, pf, m, s)
  BY <1>1, Zenon DEF ControlInv
<1>3. PICK p1 : p1 = Cleaned(p, f)
  OBVIOUS
<1>4. PICK p2 : p2 = DevEntryDestroy(p1, f)
  OBVIOUS
<1>5. PICK p3 : p3 = MasterDestroy(p2)
  OBVIOUS
<1>6. PICK P2 : P2 = [pf EXCEPT ![f] = Closed]
  OBVIOUS
<1>7. PICK s2 : s2 = (s /\ DOMAIN p3.dev # {})
  OBVIOUS
<1>8. f \in DOMAIN p.dev /\ Steps(p3, P2, m, s2)
  BY <1>1, <1>3, <1>4, <1>5, <1>6, <1>7, Zenon DEF DeviceClose, Steps, Opened
<1>9. /\ PoolInv(p) /\ DOMAIN pf = Func /\ DOMAIN m = Func /\ FnInv(pf[f]) /\ UsesInv(p, pf)
      /\ s \in BOOLEAN /\ (s \/ Fresh(p.free, p.dev))
  BY <1>2, Zenon DEF Kept
<1>10. /\ PoolShape(p) /\ AllDevices(p) /\ Shared(p.free, p.dev) /\ p.active \in 0..(MaxActive + 1)
       /\ DOMAIN p.dev \subseteq Func
  BY <1>9, Zenon DEF PoolInv
<1>11. p.active \in Nat
  BY <1>10
<1>12. \A g \in DOMAIN p.dev : g \in Func /\ pf[g].qmax \in Nat
  BY <1>2, QmaxIs
<1>13. PICK O : O = DOMAIN p.dev
  OBVIOUS
<1>14. IsFiniteSet(AllUsed(pf, O)) /\ Cardinality(AllUsed(pf, O)) <= p.active
  BY <1>9, <1>13, Zenon DEF UsesInv
<1>15. /\ IsFiniteSet(AllUsed(pf, O \ {f}))
       /\ \A t \in QType : Cardinality(Leaving(f, t)) \in Nat
       /\ Gone(f) \in Nat
       /\ Cardinality(AllUsed(pf, O \ {f})) + Gone(f) <= Cardinality(AllUsed(pf, O))
  <2>1. f \in O /\ \A g \in O : pf[g].qmax \in Nat
    BY <1>8, <1>12, <1>13, Zenon
  <2> QED
    BY <1>9, <1>14, <2>1, CloseCount, Zenon
<1>16. CleanedRight(p, p1, f, (p.active - Gone(f)) % CountModulus)
  BY <1>3, <1>8, <1>10, <1>11, <1>15, CleanedIs
<1>17. PICK a : a = p.active - Gone(f)
  OBVIOUS
<1>18. /\ a % CountModulus = a /\ a \in 0..(MaxActive + 1)
       /\ Cardinality(AllUsed(pf, O \ {f})) <= a
  <2>1. PICK b, g, c, d : /\ b = p.active /\ g = Gone(f) /\ c = Cardinality(AllUsed(pf, O \ {f}))
                          /\ d = Cardinality(AllUsed(pf, O))
    OBVIOUS
  <2>2. c \in Nat /\ d \in Nat
    BY <1>14, <1>15, <2>1, FS_CardinalityType, Zenon
  <2>3. b \in 0..(MaxActive + 1) /\ g \in Nat /\ c + g <= d /\ d <= b /\ a = b - g
    BY <1>10, <1>14, <1>15, <1>17, <2>1, Zenon
  <2>4. a \in 0..(MaxActive + 1) /\ c <= a /\ a \in Nat /\ CountModulus \in Nat /\ a < CountModulus
    BY <2>2, <2>3, PoolAssumption
  <2> QED
    BY <2>1, <2>4, NoWrap, Zenon
<1>19. /\ PoolShape(p1) /\ p1.free = p.free /\ p1.active = a /\ DOMAIN p1.dev = O /\ AllDevices(p1)
       /\ \A g \in O : p1.dev[g].entry = p.dev[g].entry
       /\ \A g \in O : g # f => p1.dev[g] = p.dev[g]
  BY <1>13, <1>16, <1>17, <1>18, Zenon DEF CleanedRight
<1>20. SameEntries(p.dev, p1.dev)
  BY <1>13, <1>19, Zenon DEF SameEntries
<1>21. Shared(p1.free, p1.dev) /\ (s \/ Fresh(p1.free, p1.dev))
  BY <1>9, <1>10, <1>19, <1>20, SharedSame, Zenon
<1>22. ForgottenRight(p1, p2, f)
  <2>1. f \in DOMAIN p1.dev
    BY <1>8, <1>13, <1>19, Zenon
  <2> QED
    BY <1>4, <1>19, <1>21, <2>1, DestroyedIs
<1>23. /\ PoolShape(p2) /\ p2.active = a /\ DOMAIN p2.dev = O \ {f} /\ AllDevices(p2)
       /\ \A g \in O \ {f} : p2.dev[g] = p1.dev[g]
       /\ Shared(p2.free, p2.dev) /\ (s \/ Fresh(p2.free, p2.dev))
  BY <1>19, <1>21, <1>22, Zenon DEF ForgottenRight
<1>24. DOMAIN P2 = Func /\ P2[f] = Closed /\ \A g \in Func : g # f => P2[g] = pf[g]
  BY <1>6, <1>9, Zenon
<1>25. \A g \in Func : FnInv(P2[g])
  BY <1>2, <1>24, ClosedIs, Zenon DEF Kept
<1>26. CASE DOMAIN p2.dev = {}
  <2>1. p3 = MasterCreate
    BY <1>5, <1>26, Zenon DEF MasterDestroy
  <2>2. /\ PoolInv(p3) /\ DOMAIN p3.dev = {} /\ Fresh(p3.free, p3.dev) /\ UsesInv(p3, P2)
    BY <2>1, MasterIs, Zenon
  <2>3. s2 \in BOOLEAN
    BY <1>7, Zenon
  <2>4. Kept(p3, P2, m, s2)
    BY <1>9, <1>24, <1>25, <2>2, <2>3, Zenon DEF Kept
  <2> QED
    BY <1>8, <2>4, StepsTo, Zenon
<1>27. CASE DOMAIN p2.dev # {}
  <2>1. p3 = p2
    BY <1>5, <1>27, Zenon DEF MasterDestroy
  <2>2. s2 = s
    BY <1>7, <1>9, <1>27, <2>1, Zenon
  <2>3. PoolInv(p2)
    BY <1>10, <1>13, <1>18, <1>23, Zenon DEF PoolInv
  <2>4. UsesInv(p2, P2)
    <3>1. \A g \in O \ {f} : pf[g].qmax \in Nat /\ P2[g] = pf[g]
      BY <1>12, <1>13, <1>24, Zenon
    <3>2. UsesAlike(pf, O \ {f}, P2, O \ {f})
      BY <3>1, Zenon DEF UsesAlike
    <3>3. AllUsed(P2, O \ {f}) = AllUsed(pf, O \ {f})
      BY ONLY <3>2, UsesSame
    <3> QED
      BY <1>15, <1>18, <1>23, <3>3, Zenon DEF UsesInv
  <2>5. ASSUME NEW g \in DOMAIN p2.dev
        PROVE  FnLinked(P2[g], p2.dev[g].entry, m[g]) /\ FnCounted(P2[g], p2.dev[g])
    <3>1. g \in O /\ g # f /\ g \in Func
      BY <1>12, <1>13, <1>23, Zenon
    <3>2. P2[g] = pf[g] /\ p2.dev[g] = p.dev[g]
      BY <1>19, <1>23, <1>24, <3>1, Zenon
    <3>3. FnLinked(pf[g], p.dev[g].entry, m[g]) /\ FnCounted(pf[g], p.dev[g])
      BY <1>2, <1>13, <3>1, Zenon DEF Kept
    <3> QED
      BY <3>2, <3>3, Zenon
  <2>6. Kept(p2, P2, m, s)
    BY <1>9, <1>23, <1>24, <1>25, <2>3, <2>4, <2>5, Zenon DEF Kept
  <2> QED
    BY <1>8, <2>1, <2>2, <2>6, StepsTo, Zenon
<1> QED
  BY <1>26, <1>27, Zenon

(* A step of one function that adds or removes a queue. *)
LEMMA TallyKeeps ==
  ASSUME NEW p, NEW P, NEW m, NEW s, Kept(p, P, m, s), NEW f \in DOMAIN p.dev,
         NEW p2, NEW P2, NEW m2, DOMAIN p2.dev = DOMAIN p.dev,
         PoolShape(p2), AllDevices(p2), p2.free = p.free, p2.active \in 0..(MaxActive + 1),
         \A g \in DOMAIN p.dev : p2.dev[g].entry = p.dev[g].entry,
         \A g \in DOMAIN p.dev : g # f => p2.dev[g] = p.dev[g] /\ m2[g] = m[g],
         DOMAIN P2 = Func, DOMAIN m2 = Func, \A g \in Func : g # f => P2[g] = P[g],
         FnInv(P2[f]), FnLinked(P2[f], p2.dev[f].entry, m2[f]), FnCounted(P2[f], p2.dev[f]),
         UsesInv(p2, P2)
  PROVE  Kept(p2, P2, m2, s)
<1>1. PoolInv(p) /\ s \in BOOLEAN /\ (s \/ Fresh(p.free, p.dev))
  BY Zenon DEF Kept
<1>2. Shared(p.free, p.dev) /\ DOMAIN p.dev \subseteq Func
  BY <1>1, Zenon DEF PoolInv
<1>3. SameEntries(p.dev, p2.dev)
  BY Zenon DEF SameEntries
<1>4. Shared(p2.free, p2.dev) /\ (s \/ Fresh(p2.free, p2.dev))
  BY <1>1, <1>2, <1>3, SharedSame, Zenon
<1>5. PoolInv(p2)
  BY <1>2, <1>4, Zenon DEF PoolInv
<1> QED
  BY <1>1, <1>4, <1>5, OneFunction

LEMMA ThreeChanged ==
  ASSUME NEW P, NEW f \in DOMAIN P, NEW h, NEW k, NEW i, NEW t, NEW a, NEW b,
         NEW P2, P2 = [P EXCEPT ![f].descq[h] = a, ![f].qdata[k] = b, ![f].dirs[i] = @ \ {t}],
         NEW x, x = [P[f] EXCEPT !.descq[h] = a, !.qdata[k] = b, !.dirs[i] = @ \ {t}]
  PROVE  DOMAIN P2 = DOMAIN P /\ P2[f] = x /\ \A g \in DOMAIN P : g # f => P2[g] = P[g]
<1>1. PICK P1 : P1 = [P EXCEPT ![f].descq[h] = a]
  OBVIOUS
<1>2. PICK Q : Q = [P1 EXCEPT ![f].qdata[k] = b]
  OBVIOUS
<1>3. P2 = [Q EXCEPT ![f].dirs[i] = @ \ {t}]
  BY <1>1, <1>2, Zenon
<1>4. DOMAIN P1 = DOMAIN P /\ P1[f] = [P[f] EXCEPT !.descq[h] = a] /\ \A g \in DOMAIN P : g # f => P1[g] = P[g]
  BY <1>1, Zenon
<1>5. DOMAIN Q = DOMAIN P /\ Q[f] = [P1[f] EXCEPT !.qdata[k] = b] /\ \A g \in DOMAIN P : g # f => Q[g] = P[g]
  BY <1>2, <1>4, Zenon
<1>6. DOMAIN P2 = DOMAIN P /\ P2[f] = [Q[f] EXCEPT !.dirs[i] = @ \ {t}]
      /\ \A g \in DOMAIN P : g # f => P2[g] = P[g]
  BY <1>3, <1>5, Zenon
<1>7. P2[f] = x
  BY <1>4, <1>5, <1>6, Zenon
<1> QED
  BY <1>6, <1>7, Zenon

(* What qdma_queue_remove finds at the handle. *)
FoundRight(p, h, t, i) ==
  /\ p.descq[h] \in DescQueue /\ p.descq[h].st \in BOOLEAN
  /\ p.descq[h].q_type = t /\ p.descq[h].qidx = i

LEMMA FoundIs ==
  ASSUME NEW p, FnInv(p), NEW t \in QType, NEW i \in 0..(p.qmax - 1), NEW h, h = Slot(p, t, i),
         Here(p, t, i)
  PROVE  FoundRight(p, h, t, i) /\ StreamsAs(p, t, i, p.descq[h].st)
<1>1. p.qmax \in Nat /\ p.descq \in [0..(3 * p.qmax - 1) -> DescQueue] /\ FnRows(p)
  BY Zenon DEF FnInv, FnType
<1>2. h \in 0..(3 * p.qmax - 1)
  BY <1>1, SlotIn, Zenon
<1>3. PICK d : d = p.descq[h]
  OBVIOUS
<1>4. d \in DescQueue
  BY <1>1, <1>2, <1>3, Zenon
<1>5. d.q_type \in QType /\ d.qidx \in Nat /\ d.st \in BOOLEAN
  BY <1>4 DEF DescQueue
<1>6. d.state # "disabled"
  BY <1>3, Zenon DEF Here
<1>7. d.qidx < p.qmax /\ h = Slot(p, d.q_type, d.qidx)
  BY <1>1, <1>2, <1>3, <1>6, Zenon DEF FnRows
<1>8. d.qidx \in 0..(p.qmax - 1)
  BY <1>1, <1>5, <1>7
<1>9. Slot(p, d.q_type, d.qidx) = Slot(p, t, i)
  BY <1>7, Zenon
<1>10. d.q_type = t /\ d.qidx = i
  <2>1. PICK u, j : u = d.q_type /\ j = d.qidx
    OBVIOUS
  <2>2. u \in QType /\ j \in 0..(p.qmax - 1) /\ Slot(p, u, j) = Slot(p, t, i)
    BY <1>5, <1>8, <1>9, <2>1, Zenon
  <2>3. u = t /\ j = i
    BY <1>1, <2>2, SlotsApart
  <2> QED
    BY <2>1, <2>3, Zenon
<1>11. StreamsAs(p, t, i, d.st)
  BY <1>3, Zenon DEF StreamsAs, Streaming
<1> QED
  BY <1>3, <1>4, <1>5, <1>10, <1>11, Zenon DEF FoundRight

LEMMA UsesBack ==
  ASSUME NEW p, NEW p2, NEW t, NEW i, NEW st, DeletedRight(p, p2, t, i, st)
  PROVE  UsesRight(p2, p, t, i, st)
<1>1. ASSUME NEW u \in QType, CountsAs(u, t, st)
      PROVE  i \notin UsedBy(p2, u) /\ UsedBy(p, u) = UsedBy(p2, u) \cup {i}
  <2>1. i \in UsedBy(p, u) /\ UsedBy(p2, u) = UsedBy(p, u) \ {i}
    BY <1>1, Zenon DEF DeletedRight
  <2> QED
    BY <2>1
<1>2. ASSUME NEW u \in QType, ~CountsAs(u, t, st)
      PROVE  UsedBy(p, u) = UsedBy(p2, u)
  BY <1>2, Zenon DEF DeletedRight
<1> QED
  BY <1>1, <1>2, Zenon DEF UsesRight

LEMMA DeleteKeeps ==
  ASSUME MaxActive \in Nat, MaxActive + 1 < CountModulus,
         ControlInv, NEW f \in Func, NEW t \in QType, NEW i \in Nat, QueueDelete(f, t, i)
  PROVE  ControlInv'
<1>1. PICK p, P, m, s : p = pool /\ P = pf /\ m = fmap /\ s = stale
  OBVIOUS
<1>2. Kept(p, P, m, s)
  BY <1>1, Zenon DEF ControlInv
<1>3. /\ PoolInv(p) /\ DOMAIN P = Func /\ DOMAIN m = Func /\ FnInv(P[f]) /\ UsesInv(p, P)
  BY <1>2, Zenon DEF Kept
<1>4. /\ PoolShape(p) /\ AllDevices(p) /\ p.active \in 0..(MaxActive + 1)
  BY <1>3, Zenon DEF PoolInv
<1>5. PICK h : h = Slot(P[f], t, i)
  OBVIOUS
<1>6. Known(f, t, i)
  BY Zenon DEF QueueDelete
<1>7. /\ f \in DOMAIN p.dev /\ i \in 0..(P[f].qmax - 1) /\ Handle(f, t, i) = h /\ Here(P[f], t, i)
      /\ Row[t] * pf[f].qmax + i = h
  BY <1>1, <1>3, <1>5, <1>6, HandleIs, Zenon DEF Slot
<1>8. PICK q : q = P[f].descq[h]
  OBVIOUS
<1>9. PICK p2 : p2 = Uncounted(p, f, q)
  OBVIOUS
<1>10. PICK P2 : P2 = [P EXCEPT ![f].descq[h] = Disabled, ![f].qdata[h] = NoData, ![f].dirs[i] = @ \ {t}]
  OBVIOUS
<1>11. PICK x : x = [P[f] EXCEPT !.descq[h] = Disabled, !.qdata[h] = NoData, !.dirs[i] = @ \ {t}]
  OBVIOUS
<1>12. Steps(p2, P2, m, s)
  BY <1>1, <1>7, <1>8, <1>9, <1>10, Zenon DEF QueueDelete, Steps
<1>13. DOMAIN P2 = Func /\ P2[f] = x /\ \A g \in Func : g # f => P2[g] = P[g]
  BY <1>3, <1>10, <1>11, ThreeChanged, Zenon
<1>14. PICK st : st = q.st
  OBVIOUS
<1>15. q.q_type = t /\ st \in BOOLEAN /\ StreamsAs(P[f], t, i, st)
  <2>1. FoundRight(P[f], h, t, i) /\ StreamsAs(P[f], t, i, P[f].descq[h].st)
    BY ONLY <1>3, <1>5, <1>7, FoundIs
  <2> QED
    BY <1>8, <1>14, <2>1, Zenon DEF FoundRight
<1>16. DeletedTablesRight(P[f], x, h)
  BY <1>3, <1>11, DeletedTables, Zenon DEF FnInv
<1>17. DeletedRight(P[f], x, t, i, st)
  BY <1>3, <1>5, <1>7, <1>15, <1>16, Deleted
<1>18. FnInv(x) /\ SameBut(P[f], x) /\ SameInit(P[f], x)
  BY <1>17, Zenon DEF DeletedRight
<1>19. UsesRight(x, P[f], t, i, st)
  BY <1>17, UsesBack, Zenon
<1>20. \A g \in DOMAIN p.dev : g \in Func /\ P[g].qmax \in Nat
  BY <1>2, QmaxIs
<1>21. x.qmax \in Nat
  BY <1>18, Zenon DEF FnInv, FnType
<1>22. UsesCountRight(x, P[f], t, st)
  BY <1>19, <1>21, UsesCount, Zenon
<1>23. PlacesRight(AllUsed(P2, DOMAIN p.dev), AllUsed(P, DOMAIN p.dev), Places(t, st))
  <2>1. \A g \in DOMAIN p.dev : P2[g].qmax \in Nat /\ P[g].qmax \in Nat
    BY <1>13, <1>20, <1>21, Zenon
  <2>2. \A g \in DOMAIN p.dev : g # f => P[g] = P2[g]
    BY <1>13, <1>20, Zenon
  <2>3. UsesRight(P2[f], P[f], t, i, st)
    BY <1>13, <1>19, Zenon
  <2> QED
    BY <1>7, <1>15, <2>1, <2>2, <2>3, AllCount
<1>24. PICK A, A2, n : A = AllUsed(P, DOMAIN p.dev) /\ A2 = AllUsed(P2, DOMAIN p.dev) /\ n = Places(t, st)
  OBVIOUS
<1>25. /\ IsFiniteSet(A) /\ IsFiniteSet(A2) /\ Cardinality(A) = Cardinality(A2) + n
       /\ Cardinality(A) <= p.active
  BY <1>3, <1>23, <1>24, Zenon DEF PlacesRight, UsesInv
<1>26. n = 1 \/ n = 2
  BY <1>24, Zenon DEF Places
<1>27. n <= p.active /\ p.active \in Nat /\ p.active < CountModulus /\ Cardinality(A2) \in Nat
  <2>1. Cardinality(A2) \in Nat
    BY <1>25, FS_CardinalityType
  <2> QED
    BY <1>4, <1>25, <1>26, <2>1, PoolAssumption
<1>28. FnLinked(P[f], p.dev[f].entry, m[f]) /\ FnCounted(P[f], p.dev[f])
  BY <1>2, <1>7, Zenon DEF Kept
<1>29. \A u \in QType : /\ Cardinality(UsedBy(x, u)) \in Nat
                        /\ p.dev[f].active[u] = Cardinality(UsedBy(x, u)) + (IF CountsAs(u, t, st) THEN 1 ELSE 0)
  BY <1>21, <1>22, <1>28, UsedIn, Zenon DEF UsesCountRight, FnCounted
<1>30. ASSUME NEW u \in QType, CountsAs(u, t, st)
       PROVE  p.dev[f].active[u] # 0
  <2>1. PICK c : c = Cardinality(UsedBy(x, u))
    OBVIOUS
  <2>2. c \in Nat /\ p.dev[f].active[u] = c + 1
    BY <1>29, <1>30, <2>1, Zenon
  <2> QED
    BY <2>2
<1>31. TallyRight(p2, p, f, t, st) /\ p2.active \in Nat
  <2>1. q.q_type \in QType /\ q.st \in BOOLEAN
    BY <1>14, <1>15, Zenon
  <2>2. \A u \in QType : CountsAs(u, q.q_type, q.st) => p.dev[f].active[u] # 0
    BY <1>14, <1>15, <1>30, Zenon
  <2>3. Places(q.q_type, q.st) <= p.active
    BY <1>14, <1>15, <1>24, <1>27, Zenon
  <2>4. TallyRight(p2, p, f, q.q_type, q.st) /\ p2.active \in Nat
    BY <1>4, <1>7, <1>9, <1>27, <2>1, <2>2, <2>3, TallyDown
  <2> QED
    BY <1>14, <1>15, <2>4, Zenon
<1>32. /\ PoolShape(p2) /\ AllDevices(p2) /\ p2.free = p.free /\ DOMAIN p2.dev = DOMAIN p.dev
       /\ \A g \in DOMAIN p.dev : p2.dev[g].entry = p.dev[g].entry
       /\ \A g \in DOMAIN p.dev : g # f => p2.dev[g] = p.dev[g]
       /\ \A u \in QType : p.dev[f].active[u] = p2.dev[f].active[u] + (IF CountsAs(u, t, st) THEN 1 ELSE 0)
       /\ p.active = p2.active + n
  BY <1>24, <1>31, Zenon DEF TallyRight, AllDevices
<1>33. p2.active \in 0..(MaxActive + 1) /\ Cardinality(A2) <= p2.active
  BY <1>4, <1>25, <1>26, <1>27, <1>31, <1>32
<1>34. UsesInv(p2, P2)
  BY <1>24, <1>25, <1>32, <1>33, Zenon DEF UsesInv
<1>35. FnCounted(x, p2.dev[f])
  <2> SUFFICES ASSUME NEW u \in QType
               PROVE  p2.dev[f].active[u] = Cardinality(UsedBy(x, u))
    BY Zenon DEF FnCounted
  <2>1. PICK a, c, k : /\ a = p2.dev[f].active[u] /\ c = Cardinality(UsedBy(x, u))
                       /\ k = IF CountsAs(u, t, st) THEN 1 ELSE 0
    OBVIOUS
  <2>2. a + k = c + k
    BY <1>29, <1>32, <2>1, Zenon
  <2>3. k = 0 \/ k = 1
    BY <2>1, Zenon
  <2>4. a \in Nat /\ c \in Nat
    BY <1>7, <1>29, <1>32, <2>1, DeviceIs, Zenon DEF AllDevices
  <2>5. a = c
    BY <2>2, <2>3, <2>4
  <2> QED
    BY <2>1, <2>5, Zenon
<1>36. FnLinked(x, p2.dev[f].entry, m[f])
  <2>1. p2.dev[f].entry = p.dev[f].entry
    BY <1>7, <1>32, Zenon
  <2> QED
    BY <1>18, <1>28, <2>1, Zenon DEF FnLinked, SameBut, SameInit
<1>37. FnInv(P2[f]) /\ FnLinked(P2[f], p2.dev[f].entry, m[f]) /\ FnCounted(P2[f], p2.dev[f])
  BY <1>13, <1>18, <1>35, <1>36, Zenon
<1>38. \A g \in DOMAIN p.dev : g # f => p2.dev[g] = p.dev[g] /\ m[g] = m[g]
  BY <1>32, Zenon
<1>39. PoolShape(p2) /\ AllDevices(p2) /\ p2.free = p.free /\ DOMAIN p2.dev = DOMAIN p.dev
  BY <1>32, Zenon
<1>40. \A g \in DOMAIN p.dev : p2.dev[g].entry = p.dev[g].entry
  BY <1>32, Zenon
<1>41. p2.active \in 0..(MaxActive + 1)
  BY <1>33, Zenon
<1>42. f \in DOMAIN p.dev /\ DOMAIN m = Func
  BY <1>3, <1>7, Zenon
<1>43. Kept(p2, P2, m, s)
  BY ONLY <1>2, <1>13, <1>34, <1>37, <1>38, <1>39, <1>40, <1>41, <1>42, TallyKeeps
<1> QED
  BY <1>12, <1>43, StepsTo, Zenon

NewQueue(t, st, i) == [state |-> "enabled", st |-> st, q_type |-> t, qidx |-> i]
Now(p, n, v) == [p EXCEPT !.init_qrange = TRUE, !.descq = [k \in DOMAIN @ |-> IF k = n THEN v ELSE @[k]]]
Both(p, f, t, st) ==
  IF st /\ t = "c2h" THEN IncrementActiveQueue(IncrementActiveQueue(p, f, t), f, "cmpt")
  ELSE IncrementActiveQueue(p, f, t)
Fits(p, f, t, st) ==
  /\ CanIncrement(p, f, t)
  /\ st /\ t = "c2h" => CanIncrement(IncrementActiveQueue(p, f, t), f, "cmpt")

\* The step that adds queue i.
AddsTo(f, t, st, i, made) ==
  /\ pool' = IF Fits(pool, f, t, st) THEN Both(pool, f, t, st) ELSE pool
  /\ pf' = [pf EXCEPT ![f] =
              IF Fits(pool, f, t, st)
              THEN Listed(Now(pf[f], Slot(pf[f], t, i), NewQueue(t, st, i)), t, i, made)
              ELSE Now(pf[f], Slot(pf[f], t, i), NewQueue(t, st, i))]

LEMMA AddIs ==
  ASSUME NEW f, NEW t, NEW st, NEW q, q # AnyIndex, QueueAdd(f, t, st, q)
  PROVE  /\ f \in DOMAIN pool.dev /\ ~(st /\ t = "cmpt")
         /\ pool.dev[f].active[t] < pf[f].qmax /\ pool.active < MaxActive
         /\ PrepQResource(f) /\ stale' = stale
         /\ q \in 0..(pf[f].qmax - 1) /\ IsUsableQueue(f, q, t, st)
         /\ \E made \in BOOLEAN : AddsTo(f, t, st, q, made)
<1>1. /\ f \in DOMAIN pool.dev /\ ~(st /\ t = "cmpt")
      /\ pool.dev[f].active[t] < pf[f].qmax /\ pool.active < MaxActive
      /\ PrepQResource(f) /\ stale' = stale
  BY Zenon DEF QueueAdd, Opened
<1>2. \A i : /\ i \in GrantedIndex(f, t, st, q) => i = q /\ i \in 0..(pf[f].qmax - 1) /\ IsUsableQueue(f, i, t, st)
             /\ Enabled(f, t, i, q) = Slot(pf[f], t, i)
  BY Zenon DEF GrantedIndex, Enabled, Slot
<1>3. PICK i \in GrantedIndex(f, t, st, q), made \in BOOLEAN :
        /\ pool' = IF Fits(pool, f, t, st) THEN Both(pool, f, t, st) ELSE pool
        /\ pf' = [pf EXCEPT ![f] =
                    IF Fits(pool, f, t, st)
                    THEN Listed(Now(pf[f], Enabled(f, t, i, q), NewQueue(t, st, i)), t, i, made)
                    ELSE Now(pf[f], Enabled(f, t, i, q), NewQueue(t, st, i))]
  BY Zenon DEF QueueAdd, Fits, Both, Now, NewQueue
<1>4. i = q /\ Enabled(f, t, i, q) = Slot(pf[f], t, q)
  BY <1>2, Zenon
<1>5. AddsTo(f, t, st, q, made)
  BY <1>3, <1>4, Zenon DEF AddsTo
<1>6. q \in 0..(pf[f].qmax - 1) /\ IsUsableQueue(f, q, t, st)
  BY <1>2, <1>4, Zenon
<1> QED
  BY <1>1, <1>5, <1>6, Zenon

LEMMA NewIs ==
  ASSUME NEW p, FnInv(p), NEW t \in QType, NEW st \in BOOLEAN, ~(st /\ t = "cmpt"),
         NEW i \in 0..(p.qmax - 1), Usable(p, i, t, st), NEW made, NEW x,
         x = Listed(Now(p, Slot(p, t, i), NewQueue(t, st, i)), t, i, made)
  PROVE  AddedRight(p, x, t, i, st)
<1>1. PICK v : v = NewQueue(t, st, i)
  OBVIOUS
<1>2. PICK n : n = Slot(p, t, i)
  OBVIOUS
<1>3. PICK b : b = TRUE
  OBVIOUS
<1>4. PICK now : now = [p EXCEPT !.init_qrange = b,
                                 !.descq = [k \in DOMAIN @ |-> IF k = n THEN v ELSE @[k]]]
  OBVIOUS
<1>5. x = Listed(now, t, i, made)
  BY <1>1, <1>2, <1>3, <1>4, Zenon DEF Now
<1>6. FnType(p) /\ p.qmax \in Nat
  BY Zenon DEF FnInv, FnType
<1>7. i \in Nat
  BY <1>6
<1>8. /\ v \in DescQueue /\ v.state # "disabled" /\ v.q_type = t /\ v.qidx = i /\ v.st = st
  <2>1. v = [state |-> "enabled", st |-> st, q_type |-> t, qidx |-> i]
    BY <1>1, Zenon DEF NewQueue
  <2>2. t \in QType /\ st \in BOOLEAN
    OBVIOUS
  <2> QED
    BY ONLY <1>7, <2>1, <2>2, AddedQueue
<1>9. ListedRight(p, x, n, v)
  BY <1>2, <1>3, <1>4, <1>5, <1>6, AddedTables, Zenon
<1> QED
  BY <1>2, <1>8, <1>9, Added

(* The step, for the values that it leads to. *)
LEMMA AddKeeps ==
  ASSUME MaxActive \in Nat, MaxActive + 1 < CountModulus,
         ControlInv, NEW f \in Func, NEW t \in QType, NEW st \in BOOLEAN,
         NEW i, i # AnyIndex, QueueAdd(f, t, st, i)
  PROVE  ControlInv'
<1>1. PICK p, P, m, s : p = pool /\ P = pf /\ m = fmap /\ s = stale
  OBVIOUS
<1>2. Kept(p, P, m, s)
  BY <1>1, Zenon DEF ControlInv
<1>3. /\ PoolInv(p) /\ DOMAIN P = Func /\ DOMAIN m = Func /\ FnInv(P[f]) /\ UsesInv(p, P)
  BY <1>2, Zenon DEF Kept
<1>4. /\ PoolShape(p) /\ AllDevices(p) /\ p.active \in 0..(MaxActive + 1)
  BY <1>3, Zenon DEF PoolInv
<1>5. /\ f \in DOMAIN p.dev /\ ~(st /\ t = "cmpt")
      /\ p.dev[f].active[t] < P[f].qmax /\ p.active < MaxActive
      /\ PrepQResource(f) /\ stale' = s
      /\ i \in 0..(P[f].qmax - 1) /\ IsUsableQueue(f, i, t, st)
  BY <1>1, AddIs, Zenon
<1>6. PICK made \in BOOLEAN : AddsTo(f, t, st, i, made)
  BY AddIs, Zenon
<1>7. Usable(P[f], i, t, st)
  BY <1>1, <1>3, <1>5, UsableIs, Zenon DEF FnInv
<1>8. PICK x : x = Listed(Now(P[f], Slot(P[f], t, i), NewQueue(t, st, i)), t, i, made)
  OBVIOUS
<1>9. AddedRight(P[f], x, t, i, st)
  BY <1>3, <1>5, <1>7, <1>8, NewIs
<1>10. FnInv(x) /\ x.qmax = P[f].qmax /\ x.qbase = P[f].qbase /\ UsesRight(P[f], x, t, i, st)
  BY <1>9, Zenon DEF AddedRight, UsesRight
<1>11. \A g \in DOMAIN p.dev : g \in Func /\ P[g].qmax \in Nat
  BY <1>2, QmaxIs
<1>12. FnLinked(P[f], p.dev[f].entry, m[f]) /\ FnCounted(P[f], p.dev[f])
  BY <1>2, <1>5, Zenon DEF Kept
<1>13. P[f].qmax = p.dev[f].entry.total_q /\ P[f].qmax \in Nat
  BY <1>5, <1>11, <1>12, Zenon DEF FnLinked
<1>14. \A u \in QType : p.dev[f].active[u] \in Nat
  BY <1>4, <1>5, DeviceIs, Zenon DEF AllDevices
<1>15. PICK one : one = IncrementActiveQueue(p, f, t)
  OBVIOUS
<1>16. CanIncrement(p, f, t)
  <2>1. PICK a, n : a = p.dev[f].active[t] /\ n = p.dev[f].entry.total_q
    OBVIOUS
  <2>2. a < n /\ a \in Nat /\ n \in Nat
    BY <1>5, <1>13, <1>14, <2>1, Zenon
  <2>3. n > a
    BY <2>2
  <2> QED
    BY <2>1, <2>3, Zenon DEF CanIncrement
<1>17. CountedRight(p, one, f, t, p.dev[f].active[t] + 1, (p.active + 1) % CountModulus)
  <2>1. \A g \in DOMAIN p.dev : p.dev[g] \in Device
    BY <1>4, Zenon DEF AllDevices
  <2> QED
    BY <1>4, <1>5, <1>15, <1>16, <2>1, Incremented
<1>18. ASSUME st /\ t = "c2h"
       PROVE  CanIncrement(one, f, "cmpt")
  <2>1. CountsAs("cmpt", t, st) /\ "cmpt" \in QType
    BY <1>18, RowIs, Zenon DEF CountsAs
  <2>2. i \notin UsedBy(P[f], "cmpt")
    BY <1>10, <2>1, Zenon DEF UsesRight
  <2>3. Cardinality(UsedBy(P[f], "cmpt")) < P[f].qmax
    BY <1>5, <1>13, <2>2, UsedIn, Zenon
  <2>4. "cmpt" # t
    BY <1>18
  <2>5. one.dev[f].active["cmpt"] = p.dev[f].active["cmpt"] /\ one.dev[f].entry = p.dev[f].entry
    BY <1>5, <1>17, <2>1, <2>4, Zenon DEF CountedRight
  <2>6. PICK a, n : a = p.dev[f].active["cmpt"] /\ n = p.dev[f].entry.total_q
    OBVIOUS
  <2>7. a < n /\ a \in Nat /\ n \in Nat
    BY <1>12, <1>13, <1>14, <2>1, <2>3, <2>6, Zenon DEF FnCounted
  <2>8. n > a
    BY <2>7
  <2> QED
    BY <2>5, <2>6, <2>8, Zenon DEF CanIncrement
<1>19. PICK p2 : p2 = Both(p, f, t, st)
  OBVIOUS
<1>20. PICK P2 : P2 = [P EXCEPT ![f] = x]
  OBVIOUS
<1>21. pool' = p2 /\ pf' = P2
  <2>1. Fits(pool, f, t, st)
    BY <1>1, <1>15, <1>16, <1>18, Zenon DEF Fits
  <2> QED
    BY <1>1, <1>6, <1>8, <1>19, <1>20, <2>1, Zenon DEF AddsTo
<1>22. PICK m2 : m2 = fmap'
  OBVIOUS
<1>23. m2 = IF P[f].init_qrange THEN m
            ELSE [m EXCEPT ![f] = [qbase |-> P[f].qbase, total_q |-> P[f].qmax]]
  BY <1>1, <1>5, <1>22, Zenon DEF PrepQResource
<1>24. Steps(p2, P2, m2, s)
  BY <1>1, <1>5, <1>21, <1>22, Zenon DEF Steps
<1>25. DOMAIN P2 = Func /\ P2[f] = x /\ \A g \in Func : g # f => P2[g] = P[g]
  BY <1>3, <1>20, Zenon
<1>26. DOMAIN m2 = Func /\ \A g \in Func : g # f => m2[g] = m[g]
  BY <1>3, <1>23, Zenon
<1>27. m2[f] = [qbase |-> P[f].qbase, total_q |-> P[f].qmax]
  BY <1>3, <1>12, <1>23, Zenon DEF FnLinked
<1>28. TallyRight(p, p2, f, t, st)
  <2>1. p.active \in Nat /\ p.active + 2 < CountModulus
    BY <1>4, <1>5, PoolAssumption
  <2>2. p2 = IF st /\ t = "c2h" THEN IncrementActiveQueue(one, f, "cmpt") ELSE one
    BY <1>15, <1>19, Zenon DEF Both
  <2> QED
    BY <1>4, <1>5, <1>15, <1>16, <1>18, <2>1, <2>2, TallyUp
<1>29. PICK n : n = Places(t, st)
  OBVIOUS
<1>30. n = 1 \/ n = 2
  BY <1>29, Zenon DEF Places
<1>31. /\ PoolShape(p2) /\ AllDevices(p2) /\ p2.free = p.free /\ DOMAIN p2.dev = DOMAIN p.dev
       /\ \A g \in DOMAIN p.dev : p2.dev[g].entry = p.dev[g].entry
       /\ \A g \in DOMAIN p.dev : g # f => p2.dev[g] = p.dev[g]
       /\ \A u \in QType : p2.dev[f].active[u] = p.dev[f].active[u] + (IF CountsAs(u, t, st) THEN 1 ELSE 0)
       /\ p2.active = p.active + n
  BY <1>28, <1>29, Zenon DEF TallyRight, AllDevices
<1>32. PlacesRight(AllUsed(P, DOMAIN p.dev), AllUsed(P2, DOMAIN p.dev), n)
  <2>1. x.qmax \in Nat
    BY <1>10, <1>13, Zenon
  <2>2. \A g \in DOMAIN p.dev : P[g].qmax \in Nat /\ P2[g].qmax \in Nat
    BY <1>11, <1>25, <2>1, Zenon
  <2>3. \A g \in DOMAIN p.dev : g # f => P2[g] = P[g]
    BY <1>11, <1>25, Zenon
  <2>4. UsesRight(P[f], P2[f], t, i, st)
    BY <1>10, <1>25, Zenon
  <2>5. PlacesRight(AllUsed(P, DOMAIN p.dev), AllUsed(P2, DOMAIN p.dev), Places(t, st))
    BY <1>5, <2>2, <2>3, <2>4, AllCount
  <2> QED
    BY <1>29, <2>5, Zenon
<1>33. PICK A, A2 : A = AllUsed(P, DOMAIN p.dev) /\ A2 = AllUsed(P2, DOMAIN p.dev)
  OBVIOUS
<1>34. /\ IsFiniteSet(A) /\ IsFiniteSet(A2) /\ Cardinality(A2) = Cardinality(A) + n
       /\ Cardinality(A) <= p.active
  BY <1>3, <1>32, <1>33, Zenon DEF PlacesRight, UsesInv
<1>35. p2.active \in 0..(MaxActive + 1) /\ Cardinality(A2) <= p2.active
  <2>1. Cardinality(A) \in Nat
    BY <1>34, FS_CardinalityType
  <2>2. p2.active = p.active + n
    BY <1>31, Zenon
  <2> QED
    BY <1>4, <1>5, <1>30, <1>34, <2>1, <2>2
<1>36. UsesInv(p2, P2)
  BY <1>31, <1>33, <1>34, <1>35, Zenon DEF UsesInv
<1>37. FnCounted(x, p2.dev[f])
  <2>1. UsesCountRight(P[f], x, t, st)
    BY <1>10, <1>13, UsesCount, Zenon
  <2> QED
    BY <1>12, <1>31, <2>1, Zenon DEF FnCounted, UsesCountRight
<1>38. FnLinked(x, p2.dev[f].entry, m2[f])
  BY <1>5, <1>10, <1>12, <1>27, <1>31, Zenon DEF FnLinked
<1>39. FnInv(P2[f]) /\ FnLinked(P2[f], p2.dev[f].entry, m2[f]) /\ FnCounted(P2[f], p2.dev[f])
  BY <1>10, <1>25, <1>37, <1>38, Zenon
<1>40. \A g \in DOMAIN p.dev : g # f => p2.dev[g] = p.dev[g] /\ m2[g] = m[g]
  BY <1>11, <1>26, <1>31, Zenon
<1>41. PoolShape(p2) /\ AllDevices(p2) /\ p2.free = p.free /\ DOMAIN p2.dev = DOMAIN p.dev
  BY <1>31, Zenon
<1>42. \A g \in DOMAIN p.dev : p2.dev[g].entry = p.dev[g].entry
  BY <1>31, Zenon
<1>43. p2.active \in 0..(MaxActive + 1)
  BY <1>35, Zenon
<1>44. f \in DOMAIN p.dev /\ DOMAIN m2 = Func
  BY <1>5, <1>26, Zenon
<1>45. Kept(p2, P2, m2, s)
  BY ONLY <1>2, <1>25, <1>36, <1>39, <1>40, <1>41, <1>42, <1>43, <1>44, TallyKeeps
<1> QED
  BY <1>24, <1>45, StepsTo, Zenon

LEMMA StepKeeps ==
  ASSUME MaxActive \in Nat, MaxActive + 1 < CountModulus, AnyIndex \notin Requests,
         ControlInv, [ControlNext]_controlVars
  PROVE  ControlInv'
<1>1. CASE UNCHANGED controlVars
  <2>1. Steps(pool, pf, fmap, stale)
    BY <1>1, Zenon DEF controlVars, Steps
  <2>2. Kept(pool, pf, fmap, stale)
    BY Zenon DEF ControlInv
  <2> QED
    BY <2>1, <2>2, StepsTo, Zenon
<1>2. CASE ControlNext
  <2>1. PICK f \in Func :
          \/ DeviceOpen(f)
          \/ DeviceClose(f)
          \/ \E n \in QSets : SetQmax(f, n)
          \/ \E n \in RingSizes : SetIntrRngsz(f, n)
          \/ \E t \in QType, st \in BOOLEAN, q \in Requests : QueueAdd(f, t, st, q)
          \/ \E t \in QType, i \in Requests \ {AnyIndex} : QueueStart(f, t, i)
          \/ \E t \in QType, i \in Requests \ {AnyIndex} : QueueStop(f, t, i)
          \/ \E t \in QType, i \in Requests \ {AnyIndex} : QueueDelete(f, t, i)
    BY <1>2, Zenon DEF ControlNext
  <2>2. \A n \in QSets : n \in Nat
    BY ControlAssumption
  <2>3. \A i \in Requests \ {AnyIndex} : i \in Nat
    BY ControlAssumption
  <2>4. CASE DeviceOpen(f)
    BY <2>4, OpenKeeps, Zenon
  <2>5. CASE DeviceClose(f)
    BY <2>5, CloseKeeps, Zenon
  <2>6. CASE \E n \in QSets : SetQmax(f, n)
    BY <2>2, <2>6, QmaxKeeps, Zenon
  <2>7. CASE \E n \in RingSizes : SetIntrRngsz(f, n)
    BY <2>7, RngszKeeps, Zenon
  <2>8. CASE \E t \in QType, st \in BOOLEAN, q \in Requests : QueueAdd(f, t, st, q)
    <3>1. PICK t \in QType, st \in BOOLEAN, q \in Requests : QueueAdd(f, t, st, q)
      BY <2>8, Zenon
    <3>2. q # AnyIndex
      OBVIOUS
    <3> QED
      BY <3>1, <3>2, AddKeeps, Zenon
  <2>9. CASE \E t \in QType, i \in Requests \ {AnyIndex} : QueueStart(f, t, i)
    <3>1. PICK t \in QType, i \in Requests \ {AnyIndex} : QueueStart(f, t, i)
      BY <2>9, Zenon
    <3>2. MoveQueue(f, t, i, "enabled", "online") /\ UNCHANGED <<pool, fmap, stale>>
      BY <3>1, Zenon DEF QueueStart
    <3> QED
      BY <2>3, <3>2, MoveKeeps, Zenon
  <2>10. CASE \E t \in QType, i \in Requests \ {AnyIndex} : QueueStop(f, t, i)
    <3>1. PICK t \in QType, i \in Requests \ {AnyIndex} : QueueStop(f, t, i)
      BY <2>10, Zenon
    <3>2. MoveQueue(f, t, i, "online", "enabled") /\ UNCHANGED <<pool, fmap, stale>>
      BY <3>1, Zenon DEF QueueStop
    <3> QED
      BY <2>3, <3>2, MoveKeeps, Zenon
  <2>11. CASE \E t \in QType, i \in Requests \ {AnyIndex} : QueueDelete(f, t, i)
    BY <2>3, <2>11, DeleteKeeps, Zenon
  <2> QED
    BY <2>1, <2>4, <2>5, <2>6, <2>7, <2>8, <2>9, <2>10, <2>11, Zenon
<1> QED
  BY <1>1, <1>2, Zenon

(* The invariant holds in every state, whatever the functions, the numbers of queues and the
   numbers requested, as long as a request names its queue. *)
THEOREM ControlIsKept ==
  ASSUME MaxActive \in Nat, MaxActive + 1 < CountModulus, AnyIndex \notin Requests
  PROVE  ControlSpec => []ControlInv
<1>1. ControlInit => ControlInv
  BY ControlAtFirst, Zenon
<1>2. ControlInv /\ [ControlNext]_controlVars => ControlInv'
  BY StepKeeps, Zenon
<1> QED
  BY <1>1, <1>2, PTL DEF ControlSpec

-----------------------------------------------------------------------------
(* What follows of it. *)

LEMMA EntryFits ==
  ASSUME NEW free, NEW dev, Shared(free, dev), NEW f \in DOMAIN dev
  PROVE  dev[f].entry.total_q \in Nat /\ dev[f].entry.total_q <= TotalQ
<1>1. PICK e : e = dev[f].entry
  OBVIOUS
<1>2. Owned(e)
  BY <1>1, Zenon DEF Shared
<1>3. e.qbase \in Int /\ e.total_q \in Nat /\ (e.total_q # 0 => e.qbase >= 0)
  BY <1>2, OwnedIs, Zenon DEF Owned
<1>4. End(e) = e.qbase + e.total_q
  BY <1>2, OwnedIs, Zenon
<1>5. ASSUME e.total_q # 0
      PROVE  e.total_q <= TotalQ
  <2>1. PICK b, n : b = e.qbase /\ n = e.total_q
    OBVIOUS
  <2>2. b \in Nat /\ n \in Nat /\ n > 0
    BY <1>3, <1>5, <2>1
  <2>3. PICK q : q = b + n - 1
    OBVIOUS
  <2>4. q \in Nat /\ b <= q /\ q < b + n
    BY <2>2, <2>3
  <2>5. In(e, q)
    BY <1>4, <2>1, <2>4, Zenon DEF In
  <2>6. q < TotalQ
    BY <1>1, <2>4, <2>5, Zenon DEF Shared
  <2>7. n <= TotalQ
    BY <2>2, <2>3, <2>6, PoolAssumption
  <2> QED
    BY <2>1, <2>7, Zenon
<1>6. e.total_q = 0 => e.total_q <= TotalQ
  BY PoolAssumption
<1> QED
  BY <1>1, <1>3, <1>5, <1>6, Zenon

LEMMA InvType ==
  ASSUME MaxActive \in Nat, MaxActive + 1 < CountModulus, ControlInv
  PROVE  ControlTypeOK
<1>1. PICK p, P, m, s : p = pool /\ P = pf /\ m = fmap /\ s = stale
  OBVIOUS
<1>2. Kept(p, P, m, s)
  BY <1>1, Zenon DEF ControlInv
<1>3. /\ DOMAIN p.dev \subseteq Func /\ p.active \in 0..(MaxActive + 1) /\ AllDevices(p)
      /\ Shared(p.free, p.dev) /\ s \in BOOLEAN
  BY <1>2, Zenon DEF Kept, PoolInv
<1>4. p.active \in 0..(CountModulus - 1)
  BY <1>3, PoolAssumption
<1>5. ASSUME NEW f \in DOMAIN p.dev
      PROVE  p.dev[f].active \in [QType -> 0..TotalQ]
  <2>1. FnLinked(P[f], p.dev[f].entry, m[f]) /\ FnCounted(P[f], p.dev[f])
    BY <1>2, Zenon DEF Kept
  <2>2. p.dev[f].active \in [QType -> Nat]
    BY <1>3, DeviceIs, Zenon DEF AllDevices
  <2>3. P[f].qmax \in Nat /\ P[f].qmax <= TotalQ
    BY <1>3, <2>1, EntryFits, Zenon DEF FnLinked
  <2>4. ASSUME NEW t \in QType
        PROVE  p.dev[f].active[t] \in 0..TotalQ
    <3>1. PICK c, n : c = Cardinality(UsedBy(P[f], t)) /\ n = P[f].qmax
      OBVIOUS
    <3>2. c \in Nat /\ c <= n /\ n \in Nat /\ n <= TotalQ
      BY <2>3, <3>1, UsedIn, Zenon
    <3>3. c \in 0..TotalQ
      BY <3>2, PoolAssumption
    <3> QED
      BY <2>1, <3>1, <3>3, Zenon DEF FnCounted
  <2> QED
    BY <2>2, <2>4, Zenon
<1>6. \A f \in Func : DOMAIN P[f].descq = 0..(3 * P[f].qmax - 1)
  BY <1>2, Zenon DEF Kept, FnInv, FnType
<1> QED
  BY <1>1, <1>3, <1>4, <1>5, <1>6, Zenon DEF ControlTypeOK, Opened

LEMMA OneOf ==
  ASSUME NEW S, NEW x \in S, \A y \in S : y = x
  PROVE  Cardinality(S) = 1
<1>1. S = {x}
  BY Zenon
<1> QED
  BY <1>1, FS_Singleton, Zenon

LEMMA NoneOf ==
  ASSUME NEW S, \A y : y \notin S
  PROVE  Cardinality(S) = 0
<1>1. S = {}
  BY Zenon
<1> QED
  BY <1>1, FS_EmptySet, Zenon

LEMMA OneChunk ==
  ASSUME NEW s, Ordered(s, 0), NEW q \in Nat, NEW i \in 1..Len(s), NEW j \in 1..Len(s),
         In(s[i], q), In(s[j], q)
  PROVE  i = j
<1>1. s \in Seq(Chunk) /\ Len(s) \in Nat
  BY DEF Ordered
<1>2. ASSUME NEW a \in 1..Len(s), NEW b \in 1..Len(s), a < b, In(s[a], q), In(s[b], q)
      PROVE  FALSE
  <2>1. End(s[a]) + 0 <= s[b].qbase
    BY <1>2, Zenon DEF Ordered
  <2>2. PICK c, d : c = s[a] /\ d = s[b]
    OBVIOUS
  <2>3. c \in Chunk /\ d \in Chunk
    BY <1>1, <2>2
  <2>4. PICK x, y : x = End(c) /\ y = d.qbase
    OBVIOUS
  <2>5. x \in Nat /\ y \in Nat
    BY <2>3, <2>4, ChunkIs, Zenon
  <2>6. x + 0 <= y /\ q < x /\ y <= q
    BY <1>2, <2>1, <2>2, <2>4, Zenon DEF In
  <2> QED
    BY <2>5, <2>6
<1>3. i \in Nat /\ j \in Nat
  BY <1>1
<1>4. i < j \/ j < i \/ i = j
  BY <1>3
<1> QED
  BY <1>2, <1>4, Zenon

LEMMA InvPartition ==
  ASSUME ControlInv
  PROVE  Partition
<1>1. PICK free, dev : free = pool.free /\ dev = pool.dev
  OBVIOUS
<1>2. Shared(free, dev)
  BY <1>1, Zenon DEF ControlInv, Kept, PoolInv
<1> SUFFICES ASSUME NEW q \in 0..(TotalQ - 1)
             PROVE  Cardinality(Owners(q)) + Cardinality(Chunks(q)) = 1
  BY Zenon DEF Partition
<1>3. q \in Nat /\ q < TotalQ
  BY PoolAssumption
<1>4. \A f : f \in Owners(q) <=> f \in DOMAIN dev /\ In(dev[f].entry, q)
  <2>1. \A f \in DOMAIN dev : Owned(dev[f].entry)
    BY <1>2, Zenon DEF Shared
  <2>2. \A f \in DOMAIN dev : dev[f].entry.total_q = 0 => ~In(dev[f].entry, q)
    BY <1>3, <2>1, OwnedIs, Zenon
  <2> QED
    BY <1>1, <2>2, Zenon DEF Owners, IsQueueInRange, In, Opened
<1>5. \A i : i \in Chunks(q) <=> i \in 1..Len(free) /\ In(free[i], q)
  <2>1. free \in Seq(Chunk)
    BY <1>2, Zenon DEF Shared, Ordered
  <2>2. DOMAIN free = 1..Len(free)
    BY <2>1
  <2> QED
    BY <1>1, <2>2, Zenon DEF Chunks, In
<1>6. Free(free, q) \/ \E f \in DOMAIN dev : In(dev[f].entry, q)
  BY <1>2, <1>3, Zenon DEF Shared
<1>7. CASE Free(free, q)
  <2>1. PICK i \in 1..Len(free) : In(free[i], q)
    BY <1>7, Zenon DEF Free
  <2>2. Ordered(free, 0)
    BY <1>2, Zenon DEF Shared
  <2>3. \A j \in Chunks(q) : j = i
    BY <1>3, <1>5, <2>1, <2>2, OneChunk, Zenon
  <2>4. i \in Chunks(q)
    BY <1>5, <2>1, Zenon
  <2>5. Cardinality(Chunks(q)) = 1
    BY <2>3, <2>4, OneOf, Zenon
  <2>6. \A f : f \notin Owners(q)
    BY <1>2, <1>3, <1>4, <1>7, Zenon DEF Shared
  <2>7. Cardinality(Owners(q)) = 0
    BY <2>6, NoneOf, Zenon
  <2> QED
    BY <2>5, <2>7
<1>8. CASE ~Free(free, q)
  <2>1. PICK f \in DOMAIN dev : In(dev[f].entry, q)
    BY <1>6, <1>8, Zenon
  <2>2. f \in Owners(q) /\ \A g \in Owners(q) : g = f
    BY <1>2, <1>3, <1>4, <2>1, Zenon DEF Shared
  <2>3. Cardinality(Owners(q)) = 1
    BY <2>2, OneOf, Zenon
  <2>4. \A i : i \notin Chunks(q)
    BY <1>5, <1>8, Zenon DEF Free
  <2>5. Cardinality(Chunks(q)) = 0
    BY <2>4, NoneOf, Zenon
  <2> QED
    BY <2>3, <2>5
<1> QED
  BY <1>7, <1>8, Zenon

LEMMA InvApart ==
  ASSUME ControlInv
  PROVE  ChunksApart
<1>1. stale \/ Fresh(pool.free, pool.dev)
  BY Zenon DEF ControlInv, Kept
<1>2. PICK free : free = pool.free
  OBVIOUS
<1>3. ASSUME Ordered(free, 1), NEW i \in 1..(Len(free) - 1)
      PROVE  End(free[i]) < free[i + 1].qbase
  <2>1. free \in Seq(Chunk) /\ Len(free) \in Nat
    BY <1>3 DEF Ordered
  <2>2. i \in 1..Len(free) /\ i + 1 \in 1..Len(free) /\ i < i + 1
    BY <2>1
  <2>3. End(free[i]) + 1 <= free[i + 1].qbase
    BY <1>3, <2>2, Zenon DEF Ordered
  <2>4. PICK c, d : c = free[i] /\ d = free[i + 1]
    OBVIOUS
  <2>5. c \in Chunk /\ d \in Chunk
    BY <2>1, <2>2, <2>4
  <2>6. PICK x, y : x = End(c) /\ y = d.qbase
    OBVIOUS
  <2>7. x \in Nat /\ y \in Nat
    BY <2>5, <2>6, ChunkIs, Zenon
  <2>8. x + 1 <= y
    BY <2>3, <2>4, <2>6, Zenon
  <2>9. x < y
    BY <2>7, <2>8
  <2> QED
    BY <2>4, <2>6, <2>9, Zenon
<1> QED
  BY <1>1, <1>2, <1>3, Zenon DEF ChunksApart, Fresh

LEMMA Views ==
  ASSUME NEW f
  PROVE  /\ \A t, i : At(f, t, i) = pf[f].descq[Slot(pf[f], t, i)]
         /\ \A t, i : i \in Queues(f, t) <=> i \in 0..(pf[f].qmax - 1) /\ Here(pf[f], t, i)
         /\ \A i : Streams(f, i) <=> Streaming(pf[f], "h2c", i) \/ Streaming(pf[f], "c2h", i)
<1>1. \A u, i : At(f, u, i) = pf[f].descq[Slot(pf[f], u, i)]
  BY Zenon DEF At, Slot
<1>2. \A u, i : Present(f, u, i) <=> Here(pf[f], u, i)
  BY <1>1, Zenon DEF Present, Here
<1>3. \A u, i : Present(f, u, i) /\ At(f, u, i).st <=> Streaming(pf[f], u, i)
  BY <1>1, <1>2, Zenon DEF Streaming
<1>4. \A u, i : i \in Queues(f, u) <=> i \in 0..(pf[f].qmax - 1) /\ Here(pf[f], u, i)
  BY <1>2, Zenon DEF Queues
<1>5. \A i : Streams(f, i) <=> Streaming(pf[f], "h2c", i) \/ Streaming(pf[f], "c2h", i)
  BY <1>3, Zenon DEF Streams
<1> QED
  BY <1>1, <1>4, <1>5, Zenon

(* The queues that CountsMatch counts on the board. *)
Told == {q \in Opened \X QType \X (0..(TotalQ - 1)) : q[3] \in InUse(q[1], q[2])}

LEMMA ToldUsed ==
  Told \subseteq AllUsed(pf, DOMAIN pool.dev)
<1>1. \A f, t : InUse(f, t) = UsedBy(pf[f], t)
  BY InUseIs, Zenon
<1>2. 0..(TotalQ - 1) \subseteq Nat
  BY PoolAssumption
<1>3. PICK T : T = 0..(TotalQ - 1)
  OBVIOUS
<1>4. PICK O : O = DOMAIN pool.dev
  OBVIOUS
<1>5. \A q \in O \X QType \X T : q \in O \X QType \X Nat
  BY <1>2, <1>3
<1> QED
  BY <1>1, <1>3, <1>4, <1>5, Zenon DEF Told, AllUsed, Opened

LEMMA EntryIs ==
  ASSUME NEW e \in Entry
  PROVE  e = [qbase |-> e.qbase, total_q |-> e.total_q]
BY SMT DEF Entry

LEMMA InvCounts ==
  ASSUME ControlInv
  PROVE  CountsMatch
<1>1. PICK p, P, m, s : p = pool /\ P = pf /\ m = fmap /\ s = stale
  OBVIOUS
<1>2. Kept(p, P, m, s)
  BY <1>1, Zenon DEF ControlInv
<1>3. \A f \in DOMAIN p.dev : FnCounted(P[f], p.dev[f])
  BY <1>2, Zenon DEF Kept
<1>4. \A f, t : InUse(f, t) = UsedBy(P[f], t)
  BY <1>1, InUseIs, Zenon
<1>5. \A f \in DOMAIN p.dev : \A t \in QType : p.dev[f].active[t] = Cardinality(InUse(f, t))
  BY <1>3, <1>4, Zenon DEF FnCounted
<1>6. PICK A : A = AllUsed(P, DOMAIN p.dev)
  OBVIOUS
<1>7. p.active >= Cardinality(Told)
  <2>1. IsFiniteSet(A) /\ Cardinality(A) <= p.active /\ p.active \in 0..(MaxActive + 1)
    BY <1>2, <1>6, Zenon DEF Kept, UsesInv, PoolInv
  <2>2. Told \subseteq A
    BY <1>1, <1>6, ToldUsed, Zenon
  <2>3. IsFiniteSet(Told) /\ Cardinality(Told) <= Cardinality(A)
    BY <2>1, <2>2, FS_Subset, Zenon
  <2>4. PICK a, c, d : a = p.active /\ c = Cardinality(A) /\ d = Cardinality(Told)
    OBVIOUS
  <2>5. c \in Nat /\ d \in Nat /\ d <= c /\ c <= a /\ a \in 0..(MaxActive + 1)
    BY <2>1, <2>3, <2>4, FS_CardinalityType, Zenon
  <2>6. a >= d
    BY <2>5
  <2> QED
    BY <2>4, <2>6, Zenon
<1>8. p.active >= Cardinality({q \in Opened \X QType \X (0..(TotalQ - 1)) : q[3] \in InUse(q[1], q[2])})
  BY <1>7, Zenon DEF Told
<1> QED
  BY <1>1, <1>5, <1>8, Zenon DEF CountsMatch, Opened

LEMMA InvRings ==
  ASSUME ControlInv
  PROVE  RingsApart
<1> SUFFICES ASSUME NEW f \in DOMAIN pool.dev, NEW i \in 0..(pf[f].qmax - 1)
             PROVE  /\ ~(i \in Queues(f, "cmpt") /\ Streams(f, i))
                    /\ i \in Queues(f, "h2c") \cap Queues(f, "c2h") => At(f, "h2c", i).st = At(f, "c2h", i).st
  BY Zenon DEF RingsApart, Opened
<1>1. f \in Func /\ FnInv(pf[f])
  BY Zenon DEF ControlInv, Kept, PoolInv
<1>2. PICK p : p = pf[f]
  OBVIOUS
<1>3. FnInv(p) /\ FnRings(p) /\ p.qmax \in Nat /\ i \in 0..(p.qmax - 1)
  BY <1>1, <1>2, Zenon DEF FnInv, FnType
<1>4. ~(i \in Queues(f, "cmpt") /\ Streams(f, i))
  BY <1>2, <1>3, Views, Zenon DEF FnRings
<1>5. ASSUME i \in Queues(f, "h2c") \cap Queues(f, "c2h")
      PROVE  At(f, "h2c", i).st = At(f, "c2h", i).st
  <2>1. Here(p, "h2c", i) /\ Here(p, "c2h", i)
    BY <1>2, <1>5, Views, Zenon
  <2>2. Streaming(p, "h2c", i) <=> Streaming(p, "c2h", i)
    BY <1>3, <2>1, Zenon DEF FnRings
  <2>3. PICK a, b : a = p.descq[Slot(p, "h2c", i)].st /\ b = p.descq[Slot(p, "c2h", i)].st
    OBVIOUS
  <2>4. PICK h : h = Slot(p, "h2c", i)
    OBVIOUS
  <2>5. PICK k : k = Slot(p, "c2h", i)
    OBVIOUS
  <2>6. FoundRight(p, h, "h2c", i)
    BY <1>3, <2>1, <2>4, FoundIs, RowIs, Zenon
  <2>7. FoundRight(p, k, "c2h", i)
    BY <1>3, <2>1, <2>5, FoundIs, RowIs, Zenon
  <2>8. a \in BOOLEAN /\ b \in BOOLEAN
    BY <2>3, <2>4, <2>5, <2>6, <2>7, Zenon DEF FoundRight
  <2>9. a <=> b
    BY <2>1, <2>2, <2>3, Zenon DEF Streaming
  <2>10. a = b
    BY <2>8, <2>9, Zenon
  <2> QED
    <3>1. a = At(f, "h2c", i).st /\ b = At(f, "c2h", i).st
      BY <1>2, <2>3, Views, ZenonT(60)
    <3> QED
      BY <2>10, <3>1, Zenon
<1> QED
  BY <1>4, <1>5, Zenon

LEMMA InvMap ==
  ASSUME ControlInv
  PROVE  MapCurrent
<1> SUFFICES ASSUME NEW f \in DOMAIN pool.dev, NEW n \in DOMAIN pf[f].descq,
                    pf[f].descq[n].state = "online"
             PROVE  fmap[f] = pool.dev[f].entry
  BY Zenon DEF MapCurrent, Opened
<1>1. PICK p, e : p = pf[f] /\ e = pool.dev[f].entry
  OBVIOUS
<1>2. FnInv(p) /\ FnLinked(p, e, fmap[f]) /\ Shared(pool.free, pool.dev)
  BY <1>1, Zenon DEF ControlInv, Kept, PoolInv
<1>3. n \in 0..(3 * p.qmax - 1) /\ FnRows(p) /\ p.qmax \in Nat
  BY <1>1, <1>2, Zenon DEF FnInv, FnType
<1>4. p.descq[n].state # "disabled"
  <2>1. p.descq[n].state = "online"
    BY <1>1, Zenon
  <2> QED
    BY <2>1
<1>5. p.init_qrange
  BY <1>3, <1>4, Zenon DEF FnRows
<1>6. p.qmax # 0
  BY <1>3
<1>7. fmap[f] = [qbase |-> e.qbase, total_q |-> e.total_q]
  BY <1>2, <1>5, <1>6, Zenon DEF FnLinked
<1>8. Owned(e)
  BY <1>1, <1>2, Zenon DEF Shared
<1>9. e = [qbase |-> e.qbase, total_q |-> e.total_q]
  <2>1. e \in Entry
    BY <1>8, OwnedIs, Zenon
  <2> QED
    BY <2>1, EntryIs, Zenon
<1> QED
  BY <1>1, <1>7, <1>9, Zenon

LEMMA InvHandles ==
  ASSUME ControlInv
  PROVE  HandleNames
<1> SUFFICES ASSUME NEW f \in DOMAIN pool.dev, NEW t \in QType, NEW i \in 0..(pf[f].qmax - 1),
                    pf[f].qdata[Row[t] * pf[f].qmax + i] # NoData
             PROVE  LET q == pf[f].descq[Handle(f, t, i)]
                    IN  q.state # "disabled" /\ q.q_type = t /\ q.qidx = i
  BY Zenon DEF HandleNames, Opened
<1>1. f \in Func /\ FnInv(pf[f])
  BY Zenon DEF ControlInv, Kept, PoolInv
<1>2. PICK p, h : p = pf[f] /\ h = Slot(p, t, i)
  OBVIOUS
<1>3. FnInv(p) /\ FnHandles(p) /\ i \in 0..(p.qmax - 1)
  BY <1>1, <1>2, Zenon DEF FnInv
<1>4. p.qdata[h] # NoData
  BY <1>2, Zenon DEF Slot
<1>5. p.qdata[h].qhndl = h /\ Here(p, t, i)
  BY <1>2, <1>3, <1>4, Zenon DEF FnHandles
<1>6. Handle(f, t, i) = h
  BY <1>2, <1>5, Zenon DEF Handle, Slot
<1>7. FoundRight(p, h, t, i)
  BY <1>2, <1>3, <1>5, FoundIs, Zenon
<1>8. p.descq[h].state # "disabled"
  BY <1>2, <1>5, Zenon DEF Here
<1> QED
  BY <1>2, <1>6, <1>7, <1>8, Zenon DEF FoundRight

-----------------------------------------------------------------------------
(* For any number of functions, queues and requests, every queue of the board is in one chunk
   of the pool or in the range of one function, neighbouring chunks are merged (as long as no
   function without queues kept a base), and the pool has the shape its users count on
   (qdma_request_q_resource, qdma_dev_update, qdma_dev_entry_destroy). *)
THEOREM PoolIsKept ==
  ASSUME MaxActive \in Nat, MaxActive + 1 < CountModulus, AnyIndex \notin Requests
  PROVE  ControlSpec => []PoolKept
<1>1. ControlInv => PoolKept
  BY InvType, InvPartition, InvApart, Zenon DEF PoolKept
<1>2. ControlSpec => []ControlInv
  BY ControlIsKept, Zenon
<1> QED
  BY <1>1, <1>2, PTL

(* The active counts of a function are the numbers of its queues in use, and the board's count
   covers all functions (qdma_increment_active_queue against qdma_queue_remove and
   qdma_device_cleanup). *)
THEOREM CountsAreRight ==
  ASSUME MaxActive \in Nat, MaxActive + 1 < CountModulus, AnyIndex \notin Requests
  PROVE  ControlSpec => []CountsMatch
<1>1. ControlInv => CountsMatch
  BY InvCounts, Zenon
<1>2. ControlSpec => []ControlInv
  BY ControlIsKept, Zenon
<1> QED
  BY <1>1, <1>2, PTL

(* A completion queue and a streaming queue never share an index, and the two directions of an
   index agree on their mode (is_usable_queue). *)
THEOREM RingsStayApart ==
  ASSUME MaxActive \in Nat, MaxActive + 1 < CountModulus, AnyIndex \notin Requests
  PROVE  ControlSpec => []RingsApart
<1>1. ControlInv => RingsApart
  BY InvRings, Zenon
<1>2. ControlSpec => []ControlInv
  BY ControlIsKept, Zenon
<1> QED
  BY <1>1, <1>2, PTL

(* While a queue of a function is online, its entry in the card's function map is its range in
   the pool (qdma_prep_q_resource, qdma_device_init). *)
THEOREM MapStaysCurrent ==
  ASSUME MaxActive \in Nat, MaxActive + 1 < CountModulus, AnyIndex \notin Requests
  PROVE  ControlSpec => []MapCurrent
<1>1. ControlInv => MapCurrent
  BY InvMap, Zenon
<1>2. ControlSpec => []ControlInv
  BY ControlIsKept, Zenon
<1> QED
  BY <1>1, <1>2, PTL

(* The handle that the module keeps for a queue names the descriptor queue of that type and
   index, as long as every request names its queue (qdma_queue_add, xpdev_queue_add). *)
THEOREM HandlesName ==
  ASSUME MaxActive \in Nat, MaxActive + 1 < CountModulus, AnyIndex \notin Requests
  PROVE  ControlSpec => []HandleNames
<1>1. ControlInv => HandleNames
  BY InvHandles, Zenon
<1>2. ControlSpec => []ControlInv
  BY ControlIsKept, Zenon
<1> QED
  BY <1>1, <1>2, PTL
=============================================================================
