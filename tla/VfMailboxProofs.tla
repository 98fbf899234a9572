-------------------------- MODULE VfMailboxProofs ---------------------------
(* What the mailbox promises, for any number of virtual functions and any     *)
(* exploration bounds: the two sides' accounts agree between calls, the       *)
(* card's maps are those of functions that are known, and a request that      *)
(* waits is in one place.                                                     *)
EXTENDS VfMailbox, QueueResourcesProofs, FiniteSetTheorems

Work == {"fmap", "qreq", "add", "del"}
Ops == Work \cup {"hello", "bye"}

Queue == {q \in [t : {"h2c", "c2h"}, st : BOOLEAN, i : Nat] : q.st => q.t = "c2h"}

(* The messages of a plan, and what is done after one has failed. *)
StepOf(op, then) ==
  [op : op, t : QType, qid : Int, n : Nat, gone : SUBSET Queue, undone : SUBSET Queue,
   otherwise : then]
Retreat == StepOf(Work, {<<>>})
Step == StepOf(Work, Seq(Retreat))
Letter == StepOf(Ops, Seq(Retreat))

Packet == [op : Ops, src : VF, t : QType, qid : Int, qbase : Int, qmax : Nat]
Reply == [op : Ops, to : VF, status : {0, -1}, qbase : Int, qmax : Nat, retry : Int]

(* What the driver of a virtual function keeps. *)
Driver ==
  [state : {"off", "starting", "on", "leaving"}, qbase : Int, qmax : Nat, init_qrange : BOOLEAN,
   queues : SUBSET Queue, plan : Seq(Letter), removing : SUBSET Queue,
   granted : SUBSET (Reply \cup Packet)]

Starting(v) == v.state = "starting" /\ v.plan = <<Message("hello")>> /\ v.removing = {} /\ v.granted = {}
Leaves(v) == v.state = "leaving" /\ v.plan = <<Message("bye")>>
Works(v) == v.state \in {"on", "leaving"} /\ v.plan \in Seq(Step) /\ v.plan # <<>>
Rests(v) == v.state = "on" /\ v.plan = <<>>

(* A caller and its request. *)
CallerRight(f, v, r) ==
  /\ v \in Driver
  /\ \/ r = Nothing /\ (v = Off \/ Leaves(v) \/ Rests(v))
     \/ /\ r.place \in {"todo", "pend", "matched"}
        /\ Starting(v) \/ (Leaves(v) /\ r.place = "todo") \/ Works(v)
        /\ r.msg = Composed(f, v)
        /\ r.place # "matched" => r = [place |-> r.place, msg |-> r.msg]
        /\ r.place = "matched" => r.answer \in Reply

Wires ==
  /\ DOMAIN outV = VF /\ \A f \in VF : outV[f] = Empty \/ (outV[f] \in Packet /\ outV[f].src = f)
  /\ outP = Empty \/ outP \in Reply
  /\ answers \in Seq(Reply)
  /\ txrun \in BOOLEAN /\ late \subseteq VF
  /\ DOMAIN vf = VF /\ DOMAIN req = VF /\ DOMAIN fmap = VF

(* The PF's account of the queues. *)
PoolOk(p) ==
  PoolShape(p) /\ AllDevices(p) /\ DOMAIN p.dev \subseteq VF /\ Shared(p.free, p.dev)

Account == PoolOk(pool)

Callers == \A f \in VF : CallerRight(f, vf[f], req[f])

-----------------------------------------------------------------------------
(* A function that uses its queues is known to the PF, or the HELLO that makes it so is the next *)
(* of its messages.                                                                              *)
Calls(v, r) ==
  \/ v.state = "on"
  \/ v.state = "starting" /\ r.place \in {"pend", "matched"}
  \/ Works(v)

Enrolled(v, r, o, k, m) ==
  /\ Calls(v, r) => o.op # "bye" /\ (o.op = "hello" \/ k)
  /\ o.op \in Work => k
  /\ m # NoMap => k

-----------------------------------------------------------------------------
(* Where the answers to f are, of those in the list and the one in the register. *)
Queued(ans, f) == {i \in DOMAIN ans : ans[i].to = f}
OutTo(out, f) == out # Empty /\ out.to = f

Same(a, b) == a.op = b.op /\ a.status = b.status /\ a.qbase = b.qbase /\ a.qmax = b.qmax

(* No answer to f is under way; one is, and it says what a says. *)
NoMail(ans, out, f) == Queued(ans, f) = {} /\ ~OutTo(out, f)
OneMail(ans, out, f, a) ==
  \/ Queued(ans, f) = {} /\ OutTo(out, f) /\ Same(out, a)
  \/ \E i \in DOMAIN ans : Queued(ans, f) = {i} /\ ~OutTo(out, f) /\ Same(ans[i], a)

-----------------------------------------------------------------------------
(* What a function believes, and what the PF has of it: e and c its range and its counts, m its map. *)
Num(S, t) == Cardinality({q \in S : q.t = t \/ (t = "cmpt" /\ q.st)})

Base(v, e, m) ==
  /\ v.qmax = e.total_q
  /\ v.qmax # 0 => v.qbase = e.qbase
  /\ m = IF v.init_qrange THEN e ELSE NoMap
  /\ v.init_qrange => v.qmax # 0

Fits(v) ==
  /\ IsFiniteSet(v.queues)
  /\ \A q \in v.queues : q.i < v.qmax
  /\ \A p, q \in v.queues : p.i = q.i => p.st = q.st
  /\ v.removing \subseteq v.queues /\ v.granted = {}

(* c counts the queues of S, n more of type u. *)
Counts(c, S, u, n) == \A t \in QType : c[t] = Num(S, t) + (IF t = u THEN n ELSE 0)

Tells(s, op, v, t, q, gone) ==
  s.op = op /\ s.t = t /\ s.qid = v.qbase + q.i /\ s.gone = gone

(* After the first k messages of the plan, q is announced. *)
Adds(v, q, k) ==
  /\ Len(v.plan) = k + (IF q.st THEN 2 ELSE 1)
  /\ Tells(v.plan[k + 1], "add", v, q.t, q, {})
  /\ q.st => Tells(v.plan[k + 2], "add", v, "cmpt", q, {})

(* The stages of a call, each with the counts that the PF has before the next message. *)
ToMap(v, c, q) ==
  /\ ~v.init_qrange /\ v.plan[1].op = "fmap" /\ v.plan[1].gone = {} /\ Adds(v, q, 1)
  /\ Counts(c, v.queues \ {q}, q.t, 0)
ToAdd(v, c, q) == v.init_qrange /\ Adds(v, q, 0) /\ Counts(c, v.queues \ {q}, q.t, 0)
ToAddCmpt(v, c, q) ==
  /\ v.init_qrange /\ q.st /\ Len(v.plan) = 1 /\ Tells(v.plan[1], "add", v, "cmpt", q, {})
  /\ Counts(c, v.queues \ {q}, q.t, 1)
ToDel(v, c, q) ==
  /\ Len(v.plan) = IF q.st THEN 2 ELSE 1
  /\ Tells(v.plan[1], "del", v, q.t, q, IF q.st THEN {} ELSE {q})
  /\ q.st => Tells(v.plan[2], "del", v, "cmpt", q, {q})
  /\ Counts(c, v.queues, q.t, 0)
ToDelCmpt(v, c, q) ==
  /\ q.st /\ Len(v.plan) = 1 /\ Tells(v.plan[1], "del", v, "cmpt", q, {q})
  /\ Counts(c, v.queues, q.t, -1)

Adding(v, c, q) == v.removing = {} /\ (ToMap(v, c, q) \/ ToAdd(v, c, q) \/ ToAddCmpt(v, c, q))
Removing(v, c, q) == q \notin v.removing /\ (ToDel(v, c, q) \/ ToDelCmpt(v, c, q))

Asking(v, c) ==
  /\ v.state = "on" /\ Len(v.plan) = 1 /\ v.plan[1].op = "qreq" /\ v.removing = {}
  /\ v.plan[1].gone = {} /\ v.plan[1].undone = {} /\ v.plan[1].otherwise = <<>>
  /\ Counts(c, v.queues, "h2c", 0)

Stage(v, c) ==
  /\ Fits(v) /\ Works(v)
  /\ Asking(v, c) \/ \E q \in v.queues : Adding(v, c, q) \/ Removing(v, c, q)

Ahead(v, d, m) == Base(v, d.entry, m) /\ Stage(v, d.active)

Begun(v) == Starting(v) /\ v.qmax = 0 /\ ~v.init_qrange /\ v.queues = {}
Ends(v, c) == Rests(v) /\ Fits(v) /\ v.removing = {} /\ Counts(c, v.queues, "h2c", 0)

(* The PF has done what the first message of the plan asks for, and has answered a. *)
Opened(v, d, m, a) ==
  Begun(v) /\ a.status = 0 /\ d.entry = NoQueues /\ Counts(d.active, {}, "h2c", 0) /\ m = NoMap
Refit(v, d, m, a) ==
  /\ v.plan[1].op = "qreq" /\ a.status = 0 /\ Stage(v, d.active) /\ v.queues = {}
  /\ d.entry.total_q = a.qmax /\ d.entry.qbase = a.qbase /\ m = NoMap
Refused(v, d, m, a) == v.plan[1].op = "qreq" /\ a.status = -1 /\ Ahead(v, d, m)
Mapped(v, d, m, a) ==
  /\ v.plan[1].op = "fmap" /\ a.status = 0
  /\ v.qmax = d.entry.total_q /\ v.qbase = d.entry.qbase /\ m = d.entry
  /\ Stage(v, d.active)
Told(v, d, m, a) ==
  /\ v.plan[1].op \in {"add", "del"} /\ a.status = 0 /\ Base(v, d.entry, m)
  /\ \E c \in [QType -> Nat] :
       /\ Stage(v, c)
       /\ d.active = [c EXCEPT ![v.plan[1].t] = IF v.plan[1].op = "add" THEN @ + 1 ELSE @ - 1]

After(v, d, m, a) ==
  /\ a.op = v.plan[1].op
  /\ Opened(v, d, m, a) \/ Refit(v, d, m, a) \/ Refused(v, d, m, a) \/ Mapped(v, d, m, a) \/ Told(v, d, m, a)

(* A function that is not used: the PF has forgotten it, or its BYE is on its way. *)
Left(k, o) == IF k THEN o.op = "bye" ELSE o = Empty

Calm(v, o, k, d, m) ==
  \/ (v = Off \/ Leaves(v)) /\ Left(k, o)
  \/ o = Empty /\ k /\ Base(v, d.entry, m) /\ Ends(v, d.active)

Ready(v, o, k, d, m) ==
  \/ Begun(v) /\ Left(k, o)
  \/ o = Empty /\ k /\ (Leaves(v) \/ Ahead(v, d, m))

Sent(f, v, o, k, d, m) == o = Composed(f, v) /\ ((Begun(v) /\ ~k) \/ (k /\ Ahead(v, d, m)))

(* A function and its request, the answers and the register of the PF, and whether one is late. *)
InStep(f, v, r, o, k, d, m, ans, out, slack) ==
  \/ r.place = "none" /\ NoMail(ans, out, f) /\ Calm(v, o, k, d, m)
  \/ r.place = "todo" /\ NoMail(ans, out, f) /\ Ready(v, o, k, d, m)
  \/ r.place = "pend" /\ NoMail(ans, out, f) /\ Sent(f, v, o, k, d, m)
  \/ r.place = "pend" /\ NoMail(ans, out, f) /\ o = Empty /\ slack
  \/ r.place = "pend" /\ o = Empty /\ k /\ \E a \in Reply : OneMail(ans, out, f, a) /\ After(v, d, m, a)
  \/ r.place = "matched" /\ NoMail(ans, out, f) /\ o = Empty /\ k /\ After(v, d, m, r.answer)

(* The card's map covers no more than the function's range. *)
Within(k, e, m) == k => \A q \in Nat : m.qbase <= q /\ q < End(m) => In(e, q)

DeviceOf(dev, f) == IF f \in DOMAIN dev THEN dev[f] ELSE [entry |-> NoQueues, active |-> NoneActive]

Agreed(f) ==
  /\ InStep(f, vf[f], req[f], outV[f], Known(f), DeviceOf(pool.dev, f), fmap[f], answers, outP, late # {})
  /\ Within(Known(f), DeviceOf(pool.dev, f).entry, fmap[f])

-----------------------------------------------------------------------------
(* As long as nobody is late: attempts at the register are counted on the first answer too, *)
(* and each function that is known has one slot.                                            *)
Paced(ans, out, run) ==
  /\ ans # <<>> => run /\ ans[1].retry \in (RetryCnt - Lag)..RetryCnt
  /\ \A i \in 2..Len(ans) : ans[i].retry = RetryCnt
  /\ out # Empty => /\ out.retry \in 0..Lag
                    /\ IF ans = <<>> THEN out.retry = 0 ELSE ans[1].retry + out.retry = RetryCnt

Seated(slot, D) ==
  /\ slot \in [1..Cardinality(VF) -> VF \cup {NoVf}]
  /\ \A i \in 1..Cardinality(VF) : slot[i] \in D \cup {NoVf}
  /\ \A f \in D : \E i \in 1..Cardinality(VF) : \A j \in 1..Cardinality(VF) : slot[j] = f <=> j = i

Seats(s, D) ==
  /\ s = [online |-> s.online, slot |-> s.slot]
  /\ Seated(s.slot, D) /\ s.online = Cardinality(D)

-----------------------------------------------------------------------------
(* Where a function's message and its answer are, whatever its caller believes, as long as nobody *)
(* is late: a function at rest or about to send, and its request.                                 *)
Resting(v, o, k) == IF v.state = "on" THEN o = Empty /\ k ELSE Left(k, o)
Sending(v, o, k) == IF v.state = "starting" THEN Left(k, o) ELSE o = Empty /\ k

Mailed(f, v, r, o, k, ans, out) ==
  \/ r.place = "none" /\ NoMail(ans, out, f) /\ Resting(v, o, k)
  \/ r.place = "todo" /\ NoMail(ans, out, f) /\ Sending(v, o, k)
  \/ r.place = "pend" /\ NoMail(ans, out, f) /\ o = r.msg /\ (k <=> o.op # "hello")
  \/ r.place = "pend" /\ o = Empty /\ k /\ \E a \in Reply : OneMail(ans, out, f, a) /\ a.op = r.msg.op
  \/ r.place = "matched" /\ NoMail(ans, out, f) /\ o = Empty /\ k

Delivered(f) == Mailed(f, vf[f], req[f], outV[f], Known(f), answers, outP)
DeliveredNext(f) == Mailed(f, vf'[f], req'[f], outV'[f], f \in DOMAIN pool'.dev, answers', outP')

Types == Wires /\ Account /\ Callers
Enrolment == \A f \in VF : Enrolled(vf[f], req[f], outV[f], Known(f), fmap[f])
Agreement == \A f \in VF \ Strays : Agreed(f)
Delivery == hasty \subseteq VF /\ (late = {} => \A f \in VF : Delivered(f))
Punctual == late = {} => Paced(answers, outP, txrun) /\ Seats(sriov, DOMAIN pool.dev)

MailInv == Types /\ Enrolment /\ Agreement /\ Delivery /\ Punctual

-----------------------------------------------------------------------------
(* The record of a driver, field by field. *)

Has(w, state, qbase, qmax, init_qrange, queues, plan, removing, granted) ==
  /\ w.state = state /\ w.qbase = qbase /\ w.qmax = qmax /\ w.init_qrange = init_qrange
  /\ w.queues = queues /\ w.plan = plan /\ w.removing = removing /\ w.granted = granted

LEMMA DriverIs ==
  ASSUME NEW v \in Driver
  PROVE  /\ v.state \in {"off", "starting", "on", "leaving"} /\ v.qbase \in Int /\ v.qmax \in Nat
         /\ v.init_qrange \in BOOLEAN /\ v.queues \subseteq Queue /\ v.plan \in Seq(Letter)
         /\ v.removing \subseteq Queue /\ v.granted \subseteq Reply \cup Packet
BY DEF Driver

LEMMA SetPlan ==
  ASSUME NEW v \in Driver, NEW x \in Seq(Letter), NEW w, w = [v EXCEPT !.plan = x]
  PROVE  w \in Driver /\ Has(w, v.state, v.qbase, v.qmax, v.init_qrange, v.queues, x, v.removing, v.granted)
BY DEF Driver, Has

LEMMA SetQueues ==
  ASSUME NEW v \in Driver, NEW S \in SUBSET Queue, NEW w, w = [v EXCEPT !.queues = S]
  PROVE  w \in Driver /\ Has(w, v.state, v.qbase, v.qmax, v.init_qrange, S, v.plan, v.removing, v.granted)
BY DEF Driver, Has

LEMMA SetRemoving ==
  ASSUME NEW v \in Driver, NEW S \in SUBSET Queue, NEW w, w = [v EXCEPT !.removing = S]
  PROVE  w \in Driver /\ Has(w, v.state, v.qbase, v.qmax, v.init_qrange, v.queues, v.plan, S, v.granted)
BY DEF Driver, Has

LEMMA SetState ==
  ASSUME NEW v \in Driver, NEW x \in {"off", "starting", "on", "leaving"}, NEW w, w = [v EXCEPT !.state = x]
  PROVE  w \in Driver /\ Has(w, x, v.qbase, v.qmax, v.init_qrange, v.queues, v.plan, v.removing, v.granted)
BY DEF Driver, Has

LEMMA SetInit ==
  ASSUME NEW v \in Driver, NEW x \in BOOLEAN, NEW w, w = [v EXCEPT !.init_qrange = x]
  PROVE  w \in Driver /\ Has(w, v.state, v.qbase, v.qmax, x, v.queues, v.plan, v.removing, v.granted)
BY DEF Driver, Has

LEMMA SetGranted ==
  ASSUME NEW v \in Driver, NEW x \in SUBSET (Reply \cup Packet), NEW w, w = [v EXCEPT !.granted = x]
  PROVE  w \in Driver /\ Has(w, v.state, v.qbase, v.qmax, v.init_qrange, v.queues, v.plan, v.removing, x)
BY DEF Driver, Has

WithRange(v, b, n) == [v EXCEPT !.qbase = b, !.qmax = n]

LEMMA SetRange ==
  ASSUME NEW v \in Driver, NEW b \in Int, NEW n \in Nat, NEW w, w = WithRange(v, b, n)
  PROVE  w \in Driver /\ Has(w, v.state, b, n, v.init_qrange, v.queues, v.plan, v.removing, v.granted)
BY DEF Driver, Has, WithRange

LEMMA OffIs ==
  Off \in Driver /\ Has(Off, "off", -1, 0, FALSE, {}, <<>>, {}, {})
BY DEF Driver, Off, Has

-----------------------------------------------------------------------------
(* The messages. *)

LEMMA QueueIs ==
  ASSUME NEW q \in Queue
  PROVE  q.t \in {"h2c", "c2h"} /\ q.t \in QType /\ q.t # "cmpt" /\ q.i \in Nat /\ q.st \in BOOLEAN /\ (q.st => q.t = "c2h")
BY DEF Queue, QType

LEMMA MessageIs ==
  ASSUME NEW op \in Ops
  PROVE  /\ Message(op) \in Letter /\ Message(op).op = op
         /\ Message(op).gone = {} /\ Message(op).undone = {} /\ Message(op).otherwise = <<>>
         /\ op \in Work => Message(op) \in Step
BY DEF Message, Letter, Step, StepOf, QType

LEMMA RetreatIsStep == Retreat \subseteq Step
<1>1. <<>> \in Seq(Retreat)
  OBVIOUS
<1> QED
  BY <1>1 DEF Retreat, Step, StepOf

LEMMA StepIsLetter ==
  /\ Step \subseteq Letter
  /\ \A s \in Seq(Step) : s \in Seq(Letter)
  /\ \A s \in Seq(Retreat) : s \in Seq(Step)
<1>1. Step \subseteq Letter
  BY DEF Step, Letter, StepOf, Ops
<1> QED
  BY <1>1, RetreatIsStep

LEMMA LetterIs ==
  ASSUME NEW s \in Letter
  PROVE  /\ s.op \in Ops /\ s.t \in QType /\ s.qid \in Int /\ s.n \in Nat
         /\ s.gone \subseteq Queue /\ s.undone \subseteq Queue /\ s.otherwise \in Seq(Retreat)
BY DEF Letter, StepOf

LEMMA StepIs ==
  ASSUME NEW s \in Step
  PROVE  s \in Letter /\ s.op \in Work
BY StepIsLetter DEF Step, StepOf

LEMMA NotifyIs ==
  ASSUME NEW v \in Driver, NEW op \in {"add", "del"}, NEW t \in QType, NEW q \in Queue,
         NEW s, s = Notify(v, op, t, q)
  PROVE  s \in Retreat /\ s.op = op /\ s.t = t /\ s.qid = v.qbase + q.i /\ s.gone = {}
<1>1. v.qbase \in Int /\ q.i \in Nat
  BY DriverIs, QueueIs
<1>2. PICK b : b = v.qbase + q.i
  OBVIOUS
<1>3. b \in Int
  BY <1>1, <1>2
<1>4. PICK m : m = Message(op)
  OBVIOUS
<1>5. m = [op |-> op, t |-> "h2c", qid |-> 0, n |-> 0, gone |-> {}, undone |-> {}, otherwise |-> <<>>]
  BY <1>4 DEF Message
<1>6. PICK m2 : m2 = [m EXCEPT !.t = t]
  OBVIOUS
<1>7. m2 = [op |-> op, t |-> t, qid |-> 0, n |-> 0, gone |-> {}, undone |-> {}, otherwise |-> <<>>]
  BY <1>5, <1>6
<1>8. s = [m2 EXCEPT !.qid = b]
  BY <1>2, <1>4, <1>6, Zenon DEF Notify
<1>9. s = [op |-> op, t |-> t, qid |-> b, n |-> 0, gone |-> {}, undone |-> {}, otherwise |-> <<>>]
  BY <1>7, <1>8
<1>10. s \in Retreat
  BY <1>3, <1>9 DEF Retreat, StepOf, Work
<1> QED
  BY <1>2, <1>9, <1>10

LEMMA SetGone ==
  ASSUME NEW s \in Retreat, NEW G \in SUBSET Queue, NEW w, w = [s EXCEPT !.gone = G]
  PROVE  w \in Step /\ w.op = s.op /\ w.t = s.t /\ w.qid = s.qid /\ w.gone = G
<1>1. <<>> \in Seq(Retreat)
  OBVIOUS
<1> QED
  BY <1>1 DEF Retreat, Step, StepOf

LEMMA SetOtherwise ==
  ASSUME NEW s \in Step, NEW r \in Seq(Retreat), NEW w, w = [s EXCEPT !.otherwise = r]
  PROVE  w \in Step /\ w.op = s.op /\ w.t = s.t /\ w.qid = s.qid /\ w.gone = s.gone
BY DEF Step, StepOf

-----------------------------------------------------------------------------
(* The plans of a call. *)

LEMMA OneOf ==
  ASSUME NEW S, NEW a \in S
  PROVE  <<a>> \in Seq(S) /\ Len(<<a>>) = 1 /\ <<a>>[1] = a /\ <<a>> # <<>>
OBVIOUS

LEMMA TwoOf ==
  ASSUME NEW S, NEW a \in S, NEW b \in S
  PROVE  /\ <<a>> \o <<b>> \in Seq(S) /\ Len(<<a>> \o <<b>>) = 2
         /\ (<<a>> \o <<b>>)[1] = a /\ (<<a>> \o <<b>>)[2] = b /\ <<a>> \o <<b>> # <<>>
OBVIOUS

LEMMA ThreeOf ==
  ASSUME NEW S, NEW a \in S, NEW b \in S, NEW c \in S
  PROVE  /\ (<<a>> \o <<b>>) \o <<c>> \in Seq(S) /\ Len((<<a>> \o <<b>>) \o <<c>>) = 3
         /\ ((<<a>> \o <<b>>) \o <<c>>)[1] = a /\ ((<<a>> \o <<b>>) \o <<c>>)[2] = b
         /\ ((<<a>> \o <<b>>) \o <<c>>)[3] = c /\ (<<a>> \o <<b>>) \o <<c>> # <<>>
OBVIOUS

LEMMA NoneOf ==
  ASSUME NEW S, NEW s \in Seq(S)
  PROVE  <<>> \o s = s /\ s \o <<>> = s
OBVIOUS

LEMMA FmapIs ==
  ASSUME NEW q \in Queue, NEW s, s = [Message("fmap") EXCEPT !.undone = {q}]
  PROVE  s \in Step /\ s.op = "fmap" /\ s.gone = {}
<1>1. PICK m : m = Message("fmap")
  OBVIOUS
<1>2. m \in Step /\ m.op = "fmap" /\ m.gone = {}
  BY <1>1, MessageIs DEF Ops, Work
<1>3. s = [m EXCEPT !.undone = {q}]
  BY <1>1, Zenon
<1> QED
  BY <1>2, <1>3 DEF Step, StepOf

(* What a plan for adding q says. *)
AddPlanRight(v, q, p) ==
  /\ p \in Seq(Step) /\ p # <<>>
  /\ \A w : w.plan = p /\ w.qbase = v.qbase =>
       IF v.init_qrange THEN Adds(w, q, 0) ELSE w.plan[1].op = "fmap" /\ w.plan[1].gone = {} /\ Adds(w, q, 1)

LEMMA AddPlanIs ==
  ASSUME NEW v \in Driver, NEW q \in Queue
  PROVE  AddPlanRight(v, q, AddPlan(v, q))
<1>1. PICK a : a = [Message("fmap") EXCEPT !.undone = {q}]
  OBVIOUS
<1>2. a \in Step /\ a.op = "fmap" /\ a.gone = {}
  BY <1>1, FmapIs
<1>3. PICK b : b = Notify(v, "add", q.t, q)
  OBVIOUS
<1>4. q.t \in QType /\ "cmpt" \in QType
  BY QueueIs DEF QType
<1>5. b \in Retreat /\ b.op = "add" /\ b.t = q.t /\ b.qid = v.qbase + q.i /\ b.gone = {}
  BY <1>3, <1>4, NotifyIs
<1>6. b \in Step
  BY <1>5, RetreatIsStep
<1>7. PICK z : z = Notify(v, "del", q.t, q)
  OBVIOUS
<1>8. z \in Retreat
  BY <1>4, <1>7, NotifyIs
<1>9. <<z>> \in Seq(Retreat)
  BY <1>8, OneOf
<1>10. PICK y : y = Notify(v, "add", "cmpt", q)
  OBVIOUS
<1>11. y \in Retreat /\ y.op = "add" /\ y.t = "cmpt" /\ y.qid = v.qbase + q.i /\ y.gone = {}
  BY <1>4, <1>10, NotifyIs
<1>12. PICK c : c = [y EXCEPT !.otherwise = <<z>>]
  OBVIOUS
<1>13. c \in Step /\ c.op = "add" /\ c.t = "cmpt" /\ c.qid = v.qbase + q.i /\ c.gone = {}
  <2>1. y \in Step
    BY <1>11, RetreatIsStep
  <2>2. c \in Step /\ c.op = y.op /\ c.t = y.t /\ c.qid = y.qid /\ c.gone = y.gone
    BY <1>9, <1>12, <2>1, SetOtherwise
  <2> QED
    BY <1>11, <2>2, Zenon
<1>14. AddPlan(v, q) = (IF v.init_qrange THEN <<>> ELSE <<a>>) \o <<b>> \o (IF q.st THEN <<c>> ELSE <<>>)
  BY <1>1, <1>3, <1>7, <1>10, <1>12, Zenon DEF AddPlan
<1>15. v.init_qrange \in BOOLEAN /\ q.st \in BOOLEAN
  BY DriverIs, QueueIs, Zenon
<1> DEFINE Right(p) ==
      /\ p \in Seq(Step) /\ p # <<>>
      /\ IF v.init_qrange
         THEN Len(p) = (IF q.st THEN 2 ELSE 1) /\ p[1] = b /\ (q.st => p[2] = c)
         ELSE Len(p) = 1 + (IF q.st THEN 2 ELSE 1) /\ p[1] = a /\ p[2] = b /\ (q.st => p[3] = c)
<1>16. Right(AddPlan(v, q))
  <2>1. CASE v.init_qrange /\ q.st
    <3>1. AddPlan(v, q) = <<b>> \o <<c>>
      <4>1. AddPlan(v, q) = <<>> \o <<b>> \o <<c>>
        BY <1>14, <2>1, Zenon
      <4> QED
        BY <4>1, <1>6, OneOf, NoneOf
    <3> QED
      BY <1>6, <1>13, <2>1, <3>1, TwoOf
  <2>2. CASE v.init_qrange /\ ~q.st
    <3>1. AddPlan(v, q) = <<b>>
      <4>1. AddPlan(v, q) = <<>> \o <<b>> \o <<>>
        BY <1>14, <2>2, Zenon
      <4> QED
        BY <4>1, <1>6, OneOf, NoneOf
    <3> QED
      BY <1>6, <2>2, <3>1, OneOf
  <2>3. CASE ~v.init_qrange /\ q.st
    <3>1. AddPlan(v, q) = (<<a>> \o <<b>>) \o <<c>>
      BY <1>14, <2>3, Zenon
    <3> QED
      BY <1>2, <1>6, <1>13, <2>3, <3>1, ThreeOf
  <2>4. CASE ~v.init_qrange /\ ~q.st
    <3>1. AddPlan(v, q) = <<a>> \o <<b>>
      <4>1. AddPlan(v, q) = (<<a>> \o <<b>>) \o <<>>
        BY <1>14, <2>4, Zenon
      <4> QED
        BY <4>1, <1>2, <1>6, TwoOf, NoneOf
    <3> QED
      BY <1>2, <1>6, <2>4, <3>1, TwoOf
  <2> QED
    BY <1>15, <2>1, <2>2, <2>3, <2>4, Zenon
<1>17. PICK p : p = AddPlan(v, q)
  OBVIOUS
<1>18. Right(p)
  BY <1>16, <1>17
<1>19. ASSUME NEW w, w.plan = p, w.qbase = v.qbase
       PROVE  IF v.init_qrange THEN Adds(w, q, 0) ELSE w.plan[1].op = "fmap" /\ w.plan[1].gone = {} /\ Adds(w, q, 1)
  <2>1. Tells(b, "add", w, q.t, q, {}) /\ Tells(c, "add", w, "cmpt", q, {})
    BY <1>5, <1>13, <1>19 DEF Tells
  <2>2. CASE v.init_qrange
    <3>1. Len(w.plan) = (IF q.st THEN 2 ELSE 1) /\ w.plan[1] = b /\ (q.st => w.plan[2] = c)
      BY <1>18, <1>19, <2>2, Zenon
    <3>2. 0 + 1 = 1 /\ 0 + 2 = 2 /\ 0 + (IF q.st THEN 2 ELSE 1) = (IF q.st THEN 2 ELSE 1)
      BY <1>15
    <3> QED
      BY <2>1, <2>2, <3>1, <3>2, Zenon DEF Adds
  <2>3. CASE ~v.init_qrange
    <3>1. Len(w.plan) = 1 + (IF q.st THEN 2 ELSE 1) /\ w.plan[1] = a /\ w.plan[2] = b /\ (q.st => w.plan[3] = c)
      BY <1>18, <1>19, <2>3, Zenon
    <3>2. 1 + 1 = 2 /\ 1 + 2 = 3
      OBVIOUS
    <3> QED
      BY <1>2, <2>1, <2>3, <3>1, <3>2, Zenon DEF Adds
  <2> QED
    BY <1>15, <2>2, <2>3, Zenon
<1> QED
  BY <1>17, <1>18, <1>19, Zenon DEF AddPlanRight

(* What a plan for removing q says. *)
RemovePlanRight(v, q, p) ==
  /\ p \in Seq(Step) /\ p # <<>>
  /\ \A w : w.plan = p /\ w.qbase = v.qbase =>
       /\ Len(w.plan) = IF q.st THEN 2 ELSE 1
       /\ Tells(w.plan[1], "del", w, q.t, q, IF q.st THEN {} ELSE {q})
       /\ q.st => Tells(w.plan[2], "del", w, "cmpt", q, {q})

LEMMA RemovePlanIs ==
  ASSUME NEW v \in Driver, NEW q \in Queue
  PROVE  RemovePlanRight(v, q, RemovePlan(v, q))
<1>1. PICK a : a = Notify(v, "del", q.t, q)
  OBVIOUS
<1>2. q.t \in QType /\ "cmpt" \in QType /\ q.st \in BOOLEAN
  BY QueueIs DEF QType
<1>3. a \in Retreat /\ a.op = "del" /\ a.t = q.t /\ a.qid = v.qbase + q.i /\ a.gone = {}
  BY <1>1, <1>2, NotifyIs
<1>4. {q} \in SUBSET Queue /\ <<>> \in Seq(Retreat)
  OBVIOUS
<1>5. a \in Step
  BY <1>3, RetreatIsStep
<1>6. CASE q.st
  <2>1. PICK z : z = Notify(v, "add", q.t, q)
    OBVIOUS
  <2>2. <<z>> \in Seq(Retreat)
    <3>1. z \in Retreat
      BY <1>2, <2>1, NotifyIs
    <3> QED
      BY <3>1, OneOf
  <2>3. PICK y : y = Notify(v, "del", "cmpt", q)
    OBVIOUS
  <2>4. y \in Retreat /\ y.op = "del" /\ y.t = "cmpt" /\ y.qid = v.qbase + q.i
    BY <1>2, <2>3, NotifyIs
  <2>5. PICK b : b = [y EXCEPT !.gone = {q}, !.otherwise = <<z>>]
    OBVIOUS
  <2>6. b \in Step /\ b.op = "del" /\ b.t = "cmpt" /\ b.qid = v.qbase + q.i /\ b.gone = {q}
    <3>1. PICK x : x = [y EXCEPT !.gone = {q}]
      OBVIOUS
    <3>2. x \in Step /\ x.op = y.op /\ x.t = y.t /\ x.qid = y.qid /\ x.gone = {q}
      BY <1>4, <2>4, <3>1, SetGone
    <3>3. PICK r : r = <<z>>
      OBVIOUS
    <3>4. b = [x EXCEPT !.otherwise = r] /\ r \in Seq(Retreat)
      BY <2>2, <2>5, <3>1, <3>3, Zenon
    <3>5. b \in Step /\ b.op = x.op /\ b.t = x.t /\ b.qid = x.qid /\ b.gone = x.gone
      BY <3>2, <3>4, SetOtherwise, Zenon
    <3> QED
      BY <2>4, <3>2, <3>5, Zenon
  <2>7. RemovePlan(v, q) = <<a, b>>
    BY <1>1, <1>6, <2>1, <2>3, <2>5, Zenon DEF RemovePlan
  <2>8. PICK p : p = RemovePlan(v, q)
    OBVIOUS
  <2>9. p \in Seq(Step) /\ p # <<>> /\ Len(p) = 2 /\ p[1] = a /\ p[2] = b
    BY <1>5, <2>6, <2>7, <2>8
  <2> QED
    BY <1>3, <1>6, <2>6, <2>8, <2>9, Zenon DEF RemovePlanRight, Tells
<1>7. CASE ~q.st
  <2>1. PICK b : b = [a EXCEPT !.gone = {q}]
    OBVIOUS
  <2>2. b \in Step /\ b.op = "del" /\ b.t = q.t /\ b.qid = v.qbase + q.i /\ b.gone = {q}
    <3>1. b \in Step /\ b.op = a.op /\ b.t = a.t /\ b.qid = a.qid /\ b.gone = {q}
      BY <1>3, <1>4, <2>1, SetGone
    <3> QED
      BY <1>3, <3>1, Zenon
  <2>3. RemovePlan(v, q) = <<b>>
    BY <1>1, <1>7, <2>1, Zenon DEF RemovePlan
  <2>4. PICK p : p = RemovePlan(v, q)
    OBVIOUS
  <2>5. p \in Seq(Step) /\ p # <<>> /\ Len(p) = 1 /\ p[1] = b
    BY <2>2, <2>3, <2>4, OneOf
  <2> QED
    BY <1>7, <2>2, <2>4, <2>5, Zenon DEF RemovePlanRight, Tells
<1> QED
  BY <1>2, <1>6, <1>7, Zenon

LEMMA PlanHead ==
  ASSUME NEW S, NEW p \in Seq(S), p # <<>>
  PROVE  /\ Head(p) = p[1] /\ p[1] \in S /\ Len(p) \in Nat /\ Len(p) > 0 /\ Tail(p) \in Seq(S)
         /\ Len(Tail(p)) = Len(p) - 1 /\ \A i \in 1..(Len(p) - 1) : Tail(p)[i] = p[i + 1]
OBVIOUS

LEMMA ByeIsNoStep ==
  ASSUME NEW p \in Seq(Step), p # <<>>
  PROVE  p[1].op \in Work /\ p # <<Message("bye")>> /\ p # <<Message("hello")>>
<1>1. p[1] \in Step
  BY PlanHead
<1>2. p[1].op \in Work
  BY <1>1, StepIs
<1>3. \A op \in {"bye", "hello"} : Message(op).op = op /\ <<Message(op)>>[1] = Message(op)
  BY MessageIs DEF Ops
<1>4. "bye" \notin Work /\ "hello" \notin Work
  BY DEF Work
<1> QED
  BY <1>2, <1>3, <1>4, Zenon

LEMMA ComposedIs ==
  ASSUME NEW f \in VF, NEW v \in Driver, v.plan # <<>>, NEW m, m = Composed(f, v)
  PROVE  /\ m \in Packet /\ m.src = f /\ m.op = v.plan[1].op /\ m.t = v.plan[1].t /\ m.qid = v.plan[1].qid
         /\ m.op = "fmap" => m.qbase = v.qbase /\ m.qmax = v.qmax
         /\ m.op # "fmap" => m.qbase = -1 /\ m.qmax = v.plan[1].n
         /\ m # Empty
<1>1. PICK s : s = Head(v.plan)
  OBVIOUS
<1>2. s = v.plan[1] /\ s \in Letter
  BY <1>1, DriverIs, PlanHead
<1>3. PICK b, n : b = (IF s.op = "fmap" THEN v.qbase ELSE -1) /\ n = (IF s.op = "fmap" THEN v.qmax ELSE s.n)
  OBVIOUS
<1>4. b \in Int /\ n \in Nat
  BY <1>2, <1>3, DriverIs, LetterIs
<1>5. m = [op |-> s.op, src |-> f, t |-> s.t, qid |-> s.qid, qbase |-> b, qmax |-> n]
  BY <1>1, <1>3, Zenon DEF Composed
<1>6. s.op \in Ops /\ s.t \in QType /\ s.qid \in Int
  BY <1>2, LetterIs
<1>7. m \in Packet
  BY <1>4, <1>5, <1>6 DEF Packet
<1>8. m.op = s.op /\ m.src = f /\ m.t = s.t /\ m.qid = s.qid /\ m.qbase = b /\ m.qmax = n
  BY <1>5
<1>9. m # Empty
  <2>1. "none" \notin Ops /\ Empty.op = "none"
    BY DEF Ops, Work, Empty
  <2> QED
    BY <1>6, <1>8, <2>1, Zenon
<1> QED
  BY <1>2, <1>3, <1>7, <1>8, <1>9, Zenon

-----------------------------------------------------------------------------
(* The caller goes on. *)

LEMMA RefittedIs ==
  ASSUME NEW v \in Driver, NEW w, w = Refitted(v)
  PROVE  /\ w \in Driver
         /\ v.granted = {} => w = v
         /\ v.granted # {} => \E a \in v.granted :
              Has(w, v.state, a.qbase, a.qmax, FALSE, {}, v.plan, v.removing, {})
<1>1. CASE v.granted = {}
  <2>1. w = v
    BY <1>1, Zenon DEF Refitted
  <2> QED
    BY <1>1, <2>1
<1>2. CASE v.granted # {}
  <2>1. PICK a : a = CHOOSE x \in v.granted : TRUE
    OBVIOUS
  <2>2. a \in v.granted
    BY <1>2, <2>1
  <2>3. a.qbase \in Int /\ a.qmax \in Nat
    <3>1. a \in Reply \/ a \in Packet
      BY <2>2, DriverIs
    <3> QED
      BY <3>1 DEF Reply, Packet
  <2>4. PICK b, n : b = a.qbase /\ n = a.qmax
    OBVIOUS
  <2>5. PICK w1 : w1 = [v EXCEPT !.qbase = b, !.qmax = n]
    OBVIOUS
  <2>6. PICK w2 : w2 = [w1 EXCEPT !.init_qrange = FALSE]
    OBVIOUS
  <2>7. PICK w3 : w3 = [w2 EXCEPT !.queues = {}]
    OBVIOUS
  <2>8. w = [w3 EXCEPT !.granted = {}]
    BY <1>2, <2>1, <2>4, <2>5, <2>6, <2>7, Zenon DEF Refitted
  <2>9. b \in Int /\ n \in Nat
    BY <2>3, <2>4
  <2>10. w1 \in Driver /\ Has(w1, v.state, b, n, v.init_qrange, v.queues, v.plan, v.removing, v.granted)
    <3>1. w1 = WithRange(v, b, n)
      BY <2>5, Zenon DEF WithRange
    <3> QED
      BY <2>9, <3>1, SetRange
  <2>11. w2 \in Driver /\ Has(w2, v.state, b, n, FALSE, v.queues, v.plan, v.removing, v.granted)
    <3>1. FALSE \in BOOLEAN
      OBVIOUS
    <3>2. w2 \in Driver /\ Has(w2, w1.state, w1.qbase, w1.qmax, FALSE, w1.queues, w1.plan, w1.removing, w1.granted)
      BY <2>6, <2>10, <3>1, SetInit
    <3> QED
      BY <2>10, <3>2, Zenon DEF Has
  <2>12. w3 \in Driver /\ Has(w3, v.state, b, n, FALSE, {}, v.plan, v.removing, v.granted)
    <3>1. {} \in SUBSET Queue
      OBVIOUS
    <3>2. w3 \in Driver /\ Has(w3, w2.state, w2.qbase, w2.qmax, w2.init_qrange, {}, w2.plan, w2.removing, w2.granted)
      BY <2>7, <2>11, <3>1, SetQueues
    <3> QED
      BY <2>11, <3>2, Zenon DEF Has
  <2>13. w \in Driver /\ Has(w, v.state, b, n, FALSE, {}, v.plan, v.removing, {})
    <3>1. {} \in SUBSET (Reply \cup Packet)
      OBVIOUS
    <3>2. w \in Driver /\ Has(w, w3.state, w3.qbase, w3.qmax, w3.init_qrange, w3.queues, w3.plan, w3.removing, {})
      BY <2>8, <2>12, <3>1, SetGranted
    <3> QED
      BY <2>12, <3>2, Zenon DEF Has
  <2> QED
    BY <1>2, <2>2, <2>4, <2>13, Zenon
<1> QED
  BY <1>1, <1>2, Zenon

(* A caller that has nothing more to send takes the next queue to be removed, or says BYE, or uses *)
(* what it was granted.                                                                           *)
OnwardRight(v, w) ==
  /\ w \in Driver /\ w.state = v.state
  /\ v.plan # <<>> => w = v
  /\ v.plan = <<>> /\ v.removing # {} =>
       \E q \in v.removing :
         /\ RemovePlanRight(v, q, w.plan)
         /\ Has(w, v.state, v.qbase, v.qmax, v.init_qrange, v.queues, w.plan, v.removing \ {q}, v.granted)
  /\ v.plan = <<>> /\ v.removing = {} /\ v.state = "leaving" => Leaves(w)
  /\ v.plan = <<>> /\ v.removing = {} /\ v.state # "leaving" => w = Refitted(v)

LEMMA OnwardIs ==
  ASSUME NEW v \in Driver, NEW w, w = Onward(v)
  PROVE  OnwardRight(v, w)
<1>1. CASE v.plan # <<>>
  <2>1. w = v
    BY <1>1, Zenon DEF Onward
  <2> QED
    BY <1>1, <2>1, Zenon DEF OnwardRight
<1>2. CASE v.plan = <<>> /\ v.removing # {}
  <2>1. PICK q : q = CHOOSE p \in v.removing : TRUE
    OBVIOUS
  <2>2. q \in v.removing
    BY <1>2, <2>1
  <2>3. q \in Queue
    BY <2>2, DriverIs
  <2>4. PICK p, S : p = RemovePlan(v, q) /\ S = v.removing \ {q}
    OBVIOUS
  <2>5. w = [v EXCEPT !.plan = p, !.removing = S]
    BY <1>2, <2>1, <2>4, Zenon DEF Onward
  <2>6. RemovePlanRight(v, q, p)
    BY <2>3, <2>4, RemovePlanIs
  <2>7. p \in Seq(Letter)
    BY <2>6, StepIsLetter DEF RemovePlanRight
  <2>8. S \in SUBSET Queue
    BY <2>4, DriverIs
  <2>9. PICK w1 : w1 = [v EXCEPT !.plan = p]
    OBVIOUS
  <2>10. w1 \in Driver /\ Has(w1, v.state, v.qbase, v.qmax, v.init_qrange, v.queues, p, v.removing, v.granted)
    BY <2>7, <2>9, SetPlan
  <2>11. w = [w1 EXCEPT !.removing = S]
    BY <2>5, <2>9, Zenon
  <2>12. w \in Driver /\ Has(w, w1.state, w1.qbase, w1.qmax, w1.init_qrange, w1.queues, w1.plan, S, w1.granted)
    BY <2>8, <2>10, <2>11, SetRemoving
  <2>13. w \in Driver /\ Has(w, v.state, v.qbase, v.qmax, v.init_qrange, v.queues, p, S, v.granted)
    BY <2>10, <2>12, Zenon DEF Has
  <2>14. w.plan = p /\ w.state = v.state
    BY <2>13, Zenon DEF Has
  <2>15. RemovePlanRight(v, q, w.plan)
         /\ Has(w, v.state, v.qbase, v.qmax, v.init_qrange, v.queues, w.plan, v.removing \ {q}, v.granted)
    BY <2>4, <2>6, <2>13, <2>14, Zenon
  <2> QED
    BY <1>2, <2>2, <2>13, <2>14, <2>15, Zenon DEF OnwardRight
<1>3. CASE v.plan = <<>> /\ v.removing = {} /\ v.state = "leaving"
  <2>1. PICK p : p = <<Message("bye")>>
    OBVIOUS
  <2>2. w = [v EXCEPT !.plan = p]
    BY <1>3, <2>1, Zenon DEF Onward
  <2>3. p \in Seq(Letter)
    <3>1. Message("bye") \in Letter
      BY MessageIs DEF Ops
    <3> QED
      BY <2>1, <3>1, OneOf
  <2>4. w \in Driver /\ Has(w, v.state, v.qbase, v.qmax, v.init_qrange, v.queues, p, v.removing, v.granted)
    BY <2>2, <2>3, SetPlan
  <2> QED
    BY <1>3, <2>1, <2>4, Zenon DEF OnwardRight, Has, Leaves
<1>4. CASE v.plan = <<>> /\ v.removing = {} /\ v.state # "leaving"
  <2>1. w = Refitted(v)
    BY <1>4, Zenon DEF Onward
  <2>2. w \in Driver /\ w.state = v.state
    BY <2>1, RefittedIs, Zenon DEF Has
  <2> QED
    BY <1>4, <2>1, <2>2, Zenon DEF OnwardRight
<1> QED
  BY <1>1, <1>2, <1>3, <1>4, Zenon

(* What may be sent next by a caller: its request is queued, or it has none. *)
Goes(v) == Starting(v) \/ (v.state \in {"on", "leaving"} /\ v.plan \in Seq(Step))
Next1(f, w) == IF w.plan = <<>> THEN Nothing ELSE [place |-> "todo", msg |-> Composed(f, w)]

LEMMA NextIs ==
  ASSUME NEW f, NEW w
  PROVE  /\ w.plan = <<>> => Next1(f, w) = Nothing /\ Next1(f, w).place = "none"
         /\ w.plan # <<>> => /\ Next1(f, w).place = "todo" /\ Next1(f, w).msg = Composed(f, w)
                             /\ Next1(f, w) # Nothing
                             /\ Next1(f, w) = [place |-> Next1(f, w).place, msg |-> Next1(f, w).msg]
<1>1. CASE w.plan = <<>>
  BY <1>1 DEF Next1, Nothing
<1>2. CASE w.plan # <<>>
  <2>1. PICK m : m = Composed(f, w)
    OBVIOUS
  <2>2. Next1(f, w) = [place |-> "todo", msg |-> m]
    BY <1>2, <2>1, Zenon DEF Next1
  <2>3. Next1(f, w).place = "todo" /\ Next1(f, w).msg = m
    BY <2>2
  <2>4. Nothing.place = "none"
    BY DEF Nothing
  <2>5. Next1(f, w) # Nothing
    BY <2>3, <2>4, Zenon
  <2>6. Next1(f, w) = [place |-> Next1(f, w).place, msg |-> Next1(f, w).msg]
    BY <2>2, <2>3, Zenon
  <2> QED
    BY <1>2, <2>1, <2>3, <2>5, <2>6, Zenon
<1> QED
  BY <1>1, <1>2, Zenon

LEMMA OnwardTypes ==
  ASSUME NEW f \in VF, NEW v \in Driver, Goes(v), NEW w, w = Onward(v)
  PROVE  /\ w \in Driver /\ w.state = v.state
         /\ Starting(w) \/ Works(w) \/ Leaves(w) \/ Rests(w)
         /\ Works(w) => v.plan # <<>> \/ v.removing # {}
         /\ Starting(w) => w = v
         /\ CallerRight(f, w, Next1(f, w))
<1>1. OnwardRight(v, w)
  BY OnwardIs
<1>2. w \in Driver /\ w.state = v.state
  BY <1>1, Zenon DEF OnwardRight
<1>3. <<Message("hello")>> # <<>> /\ <<Message("bye")>> # <<>>
  BY MessageIs, OneOf DEF Ops
<1>4. /\ Starting(w) \/ Works(w) \/ Leaves(w) \/ Rests(w)
      /\ Works(w) => v.plan # <<>> \/ v.removing # {}
      /\ Starting(w) => w = v
  <2>1. CASE v.plan # <<>>
    <3>1. w = v
      BY <1>1, <2>1, Zenon DEF OnwardRight
    <3> QED
      BY <2>1, <3>1, Zenon DEF Goes, Works
  <2>2. CASE v.plan = <<>> /\ v.removing # {}
    <3>1. PICK q \in v.removing : RemovePlanRight(v, q, w.plan)
      BY <1>1, <2>2, Zenon DEF OnwardRight
    <3>2. w.plan \in Seq(Step) /\ w.plan # <<>>
      BY <3>1, Zenon DEF RemovePlanRight
    <3>3. ~Starting(v)
      BY <1>3, <2>2, Zenon DEF Starting
    <3>4. v.state \in {"on", "leaving"}
      BY <3>3, Zenon DEF Goes
    <3>5. ~Starting(w)
      BY <3>2, ByeIsNoStep, Zenon DEF Starting
    <3> QED
      BY <1>2, <2>2, <3>2, <3>4, <3>5, Zenon DEF Works
  <2>3. CASE v.plan = <<>> /\ v.removing = {} /\ v.state = "leaving"
    <3>1. Leaves(w)
      BY <1>1, <2>3, Zenon DEF OnwardRight
    <3>2. ~Works(w)
      BY <3>1, ByeIsNoStep, Zenon DEF Leaves, Works
    <3>3. ~Starting(w)
      BY <3>1 DEF Leaves, Starting
    <3> QED
      BY <3>1, <3>2, <3>3, Zenon
  <2>4. CASE v.plan = <<>> /\ v.removing = {} /\ v.state # "leaving"
    <3>1. w = Refitted(v)
      BY <1>1, <2>4, Zenon DEF OnwardRight
    <3>2. w.plan = <<>>
      BY <2>4, <3>1, RefittedIs, Zenon DEF Has
    <3>3. ~Starting(v)
      BY <1>3, <2>4, Zenon DEF Starting
    <3>4. v.state = "on"
      BY <2>4, <3>3, Zenon DEF Goes
    <3> QED
      BY <1>2, <1>3, <3>2, <3>4, Zenon DEF Rests, Works, Starting
  <2> QED
    BY <2>1, <2>2, <2>3, <2>4, Zenon
<1>5. CallerRight(f, w, Next1(f, w))
  <2>1. CASE w.plan = <<>>
    <3>1. Rests(w)
      BY <1>3, <1>4, <2>1, Zenon DEF Starting, Works, Leaves
    <3> QED
      BY <1>2, <2>1, <3>1, NextIs, Zenon DEF CallerRight
  <2>2. CASE w.plan # <<>>
    <3>1. Starting(w) \/ Works(w) \/ Leaves(w)
      BY <1>4, <2>2, Zenon DEF Rests
    <3>2. Next1(f, w).place = "todo" /\ Next1(f, w).msg = Composed(f, w)
          /\ Next1(f, w) = [place |-> Next1(f, w).place, msg |-> Next1(f, w).msg]
      BY <2>2, NextIs, Zenon
    <3>3. "todo" # "matched"
      OBVIOUS
    <3> QED
      BY <1>2, <3>1, <3>2, <3>3, Zenon DEF CallerRight
  <2> QED
    BY <2>1, <2>2, Zenon
<1> QED
  BY <1>2, <1>4, <1>5, Zenon

(* The caller's wait is over. *)
ReturnedRight(v, ok, a, w) ==
  /\ w \in Driver /\ w.qbase = v.qbase /\ w.qmax = v.qmax
  /\ w.plan = IF ok THEN Tail(v.plan) ELSE v.plan[1].otherwise
  /\ w.queues = v.queues \ (IF ok THEN v.plan[1].gone ELSE v.plan[1].undone)
  /\ w.state = IF v.plan[1].op = "hello" THEN (IF ok THEN "on" ELSE "leaving") ELSE v.state
  /\ w.init_qrange = IF v.plan[1].op = "fmap" THEN ok ELSE v.init_qrange
  /\ w.removing = IF v.plan[1].op = "qreq" /\ ok THEN v.queues ELSE v.removing
  /\ w.granted = IF v.plan[1].op = "qreq" /\ ok THEN {a} ELSE v.granted

LEMMA ReturnedIs ==
  ASSUME NEW f, NEW v \in Driver, v = vf[f], v.plan # <<>>, NEW ok \in BOOLEAN, NEW a \in Reply \cup Packet,
         NEW w, w = Returned(f, ok, a)
  PROVE  ReturnedRight(v, ok, a, w)
<1>1. PICK s : s = Head(v.plan)
  OBVIOUS
<1>2. s = v.plan[1] /\ s \in Letter /\ Tail(v.plan) \in Seq(Letter)
  BY <1>1, DriverIs, PlanHead
<1>3. s.gone \subseteq Queue /\ s.undone \subseteq Queue /\ s.otherwise \in Seq(Letter)
  BY <1>2, LetterIs, StepIsLetter
<1>4. PICK p, S : /\ p = IF ok THEN Tail(v.plan) ELSE s.otherwise
                  /\ S = v.queues \ (IF ok THEN s.gone ELSE s.undone)
  OBVIOUS
<1>5. p \in Seq(Letter) /\ S \in SUBSET Queue
  BY <1>2, <1>3, <1>4, DriverIs
<1>6. PICK n1 : n1 = [v EXCEPT !.plan = p]
  OBVIOUS
<1>7. PICK n : n = [n1 EXCEPT !.queues = S]
  OBVIOUS
<1>8. n = IF ok THEN [v EXCEPT !.plan = Tail(@), !.queues = @ \ s.gone]
          ELSE [v EXCEPT !.plan = s.otherwise, !.queues = @ \ s.undone]
  <2>1. CASE ok
    BY <1>4, <1>6, <1>7, <2>1, Zenon
  <2>2. CASE ~ok
    BY <1>4, <1>6, <1>7, <2>2, Zenon
  <2> QED
    BY <2>1, <2>2, Zenon
<1>9. n \in Driver /\ Has(n, v.state, v.qbase, v.qmax, v.init_qrange, S, p, v.removing, v.granted)
  <2>1. n1 \in Driver /\ Has(n1, v.state, v.qbase, v.qmax, v.init_qrange, v.queues, p, v.removing, v.granted)
    BY <1>5, <1>6, SetPlan
  <2>2. n \in Driver /\ Has(n, n1.state, n1.qbase, n1.qmax, n1.init_qrange, S, n1.plan, n1.removing, n1.granted)
    BY <1>5, <1>7, <2>1, SetQueues
  <2> QED
    BY <2>1, <2>2, Zenon DEF Has
<1>10. w = CASE s.op = "hello" -> [n EXCEPT !.state = IF ok THEN "on" ELSE "leaving"]
             [] s.op = "fmap"  -> [n EXCEPT !.init_qrange = ok]
             [] s.op = "qreq" /\ ok -> [n EXCEPT !.removing = v.queues, !.granted = {a}]
             [] OTHER -> n
  BY <1>1, <1>8, Zenon DEF Returned
<1>11. CASE s.op = "hello"
  <2>1. PICK x : x = IF ok THEN "on" ELSE "leaving"
    OBVIOUS
  <2>2. x \in {"off", "starting", "on", "leaving"}
    BY <2>1
  <2>3. w = [n EXCEPT !.state = x]
    BY <1>10, <1>11, <2>1, Zenon
  <2>4. w \in Driver /\ Has(w, x, n.qbase, n.qmax, n.init_qrange, n.queues, n.plan, n.removing, n.granted)
    BY <1>9, <2>2, <2>3, SetState
  <2>5. s.op # "fmap" /\ s.op # "qreq"
    BY <1>11
  <2> QED
    BY <1>2, <1>4, <1>9, <1>11, <2>1, <2>4, <2>5, Zenon DEF Has, ReturnedRight
<1>12. CASE s.op = "fmap"
  <2>1. s.op # "hello" /\ s.op # "qreq"
    BY <1>12
  <2>2. w = [n EXCEPT !.init_qrange = ok]
    BY <1>10, <1>12, <2>1, Zenon
  <2>3. w \in Driver /\ Has(w, n.state, n.qbase, n.qmax, ok, n.queues, n.plan, n.removing, n.granted)
    BY <1>9, <2>2, SetInit
  <2> QED
    BY <1>2, <1>4, <1>9, <1>12, <2>1, <2>3, Zenon DEF Has, ReturnedRight
<1>13. CASE s.op = "qreq" /\ ok
  <2>1. s.op # "hello" /\ s.op # "fmap"
    BY <1>13
  <2>2. PICK n2 : n2 = [n EXCEPT !.removing = v.queues]
    OBVIOUS
  <2>3. w = [n2 EXCEPT !.granted = {a}]
    BY <1>10, <1>13, <2>1, <2>2, Zenon
  <2>4. v.queues \in SUBSET Queue /\ {a} \in SUBSET (Reply \cup Packet)
    BY DriverIs
  <2>5. n2 \in Driver /\ Has(n2, n.state, n.qbase, n.qmax, n.init_qrange, n.queues, n.plan, v.queues, n.granted)
    BY <1>9, <2>2, <2>4, SetRemoving
  <2>6. w \in Driver /\ Has(w, n2.state, n2.qbase, n2.qmax, n2.init_qrange, n2.queues, n2.plan, n2.removing, {a})
    BY <2>3, <2>4, <2>5, SetGranted
  <2> QED
    BY <1>2, <1>4, <1>9, <1>13, <2>1, <2>5, <2>6, ZenonT(40) DEF Has, ReturnedRight
<1>14. CASE s.op # "hello" /\ s.op # "fmap" /\ ~(s.op = "qreq" /\ ok)
  <2>1. w = n
    BY <1>10, <1>14, Zenon
  <2> QED
    BY <1>2, <1>4, <1>9, <1>14, <2>1, Zenon DEF Has, ReturnedRight
<1> QED
  BY <1>11, <1>12, <1>13, <1>14, Zenon

LEMMA ReturnedGoes ==
  ASSUME NEW f, NEW v \in Driver, v = vf[f], Starting(v) \/ Works(v), NEW ok \in BOOLEAN,
         NEW a \in Reply \cup Packet, NEW w, w = Returned(f, ok, a)
  PROVE  /\ ReturnedRight(v, ok, a, w) /\ Goes(w)
         /\ Starting(v) => v.plan[1].op = "hello" /\ v.plan[1].gone = {} /\ v.plan[1].undone = {}
                           /\ w.plan = <<>> /\ w.removing = {} /\ w.state = IF ok THEN "on" ELSE "leaving"
         /\ Works(v) => v.plan[1].op \in Work /\ w.state = v.state
<1>1. v.plan # <<>>
  <2>1. <<Message("hello")>> # <<>>
    BY MessageIs, OneOf DEF Ops
  <2> QED
    BY <2>1, Zenon DEF Starting, Works
<1>2. ReturnedRight(v, ok, a, w)
  BY <1>1, ReturnedIs
<1>3. w.plan = IF ok THEN Tail(v.plan) ELSE v.plan[1].otherwise
  BY <1>2, Zenon DEF ReturnedRight
<1>4. CASE Starting(v)
  <2>1. PICK h : h = Message("hello")
    OBVIOUS
  <2>2. h \in Letter /\ h.op = "hello" /\ h.otherwise = <<>> /\ h.gone = {} /\ h.undone = {}
    BY <2>1, MessageIs DEF Ops
  <2>3. v.plan = <<h>>
    BY <1>4, <2>1, Zenon DEF Starting
  <2>4. v.plan[1] = h /\ Tail(v.plan) = <<>>
    BY <2>2, <2>3
  <2>5. w.plan = <<>>
    BY <1>3, <2>2, <2>4, Zenon
  <2>6. w.state = IF ok THEN "on" ELSE "leaving"
    BY <1>2, <2>2, <2>4, Zenon DEF ReturnedRight
  <2>7. w.removing = {}
    <3>1. "hello" # "qreq"
      OBVIOUS
    <3> QED
      BY <1>2, <1>4, <2>2, <2>4, <3>1, Zenon DEF ReturnedRight, Starting
  <2>8. w.plan \in Seq(Step) /\ w.state \in {"on", "leaving"}
    BY <2>5, <2>6
  <2>9. ~Works(v)
    BY <1>4 DEF Starting, Works
  <2> QED
    BY <1>2, <2>2, <2>4, <2>5, <2>6, <2>7, <2>8, <2>9, Zenon DEF Goes
<1>5. CASE Works(v)
  <2>1. v.plan \in Seq(Step)
    BY <1>5, Zenon DEF Works
  <2>2. v.plan[1] \in Step /\ Tail(v.plan) \in Seq(Step)
    BY <1>1, <2>1, PlanHead
  <2>3. v.plan[1].otherwise \in Seq(Step)
    BY <2>2, StepIs, LetterIs, StepIsLetter
  <2>4. v.plan[1].op \in Work
    BY <2>2, StepIs
  <2>5. v.plan[1].op # "hello"
    BY <2>4 DEF Work
  <2>6. w.state = v.state
    BY <1>2, <2>5, Zenon DEF ReturnedRight
  <2>7. w.plan \in Seq(Step)
    BY <1>3, <2>2, <2>3, Zenon
  <2>8. ~Starting(v)
    BY <1>5 DEF Starting, Works
  <2> QED
    BY <1>2, <1>5, <2>4, <2>6, <2>7, <2>8, Zenon DEF Goes, Works
<1> QED
  BY <1>4, <1>5

(* What a caller goes on from, when its call begins. *)
LEMMA Opening ==
  ASSUME NEW w, w = [Off EXCEPT !.state = "starting", !.plan = <<Message("hello")>>]
  PROVE  w \in Driver /\ Begun(w) /\ Goes(w) /\ w.plan # <<>>
<1>1. PICK p : p = <<Message("hello")>>
  OBVIOUS
<1>2. p \in Seq(Letter) /\ p # <<>>
  BY <1>1, MessageIs, OneOf DEF Ops
<1>3. PICK w1 : w1 = [Off EXCEPT !.state = "starting"]
  OBVIOUS
<1>4. w = [w1 EXCEPT !.plan = p]
  BY <1>1, <1>3, Zenon
<1>5. w1 \in Driver /\ Has(w1, "starting", -1, 0, FALSE, {}, <<>>, {}, {})
  <2>1. w1 \in Driver /\ Has(w1, "starting", Off.qbase, Off.qmax, Off.init_qrange, Off.queues, Off.plan,
                              Off.removing, Off.granted)
    BY <1>3, OffIs, SetState
  <2> QED
    BY <2>1, OffIs, Zenon DEF Has
<1>6. w \in Driver /\ Has(w, "starting", -1, 0, FALSE, {}, p, {}, {})
  <2>1. w \in Driver /\ Has(w, w1.state, w1.qbase, w1.qmax, w1.init_qrange, w1.queues, p, w1.removing, w1.granted)
    BY <1>2, <1>4, <1>5, SetPlan
  <2> QED
    BY <1>5, <2>1, Zenon DEF Has
<1> QED
  BY <1>1, <1>2, <1>6, Zenon DEF Has, Begun, Goes, Starting

LEMMA AskingOf ==
  ASSUME NEW v \in Driver, NEW n \in Nat, NEW w, w = [v EXCEPT !.plan = <<[Message("qreq") EXCEPT !.n = n]>>]
  PROVE  /\ w \in Driver /\ w.plan \in Seq(Step) /\ w.plan # <<>>
         /\ Has(w, v.state, v.qbase, v.qmax, v.init_qrange, v.queues, w.plan, v.removing, v.granted)
         /\ Len(w.plan) = 1 /\ w.plan[1].op = "qreq" /\ w.plan[1].gone = {} /\ w.plan[1].undone = {}
         /\ w.plan[1].otherwise = <<>>
<1>1. PICK m : m = Message("qreq")
  OBVIOUS
<1>2. m \in Step /\ m.op = "qreq" /\ m.gone = {} /\ m.undone = {} /\ m.otherwise = <<>>
  BY <1>1, MessageIs DEF Ops, Work
<1>3. PICK s : s = [m EXCEPT !.n = n]
  OBVIOUS
<1>4. s \in Step /\ s.op = "qreq" /\ s.gone = {} /\ s.undone = {} /\ s.otherwise = <<>>
  BY <1>2, <1>3 DEF Step, StepOf
<1>5. PICK p : p = <<s>>
  OBVIOUS
<1>6. p \in Seq(Step) /\ p # <<>> /\ Len(p) = 1 /\ p[1] = s
  BY <1>4, <1>5, OneOf
<1>7. w = [v EXCEPT !.plan = p]
  BY <1>1, <1>3, <1>5, Zenon
<1>8. w \in Driver /\ Has(w, v.state, v.qbase, v.qmax, v.init_qrange, v.queues, p, v.removing, v.granted)
  BY <1>6, <1>7, SetPlan, StepIsLetter
<1> QED
  BY <1>4, <1>6, <1>8, Zenon DEF Has

WithQueue(v, q) == [v EXCEPT !.queues = @ \cup {q}, !.plan = AddPlan(v, q)]

LEMMA AddingOf ==
  ASSUME NEW v \in Driver, NEW q \in Queue, NEW w, w = WithQueue(v, q)
  PROVE  /\ w \in Driver /\ AddPlanRight(v, q, w.plan)
         /\ Has(w, v.state, v.qbase, v.qmax, v.init_qrange, v.queues \cup {q}, w.plan, v.removing, v.granted)
<1>1. PICK p, S : p = AddPlan(v, q) /\ S = v.queues \cup {q}
  OBVIOUS
<1>2. AddPlanRight(v, q, p)
  BY <1>1, AddPlanIs
<1>3. p \in Seq(Letter) /\ S \in SUBSET Queue
  BY <1>1, <1>2, StepIsLetter, DriverIs DEF AddPlanRight
<1>4. PICK w1 : w1 = [v EXCEPT !.queues = S]
  OBVIOUS
<1>5. w = [w1 EXCEPT !.plan = p]
  BY <1>1, <1>4, Zenon DEF WithQueue
<1>6. w1 \in Driver /\ Has(w1, v.state, v.qbase, v.qmax, v.init_qrange, S, v.plan, v.removing, v.granted)
  BY <1>3, <1>4, SetQueues
<1>7. w \in Driver /\ Has(w, w1.state, w1.qbase, w1.qmax, w1.init_qrange, w1.queues, p, w1.removing, w1.granted)
  BY <1>3, <1>5, <1>6, SetPlan
<1> QED
  BY <1>1, <1>2, <1>6, <1>7, Zenon DEF Has

LEMMA RemovingOf ==
  ASSUME NEW v \in Driver, NEW q \in v.queues, NEW w, w = [v EXCEPT !.removing = {q}]
  PROVE  /\ w \in Driver
         /\ Has(w, v.state, v.qbase, v.qmax, v.init_qrange, v.queues, v.plan, {q}, v.granted)
<1>1. {q} \in SUBSET Queue
  BY DriverIs
<1> QED
  BY <1>1, SetRemoving

Parting(v) == [v EXCEPT !.state = "leaving", !.removing = v.queues]

LEMMA LeavingOf ==
  ASSUME NEW v \in Driver, NEW w, w = Parting(v)
  PROVE  /\ w \in Driver
         /\ Has(w, "leaving", v.qbase, v.qmax, v.init_qrange, v.queues, v.plan, v.queues, v.granted)
<1>1. PICK w1 : w1 = [v EXCEPT !.state = "leaving"]
  OBVIOUS
<1>2. w = [w1 EXCEPT !.removing = v.queues]
  BY <1>1, Zenon DEF Parting
<1>3. w1 \in Driver /\ Has(w1, "leaving", v.qbase, v.qmax, v.init_qrange, v.queues, v.plan, v.removing, v.granted)
  BY <1>1, SetState
<1>4. v.queues \in SUBSET Queue
  BY DriverIs
<1>5. w \in Driver /\ Has(w, w1.state, w1.qbase, w1.qmax, w1.init_qrange, w1.queues, w1.plan, v.queues, w1.granted)
  BY <1>2, <1>3, <1>4, SetRemoving
<1> QED
  BY <1>3, <1>5, Zenon DEF Has

-----------------------------------------------------------------------------
(* A call of a function that is in use goes on. *)
Called(f) == \E v \in Driver : Goes(v) /\ v.state \in {"on", "leaving"} /\ Proceed(f, v)

(* A step of one function leaves the callers of the others alone. *)

Moves(f, w, r) ==
  /\ DOMAIN vf' = VF /\ DOMAIN req' = VF /\ vf'[f] = w /\ req'[f] = r
  /\ \A g \in VF : g # f => vf'[g] = vf[g] /\ req'[g] = req[g]

LEMMA MovesIs ==
  ASSUME Wires, NEW f \in VF, NEW w, NEW r, vf' = [vf EXCEPT ![f] = w], req' = [req EXCEPT ![f] = r]
  PROVE  Moves(f, w, r)
BY Zenon DEF Moves, Wires

LEMMA ProceedIs ==
  ASSUME Wires, NEW f \in VF, NEW v, Proceed(f, v)
  PROVE  Moves(f, Onward(v), Next1(f, Onward(v)))
<1>1. PICK w : w = Onward(v)
  OBVIOUS
<1>2. PICK r : r = Next1(f, w)
  OBVIOUS
<1>3. vf' = [vf EXCEPT ![f] = w] /\ req' = [req EXCEPT ![f] = r]
  BY <1>1, <1>2, Zenon DEF Proceed, Next1
<1> QED
  BY <1>1, <1>2, <1>3, MovesIs

LEMMA CallersMoved ==
  ASSUME Types, NEW f \in VF, NEW w, NEW r, Moves(f, w, r), CallerRight(f, w, r)
  PROVE  Callers'
<1>1. ASSUME NEW g \in VF
      PROVE  CallerRight(g, vf'[g], req'[g])
  <2>1. CASE g = f
    BY <2>1, Zenon DEF Moves
  <2>2. CASE g # f
    BY <2>2, Zenon DEF Moves, Types, Callers
  <2> QED
    BY <2>1, <2>2, Zenon
<1> QED
  BY <1>1, Zenon DEF Callers

LEMMA CallersSame ==
  ASSUME Types, UNCHANGED <<vf, req>>
  PROVE  Callers'
BY Zenon DEF Types, Callers

-----------------------------------------------------------------------------
(* What the PF does with a message of f: what it keeps of the other functions stays as it is. *)

Elsewhere(f, p2, map2) ==
  /\ PoolOk(p2) /\ DOMAIN map2 = VF
  /\ \A g \in VF : g # f => /\ g \in DOMAIN p2.dev <=> g \in DOMAIN pool.dev
                            /\ DeviceOf(p2.dev, g) = DeviceOf(pool.dev, g)
                            /\ map2[g] = fmap[g]

LEMMA ResultIs ==
  ASSUME NEW a, NEW b, NEW c, NEW r, r = Result(a, b, c)
  PROVE  r.status = a /\ r.pool = b /\ r.fmap = c
BY DEF Result

LEMMA UnmappedIs ==
  ASSUME Wires, NEW f \in VF, NEW m, m = Unmapped(f)
  PROVE  DOMAIN m = VF /\ m[f] = NoMap /\ \A g \in VF : g # f => m[g] = fmap[g]
BY Zenon DEF Wires, Unmapped

LEMMA DeviceOfIs ==
  ASSUME NEW p, AllDevices(p), NEW f
  PROVE  /\ DeviceOf(p.dev, f) \in Device
         /\ f \in DOMAIN p.dev => DeviceOf(p.dev, f) = p.dev[f]
<1>1. [entry |-> NoQueues, active |-> NoneActive] \in Device
  <2>1. NoQueues \in Entry
    BY NoQueuesIs, Zenon
  <2>2. NoneActive \in [QType -> Nat]
    BY DEF NoneActive
  <2> QED
    BY <2>1, <2>2, Zenon DEF Device
<1> QED
  BY <1>1, Zenon DEF DeviceOf, AllDevices

LEMMA OthersSame ==
  ASSUME Types, NEW f \in VF, NEW p2, PoolOk(p2), NEW map2, DOMAIN map2 = VF,
         \A g \in VF : g # f => map2[g] = fmap[g],
         \A g \in VF : g # f => (g \in DOMAIN p2.dev <=> g \in DOMAIN pool.dev),
         \A g \in VF : g # f /\ g \in DOMAIN pool.dev => p2.dev[g] = pool.dev[g]
  PROVE  Elsewhere(f, p2, map2)
BY Zenon DEF Elsewhere, DeviceOf

LEMMA SamePool ==
  ASSUME Types, NEW f \in VF, NEW map2, DOMAIN map2 = VF, \A g \in VF : g # f => map2[g] = fmap[g]
  PROVE  Elsewhere(f, pool, map2)
BY Zenon DEF Elsewhere, Types, Account

LEMMA ByeDone ==
  ASSUME Types, NEW f \in VF, NEW m, m.src = f, m.op = "bye", NEW r, r = Handled(m)
  PROVE  Elsewhere(f, r.pool, r.fmap) /\ f \notin DOMAIN r.pool.dev /\ r.fmap[f] = NoMap /\ r.status = 0
<1>1. PICK p2 : p2 = IF Known(f) THEN DevEntryDestroy(pool, f) ELSE pool
  OBVIOUS
<1>2. r = Result(0, p2, Unmapped(f))
  BY <1>1, Zenon DEF Handled
<1>3. PICK map2 : map2 = Unmapped(f)
  OBVIOUS
<1>4. r.status = 0 /\ r.pool = p2 /\ r.fmap = map2
  BY <1>2, <1>3 DEF Result
<1>5. DOMAIN map2 = VF /\ map2[f] = NoMap /\ \A g \in VF : g # f => map2[g] = fmap[g]
  BY <1>3, UnmappedIs, Zenon DEF Types
<1>6. CASE Known(f)
  <2>1. p2 = DevEntryDestroy(pool, f)
    BY <1>1, <1>6, Zenon
  <2>2. ForgottenRight(pool, p2, f)
    BY <2>1, <1>6, DestroyedIs, Zenon DEF Types, Account, PoolOk, Known
  <2>3. PoolOk(p2)
    BY <2>2, Zenon DEF ForgottenRight, PoolOk, Types, Account
  <2>4. f \notin DOMAIN p2.dev
    BY <2>2, Zenon DEF ForgottenRight
  <2>5. /\ \A g \in VF : g # f => (g \in DOMAIN p2.dev <=> g \in DOMAIN pool.dev)
        /\ \A g \in VF : g # f /\ g \in DOMAIN pool.dev => p2.dev[g] = pool.dev[g]
    BY <2>2, Zenon DEF ForgottenRight
  <2>6. Elsewhere(f, p2, map2)
    BY <1>5, <2>3, <2>5, OthersSame, Zenon
  <2> QED
    BY <1>4, <1>5, <2>4, <2>6, Zenon
<1>7. CASE ~Known(f)
  <2>1. p2 = pool
    BY <1>1, <1>7, Zenon
  <2>2. Elsewhere(f, p2, map2)
    BY <2>1, <1>5, SamePool, Zenon
  <2> QED
    BY <1>4, <1>5, <1>7, <2>1, <2>2, Zenon DEF Known
<1> QED
  BY <1>6, <1>7, Zenon

LEMMA HelloDone ==
  ASSUME Types, NEW f \in VF, NEW m, m.src = f, m.op = "hello", NEW r, r = Handled(m)
  PROVE  /\ Elsewhere(f, r.pool, r.fmap) /\ f \in DOMAIN r.pool.dev /\ r.fmap[f] = NoMap /\ r.status = 0
         /\ DOMAIN r.pool.dev = DOMAIN pool.dev \cup {f}
         /\ Known(f) => r.pool = pool
         /\ ~Known(f) => /\ DeviceOf(r.pool.dev, f).entry = NoQueues
                         /\ \A t \in QType : DeviceOf(r.pool.dev, f).active[t] = 0
<1>1. PICK p2 : p2 = IF Known(f) THEN pool ELSE DevEntryCreate(pool, f)
  OBVIOUS
<1>2. r = Result(0, p2, Unmapped(f))
  <2>1. "hello" # "bye"
    OBVIOUS
  <2> QED
    BY <1>1, <2>1, Zenon DEF Handled
<1>3. PICK map2 : map2 = Unmapped(f)
  OBVIOUS
<1>4. r.status = 0 /\ r.pool = p2 /\ r.fmap = map2
  BY <1>2, <1>3 DEF Result
<1>5. DOMAIN map2 = VF /\ map2[f] = NoMap /\ \A g \in VF : g # f => map2[g] = fmap[g]
  BY <1>3, UnmappedIs, Zenon DEF Types
<1>6. CASE ~Known(f)
  <2>1. p2 = DevEntryCreate(pool, f)
    BY <1>1, <1>6, Zenon
  <2>2. KnownRight(pool, p2, f)
    BY <2>1, <1>6, CreatedIs, Zenon DEF Types, Account, PoolOk, Known
  <2>3. Shared(p2.free, p2.dev)
    <3>1. f \notin DOMAIN pool.dev /\ Shared(pool.free, pool.dev)
      BY <1>6, Zenon DEF Known, Types, Account, PoolOk
    <3>2. \A g \in DOMAIN pool.dev : p2.dev[g].entry = pool.dev[g].entry
      BY <2>2, Zenon DEF KnownRight
    <3>3. DOMAIN p2.dev = DOMAIN pool.dev \cup {f} /\ p2.dev[f].entry = NoQueues /\ p2.free = pool.free
      BY <2>2, Zenon DEF KnownRight
    <3> QED
      BY <3>1, <3>2, <3>3, SharedNew, Zenon
  <2>4. PoolOk(p2)
    <3>1. DOMAIN p2.dev \subseteq VF
      BY <2>2, Zenon DEF KnownRight, PoolOk, Types, Account
    <3> QED
      BY <2>2, <2>3, <3>1, Zenon DEF KnownRight, PoolOk
  <2>5. f \in DOMAIN p2.dev /\ p2.dev[f].entry = NoQueues /\ \A t \in QType : p2.dev[f].active[t] = 0
    BY <2>2, Zenon DEF KnownRight
  <2>6. /\ \A g \in VF : g # f => (g \in DOMAIN p2.dev <=> g \in DOMAIN pool.dev)
        /\ \A g \in VF : g # f /\ g \in DOMAIN pool.dev => p2.dev[g] = pool.dev[g]
    BY <2>2, Zenon DEF KnownRight
  <2>7. Elsewhere(f, p2, map2)
    BY <1>5, <2>4, <2>6, OthersSame, Zenon
  <2>8. DOMAIN p2.dev = DOMAIN pool.dev \cup {f}
    BY <2>2, Zenon DEF KnownRight
  <2> QED
    BY <1>4, <1>5, <1>6, <2>5, <2>7, <2>8, Zenon DEF DeviceOf
<1>7. CASE Known(f)
  <2>1. p2 = pool
    BY <1>1, <1>7, Zenon
  <2>2. Elsewhere(f, p2, map2)
    BY <2>1, <1>5, SamePool, Zenon
  <2>3. DOMAIN p2.dev = DOMAIN pool.dev \cup {f}
    BY <1>7, <2>1, Zenon DEF Known
  <2> QED
    BY <1>4, <1>5, <1>7, <2>1, <2>2, <2>3, Zenon DEF Known
<1> QED
  BY <1>6, <1>7, Zenon

LEMMA FmapDone ==
  ASSUME Types, NEW f \in VF, NEW m, m.src = f, m.op = "fmap", NEW r, r = Handled(m)
  PROVE  /\ Elsewhere(f, r.pool, r.fmap) /\ r.pool = pool /\ r.status = 0
         /\ r.fmap[f] = MapOf(m.qbase, m.qmax)
<1>1. PICK e : e = MapOf(m.qbase, m.qmax)
  OBVIOUS
<1>2. PICK map2 : map2 = [fmap EXCEPT ![f] = e]
  OBVIOUS
<1>3. r = Result(0, pool, map2)
  <2>1. "fmap" # "bye" /\ "fmap" # "hello"
    OBVIOUS
  <2> QED
    BY <1>1, <1>2, <2>1, Zenon DEF Handled
<1>4. r.status = 0 /\ r.pool = pool /\ r.fmap = map2
  BY <1>3 DEF Result
<1>5. DOMAIN map2 = VF /\ map2[f] = e /\ \A g \in VF : g # f => map2[g] = fmap[g]
  BY <1>2, Zenon DEF Types, Wires
<1> QED
  BY <1>1, <1>4, <1>5, SamePool, Zenon

LEMMA NothingDone ==
  ASSUME Types, NEW f \in VF, NEW r, r = Result(-1, pool, fmap)
  PROVE  Elsewhere(f, r.pool, r.fmap) /\ r.pool = pool /\ r.status = -1 /\ r.fmap = fmap
<1>1. r.status = -1 /\ r.pool = pool /\ r.fmap = fmap
  BY DEF Result
<1>2. DOMAIN fmap = VF
  BY Zenon DEF Types, Wires
<1> QED
  BY <1>1, <1>2, SamePool, Zenon

QreqRight(f, m, r) ==
  /\ Elsewhere(f, r.pool, r.fmap) /\ DOMAIN r.pool.dev = DOMAIN pool.dev
  /\ \/ r.status = -1 /\ r.pool = pool /\ r.fmap = fmap
     \/ /\ Known(f) /\ ~Active(pool, f)
        /\ r.pool.dev[f].active = pool.dev[f].active
        /\ \/ /\ r.status = 0 /\ r.fmap[f] = NoMap
              /\ r.pool.dev[f].entry.total_q = m.qmax
           \/ /\ r.status = -1 /\ r.fmap = fmap
              /\ r.pool.dev[f].entry.total_q = pool.dev[f].entry.total_q
              /\ pool.dev[f].entry.total_q # 0 => r.pool.dev[f].entry = pool.dev[f].entry

LEMMA QreqDone ==
  ASSUME Types, NEW f \in VF, NEW m \in Packet, m.src = f, m.op = "qreq", NEW r, r = Handled(m)
  PROVE  QreqRight(f, m, r)
<1>1. "qreq" # "bye" /\ "qreq" # "hello" /\ "qreq" # "fmap" /\ "qreq" # "add" /\ "qreq" # "del"
  OBVIOUS
<1>2. CASE Known(f) /\ ~Active(pool, f)
  <2>1. PICK u : u = DevUpdate(pool, f, m.qmax, m.qbase)
    OBVIOUS
  <2>2. PICK map2 : map2 = IF u.rv < 0 THEN fmap ELSE Unmapped(f)
    OBVIOUS
  <2>3. r = Result(u.rv, u.pool, map2)
    BY <1>1, <1>2, <2>1, <2>2, Zenon DEF Handled, Granted
  <2>4. r.status = u.rv /\ r.pool = u.pool /\ r.fmap = map2
    BY <2>3 DEF Result
  <2>5. m.qmax \in Nat /\ m.qbase \in Int
    BY DEF Packet
  <2>6. RefitRight(pool, u.rv, u.pool, f, m.qmax)
    BY <1>2, <2>1, <2>5, DevUpdateIs, Zenon DEF Types, Account, PoolOk, Known
  <2>7. PICK p2, rv : p2 = u.pool /\ rv = u.rv
    OBVIOUS
  <2>8. RefitRight(pool, rv, p2, f, m.qmax)
    BY <2>6, <2>7
  <2>9. UpdatedRight(pool, p2, f, p2.free, p2.dev[f].entry) /\ Shared(p2.free, p2.dev)
    BY <2>8, Zenon DEF RefitRight
  <2>10. PoolOk(p2) /\ DOMAIN p2.dev = DOMAIN pool.dev
    BY <2>9, Zenon DEF UpdatedRight, PoolOk, Types, Account
  <2>11. p2.dev[f].active = pool.dev[f].active /\ \A g \in DOMAIN pool.dev : g # f => p2.dev[g] = pool.dev[g]
    BY <2>9, Zenon DEF UpdatedRight
  <2>12. rv = 0 \/ rv = -1
    BY <2>8, Zenon DEF RefitRight
  <2>13. /\ rv = 0 => map2 = Unmapped(f)
         /\ rv = -1 => map2 = fmap
    BY <2>2, <2>7
  <2>14. DOMAIN map2 = VF /\ (\A g \in VF : g # f => map2[g] = fmap[g]) /\ (rv = 0 => map2[f] = NoMap)
    <3>1. DOMAIN fmap = VF
      BY Zenon DEF Types, Wires
    <3>2. CASE rv = 0
      BY <3>2, <2>13, UnmappedIs, Zenon DEF Types
    <3>3. CASE rv = -1
      BY <3>1, <3>3, <2>13
    <3> QED
      BY <2>12, <3>2, <3>3
  <2>15. Elsewhere(f, p2, map2)
    BY <2>10, <2>11, <2>14, OthersSame, Zenon
  <2>16. /\ rv = 0 => p2.dev[f].entry.total_q = m.qmax
         /\ rv # 0 => p2.dev[f].entry.total_q = pool.dev[f].entry.total_q
         /\ rv # 0 /\ pool.dev[f].entry.total_q # 0 => p2.dev[f].entry = pool.dev[f].entry
    BY <2>8, Zenon DEF RefitRight
  <2>17. -1 # 0
    OBVIOUS
  <2>18. r.status = rv /\ r.pool = p2 /\ r.fmap = map2
    BY <2>4, <2>7, Zenon
  <2>19. CASE rv = 0
    BY <1>2, <2>10, <2>11, <2>14, <2>15, <2>16, <2>18, <2>19, Zenon DEF QreqRight
  <2>20. CASE rv = -1
    BY <1>2, <2>10, <2>11, <2>13, <2>15, <2>16, <2>17, <2>18, <2>20, Zenon DEF QreqRight
  <2> QED
    BY <2>12, <2>19, <2>20, Zenon
<1>3. CASE ~(Known(f) /\ ~Active(pool, f))
  <2>1. r = Result(-1, pool, fmap)
    BY <1>1, <1>3, Zenon DEF Handled
  <2> QED
    BY <2>1, NothingDone, Zenon DEF QreqRight
<1> QED
  BY <1>2, <1>3, Zenon

(* The count of the queues of a type changes, or nothing does. *)
CountRight(f, t, r, n) ==
  /\ Elsewhere(f, r.pool, r.fmap) /\ DOMAIN r.pool.dev = DOMAIN pool.dev /\ r.fmap = fmap
  /\ r.status = 0 /\ r.pool.dev[f].entry = pool.dev[f].entry
  /\ r.pool.dev[f].active = [pool.dev[f].active EXCEPT ![t] = n]

LEMMA CountDone ==
  ASSUME Types, NEW f \in VF, Known(f), NEW t \in QType, NEW n \in Nat, NEW b, NEW p2,
         CountedRight(pool, p2, f, t, n, b), NEW r, r = Result(0, p2, fmap)
  PROVE  CountRight(f, t, r, n)
<1>1. r.status = 0 /\ r.pool = p2 /\ r.fmap = fmap
  BY DEF Result
<1>2. /\ PoolShape(p2) /\ p2.free = pool.free /\ DOMAIN p2.dev = DOMAIN pool.dev
      /\ \A g \in DOMAIN pool.dev : p2.dev[g] \in Device /\ p2.dev[g].entry = pool.dev[g].entry
      /\ \A g \in DOMAIN pool.dev : g # f => p2.dev[g] = pool.dev[g]
      /\ p2.dev[f].active[t] = n
      /\ \A u \in QType : u # t => p2.dev[f].active[u] = pool.dev[f].active[u]
  BY Zenon DEF CountedRight
<1>3. Shared(pool.free, pool.dev) /\ DOMAIN pool.dev \subseteq VF /\ AllDevices(pool) /\ DOMAIN fmap = VF
  BY Zenon DEF Types, Account, PoolOk, Wires
<1>4. SameEntries(pool.dev, p2.dev)
  BY <1>2, Zenon DEF SameEntries
<1>5. Shared(p2.free, p2.dev)
  BY <1>2, <1>3, <1>4, SharedSame, Zenon
<1>6. PoolOk(p2)
  BY <1>2, <1>3, <1>5, Zenon DEF PoolOk, AllDevices
<1>7. Elsewhere(f, p2, fmap)
  BY <1>2, <1>3, <1>6, OthersSame, Zenon
<1>8. p2.dev[f].active = [pool.dev[f].active EXCEPT ![t] = n]
  <2>1. p2.dev[f] \in Device /\ pool.dev[f] \in Device
    BY <1>2, <1>3, Zenon DEF Known, AllDevices
  <2>2. p2.dev[f].active \in [QType -> Nat] /\ pool.dev[f].active \in [QType -> Nat]
    BY <2>1, DeviceIs, Zenon
  <2>3. PICK a, a2 : a = pool.dev[f].active /\ a2 = p2.dev[f].active
    OBVIOUS
  <2>4. a \in [QType -> Nat] /\ a2 \in [QType -> Nat] /\ a2[t] = n /\ \A u \in QType : u # t => a2[u] = a[u]
    BY <1>2, <2>2, <2>3, Zenon
  <2>5. a2 = [a EXCEPT ![t] = n]
    BY <2>4
  <2> QED
    BY <2>3, <2>5, Zenon
<1> QED
  BY <1>1, <1>2, <1>7, <1>8, Zenon DEF CountRight, Known

LEMMA AddDone ==
  ASSUME Types, NEW f \in VF, NEW m \in Packet, m.src = f, m.op = "add", NEW r, r = Handled(m)
  PROVE  \/ /\ Known(f) /\ CountRight(f, m.t, r, pool.dev[f].active[m.t] + 1)
         \/ /\ ~(IsQueueInRange(pool, f, m.qid) /\ CanIncrement(pool, f, m.t))
            /\ Elsewhere(f, r.pool, r.fmap) /\ r.pool = pool /\ r.status = -1 /\ r.fmap = fmap
<1>1. "add" # "bye" /\ "add" # "hello" /\ "add" # "fmap" /\ "add" # "qreq" /\ "add" # "del"
  OBVIOUS
<1>2. m.t \in QType
  BY DEF Packet
<1>3. CASE IsQueueInRange(pool, f, m.qid) /\ CanIncrement(pool, f, m.t)
  <2>1. PICK p2 : p2 = IncrementActiveQueue(pool, f, m.t)
    OBVIOUS
  <2>2. r = Result(0, p2, fmap)
    BY <1>1, <1>3, <2>1, Zenon DEF Handled
  <2>3. f \in DOMAIN pool.dev
    BY <1>3, Zenon DEF IsQueueInRange
  <2>4. PoolShape(pool) /\ \A g \in DOMAIN pool.dev : pool.dev[g] \in Device
    BY Zenon DEF Types, Account, PoolOk, AllDevices
  <2>5. CountedRight(pool, p2, f, m.t, pool.dev[f].active[m.t] + 1, (pool.active + 1) % CountModulus)
    BY <1>2, <1>3, <2>1, <2>3, <2>4, Incremented, Zenon
  <2>6. pool.dev[f].active[m.t] \in Nat
    BY <1>2, <2>3, <2>4, DeviceIs, Zenon
  <2>7. pool.dev[f].active[m.t] + 1 \in Nat
    BY <2>6
  <2> QED
    BY <1>2, <2>2, <2>3, <2>5, <2>7, CountDone, Zenon DEF Known
<1>4. CASE ~(IsQueueInRange(pool, f, m.qid) /\ CanIncrement(pool, f, m.t))
  <2>1. r = Result(-1, pool, fmap)
    BY <1>1, <1>4, Zenon DEF Handled
  <2> QED
    BY <1>4, <2>1, NothingDone, Zenon
<1> QED
  BY <1>3, <1>4, Zenon

LEMMA DelDone ==
  ASSUME Types, NEW f \in VF, NEW m \in Packet, m.src = f, m.op = "del", NEW r, r = Handled(m)
  PROVE  \/ /\ Known(f)
            /\ CountRight(f, m.t, r, IF pool.dev[f].active[m.t] = 0 THEN 0 ELSE pool.dev[f].active[m.t] - 1)
         \/ /\ ~IsQueueInRange(pool, f, m.qid)
            /\ Elsewhere(f, r.pool, r.fmap) /\ r.pool = pool /\ r.status = -1 /\ r.fmap = fmap
<1>1. "del" # "bye" /\ "del" # "hello" /\ "del" # "fmap" /\ "del" # "qreq" /\ "del" # "add"
  OBVIOUS
<1>2. m.t \in QType
  BY DEF Packet
<1>3. CASE IsQueueInRange(pool, f, m.qid)
  <2>1. PICK p2 : p2 = DecrementActiveQueue(pool, f, m.t)
    OBVIOUS
  <2>2. r = Result(0, p2, fmap)
    BY <1>1, <1>3, <2>1, Zenon DEF Handled
  <2>3. f \in DOMAIN pool.dev
    BY <1>3, Zenon DEF IsQueueInRange
  <2>4. PoolShape(pool) /\ \A g \in DOMAIN pool.dev : pool.dev[g] \in Device
    BY Zenon DEF Types, Account, PoolOk, AllDevices
  <2>5. PICK n : n = IF pool.dev[f].active[m.t] = 0 THEN 0 ELSE pool.dev[f].active[m.t] - 1
    OBVIOUS
  <2>6. n \in Nat
    <3>1. pool.dev[f].active[m.t] \in Nat
      BY <1>2, <2>3, <2>4, DeviceIs, Zenon
    <3> QED
      BY <2>5, <3>1
  <2>7. PICK b : b = (pool.active - 1) % CountModulus
    OBVIOUS
  <2>8. p2 = [pool EXCEPT !.dev[f].active[m.t] = n, !.active = b]
    BY <2>1, <2>5, <2>7, Zenon DEF DecrementActiveQueue
  <2>9. CountedRight(pool, p2, f, m.t, n, b)
    BY <1>2, <2>3, <2>4, <2>6, <2>8, CountSet, Zenon
  <2> QED
    BY <1>2, <2>2, <2>3, <2>5, <2>6, <2>9, CountDone, Zenon DEF Known
<1>4. CASE ~IsQueueInRange(pool, f, m.qid)
  <2>1. r = Result(-1, pool, fmap)
    BY <1>1, <1>4, Zenon DEF Handled
  <2> QED
    BY <1>4, <2>1, NothingDone, Zenon
<1> QED
  BY <1>3, <1>4, Zenon

-----------------------------------------------------------------------------
(* The types are kept. *)

LEMMA CallerIs ==
  ASSUME Types, NEW f \in VF
  PROVE  CallerRight(f, vf[f], req[f]) /\ vf[f] \in Driver
BY Zenon DEF Types, Callers, CallerRight

LEMMA IdleIs ==
  ASSUME Types, NEW f \in VF, Idle(f)
  PROVE  vf[f] \in Driver /\ Rests(vf[f]) /\ req[f] = Nothing /\ req[f].place = "none"
<1>1. CallerRight(f, vf[f], req[f]) /\ vf[f].state = "on" /\ req[f] = Nothing
  BY CallerIs, Zenon DEF Idle
<1>2. Nothing.place = "none" /\ "none" \notin {"todo", "pend", "matched"}
  BY DEF Nothing
<1>3. "on" # "off" /\ "on" # "leaving"
  OBVIOUS
<1>4. Off.state = "off"
  BY OffIs, Zenon DEF Has
<1> QED
  BY <1>1, <1>2, <1>3, <1>4, Zenon DEF CallerRight, Leaves

LEMMA WaitsIs ==
  ASSUME Types, NEW f \in VF, req[f].place \in {"todo", "pend", "matched"}
  PROVE  /\ vf[f] \in Driver /\ vf[f].plan # <<>>
         /\ req[f].msg = Composed(f, vf[f]) /\ req[f].msg \in Packet
         /\ req[f].msg.op = vf[f].plan[1].op
         /\ Leaves(vf[f]) => req[f].place = "todo" /\ req[f].msg.op = "bye"
         /\ Starting(vf[f]) \/ Leaves(vf[f]) \/ Works(vf[f])
         /\ Starting(vf[f]) => req[f].msg.op = "hello"
         /\ Works(vf[f]) => req[f].msg.op \in Work
         /\ req[f].place = "matched" => req[f].answer \in Reply
<1>1. CallerRight(f, vf[f], req[f]) /\ vf[f] \in Driver
  BY CallerIs, Zenon
<1>2. Nothing.place \notin {"todo", "pend", "matched"}
  BY DEF Nothing
<1>3. /\ Starting(vf[f]) \/ (Leaves(vf[f]) /\ req[f].place = "todo") \/ Works(vf[f])
      /\ req[f].msg = Composed(f, vf[f])
      /\ req[f].place = "matched" => req[f].answer \in Reply
  BY <1>1, <1>2, Zenon DEF CallerRight
<1>4. \A op \in {"bye", "hello"} : <<Message(op)>> # <<>> /\ <<Message(op)>>[1].op = op
  BY MessageIs DEF Ops
<1>5. vf[f].plan # <<>>
  BY <1>3, <1>4, Zenon DEF Starting, Leaves, Works
<1>6. req[f].msg \in Packet /\ req[f].msg.op = vf[f].plan[1].op
  BY <1>1, <1>3, <1>5, ComposedIs
<1>7. Leaves(vf[f]) => vf[f].plan[1].op = "bye"
  BY <1>4, Zenon DEF Leaves
<1>8. Starting(vf[f]) => vf[f].plan[1].op = "hello"
  BY <1>4, Zenon DEF Starting
<1>9. Works(vf[f]) => vf[f].plan[1].op \in Work
  BY ByeIsNoStep, Zenon DEF Works
<1>10. Leaves(vf[f]) => ~Works(vf[f]) /\ ~Starting(vf[f])
  BY <1>7, <1>8, <1>9 DEF Work
<1> QED
  BY <1>1, <1>3, <1>5, <1>6, <1>7, <1>8, <1>9, <1>10, Zenon

LEMMA CallerTypes ==
  ASSUME Types, NEW f \in VF, NEW w, NEW r, Moves(f, w, r), CallerRight(f, w, r),
         UNCHANGED <<pool, fmap, outV, answers, txrun>>, outP' = outP \/ outP' = Empty, late' \subseteq VF
  PROVE  Types'
<1>1. Callers'
  BY CallersMoved
<1>2. Wires'
  <2>1. Wires
    BY Zenon DEF Types
  <2>2. DOMAIN vf' = VF /\ DOMAIN req' = VF
    BY Zenon DEF Moves
  <2>3. outV' = outV /\ answers' = answers /\ txrun' = txrun /\ fmap' = fmap
    BY Zenon
  <2> QED
    BY <2>1, <2>2, <2>3, Zenon DEF Wires
<1>3. Account'
  BY Zenon DEF Types, Account
<1> QED
  BY <1>1, <1>2, <1>3, Zenon DEF Types

LEMMA ProceedTypes ==
  ASSUME Types, NEW f \in VF, NEW v \in Driver, Goes(v), Proceed(f, v),
         UNCHANGED <<pool, fmap, outV, answers, txrun>>, outP' = outP \/ outP' = Empty, late' \subseteq VF
  PROVE  Types' /\ Moves(f, Onward(v), Next1(f, Onward(v)))
<1>1. PICK w : w = Onward(v)
  OBVIOUS
<1>2. PICK r : r = Next1(f, w)
  OBVIOUS
<1>3. Wires
  BY Zenon DEF Types
<1>4. Moves(f, w, r)
  BY <1>1, <1>2, <1>3, ProceedIs, Zenon
<1>5. CallerRight(f, w, r)
  BY <1>1, <1>2, OnwardTypes, Zenon
<1>6. Types'
  BY <1>4, <1>5, CallerTypes
<1> QED
  BY <1>1, <1>2, <1>4, <1>6, Zenon

LEMMA LateIs ==
  ASSUME Types, NEW f \in VF
  PROVE  late \subseteq VF /\ late \cup {f} \subseteq VF
BY DEF Types, Wires

LEMMA OffRight ==
  ASSUME NEW f
  PROVE  CallerRight(f, Off, Nothing)
BY OffIs, Zenon DEF CallerRight

LEMMA LoadTypes ==
  ASSUME Types, NEW f \in VF, Load(f)
  PROVE  Types'
<1>1. PICK v : v = [Off EXCEPT !.state = "starting", !.plan = <<Message("hello")>>]
  OBVIOUS
<1>2. v \in Driver /\ Goes(v)
  BY <1>1, Opening
<1>3. Proceed(f, v) /\ UNCHANGED <<pool, fmap, outV, answers, txrun>> /\ late' = late
  BY <1>1, Zenon DEF Load
<1>4. outP' = outP \/ outP' = Empty
  BY Zenon DEF Load
<1>5. late' \subseteq VF
  BY <1>3, LateIs, Zenon
<1> QED
  BY <1>2, <1>3, <1>4, <1>5, ProceedTypes

LEMMA SetQmaxTypes ==
  ASSUME Types, NEW f \in VF, NEW n \in QMaxs, SetQmax(f, n)
  PROVE  Types' /\ Called(f)
<1>1. PICK v : v = [vf[f] EXCEPT !.plan = <<[Message("qreq") EXCEPT !.n = n]>>]
  OBVIOUS
<1>2. vf[f] \in Driver /\ Rests(vf[f])
  BY IdleIs, Zenon DEF SetQmax
<1>3. n \in Nat
  BY MailboxAssumption
<1>4. v \in Driver /\ v.plan \in Seq(Step)
      /\ Has(v, vf[f].state, vf[f].qbase, vf[f].qmax, vf[f].init_qrange, vf[f].queues, v.plan, vf[f].removing,
             vf[f].granted)
  BY <1>1, <1>2, <1>3, AskingOf
<1>5. Goes(v)
  BY <1>2, <1>4, Zenon DEF Goes, Has, Rests
<1>6. Proceed(f, v) /\ UNCHANGED <<pool, fmap, outV, answers, txrun>> /\ late' = late /\ outP' = outP
  BY <1>1, Zenon DEF SetQmax
<1>7. late' \subseteq VF
  BY <1>6, LateIs, Zenon
<1>9. Called(f)
  <2>1. "on" \in {"on", "leaving"} /\ "leaving" \in {"on", "leaving"}
    OBVIOUS
  <2> QED
    BY <1>2, <1>4, <1>5, <1>6, <2>1, Zenon DEF Called, Has, Rests
<1> QED
  BY <1>4, <1>5, <1>6, <1>7, <1>9, ProceedTypes

(* The queue that AddQueue adds. *)
NewQueue(k, i) == [t |-> k.t, st |-> k.st, i |-> i]

LEMMA NewQueueIs ==
  ASSUME NEW k \in Kinds, NEW i \in 0..(TotalQ - 1)
  PROVE  NewQueue(k, i) \in Queue /\ NewQueue(k, i).i = i
<1>1. i \in Nat
  BY PoolAssumption
<1>2. k.t \in {"h2c", "c2h"} /\ k.st \in BOOLEAN /\ (k.st => k.t = "c2h")
  <2>1. k = [t |-> "h2c", st |-> FALSE] \/ k = [t |-> "c2h", st |-> TRUE]
    BY Zenon DEF Kinds
  <2>2. CASE k = [t |-> "h2c", st |-> FALSE]
    BY <2>2
  <2>3. CASE k = [t |-> "c2h", st |-> TRUE]
    BY <2>3
  <2> QED
    BY <2>1, <2>2, <2>3
<1>3. PICK q : q = NewQueue(k, i)
  OBVIOUS
<1>4. q.t = k.t /\ q.st = k.st /\ q.i = i /\ q \in [t : {"h2c", "c2h"}, st : BOOLEAN, i : Nat]
  BY <1>1, <1>2, <1>3 DEF NewQueue
<1>5. q \in Queue
  BY <1>2, <1>4 DEF Queue
<1> QED
  BY <1>3, <1>4, <1>5

LEMMA AddQueueTypes ==
  ASSUME Types, NEW f \in VF, NEW k \in Kinds, NEW i \in 0..(TotalQ - 1), AddQueue(f, k, i)
  PROVE  Types' /\ Called(f)
<1>1. PICK q : q = NewQueue(k, i)
  OBVIOUS
<1>2. PICK v : v = [vf[f] EXCEPT !.queues = @ \cup {q}, !.plan = AddPlan(vf[f], q)]
  OBVIOUS
<1>3. vf[f] \in Driver /\ Rests(vf[f])
  BY IdleIs, Zenon DEF AddQueue
<1>4. q \in Queue
  BY <1>1, NewQueueIs
<1>5. v \in Driver /\ AddPlanRight(vf[f], q, v.plan)
      /\ Has(v, vf[f].state, vf[f].qbase, vf[f].qmax, vf[f].init_qrange, vf[f].queues \cup {q}, v.plan,
             vf[f].removing, vf[f].granted)
  <2>1. v = WithQueue(vf[f], q)
    BY <1>2, Zenon DEF WithQueue
  <2> QED
    BY <1>3, <1>4, <2>1, AddingOf
<1>6. Goes(v)
  BY <1>3, <1>5, Zenon DEF Goes, Has, Rests, AddPlanRight
<1>7. Proceed(f, v) /\ UNCHANGED <<pool, fmap, outV, answers, txrun>> /\ late' = late /\ outP' = outP
  BY <1>1, <1>2, Zenon DEF AddQueue, NewQueue
<1>8. late' \subseteq VF
  BY <1>7, LateIs, Zenon
<1>9. Called(f)
  <2>1. "on" \in {"on", "leaving"} /\ "leaving" \in {"on", "leaving"}
    OBVIOUS
  <2> QED
    BY <1>3, <1>5, <1>6, <1>7, <2>1, Zenon DEF Called, Has, Rests
<1> QED
  BY <1>5, <1>6, <1>7, <1>8, <1>9, ProceedTypes

LEMMA RemoveQueueTypes ==
  ASSUME Types, NEW f \in VF, NEW q \in vf[f].queues, RemoveQueue(f, q)
  PROVE  Types' /\ Called(f)
<1>1. PICK v : v = [vf[f] EXCEPT !.removing = {q}]
  OBVIOUS
<1>2. vf[f] \in Driver /\ Rests(vf[f])
  BY IdleIs, Zenon DEF RemoveQueue
<1>3. v \in Driver /\ Has(v, vf[f].state, vf[f].qbase, vf[f].qmax, vf[f].init_qrange, vf[f].queues, vf[f].plan, {q}, vf[f].granted)
  BY <1>1, <1>2, RemovingOf
<1>4. <<>> \in Seq(Step)
  OBVIOUS
<1>5. Goes(v)
  BY <1>2, <1>3, <1>4, Zenon DEF Goes, Has, Rests
<1>6. Proceed(f, v) /\ UNCHANGED <<pool, fmap, outV, answers, txrun>> /\ late' = late /\ outP' = outP
  BY <1>1, Zenon DEF RemoveQueue
<1>7. late' \subseteq VF
  BY <1>6, LateIs, Zenon
<1>9. Called(f)
  <2>1. "on" \in {"on", "leaving"} /\ "leaving" \in {"on", "leaving"}
    OBVIOUS
  <2> QED
    BY <1>2, <1>3, <1>5, <1>6, <2>1, Zenon DEF Called, Has, Rests
<1> QED
  BY <1>3, <1>5, <1>6, <1>7, <1>9, ProceedTypes

LEMMA UnloadTypes ==
  ASSUME Types, NEW f \in VF, Unload(f)
  PROVE  Types' /\ Called(f)
<1>1. PICK v : v = [vf[f] EXCEPT !.state = "leaving", !.removing = vf[f].queues]
  OBVIOUS
<1>2. vf[f] \in Driver /\ Rests(vf[f])
  BY IdleIs, Zenon DEF Unload
<1>3. v \in Driver /\ Has(v, "leaving", vf[f].qbase, vf[f].qmax, vf[f].init_qrange, vf[f].queues, vf[f].plan, vf[f].queues, vf[f].granted)
  <2>1. v = Parting(vf[f])
    BY <1>1, Zenon DEF Parting
  <2> QED
    BY <1>2, <2>1, LeavingOf
<1>4. <<>> \in Seq(Step)
  OBVIOUS
<1>5. Goes(v)
  BY <1>2, <1>3, <1>4, Zenon DEF Goes, Has, Rests
<1>6. Proceed(f, v) /\ UNCHANGED <<pool, fmap, outV, answers, txrun>> /\ late' = late /\ outP' = outP
  BY <1>1, Zenon DEF Unload
<1>7. late' \subseteq VF
  BY <1>6, LateIs, Zenon
<1>9. Called(f)
  <2>1. "on" \in {"on", "leaving"} /\ "leaving" \in {"on", "leaving"}
    OBVIOUS
  <2> QED
    BY <1>3, <1>5, <1>6, <2>1, Zenon DEF Called, Has, Rests
<1> QED
  BY <1>3, <1>5, <1>6, <1>7, <1>9, ProceedTypes

LEMMA StoppedTypes ==
  ASSUME Types, NEW f \in VF, Stopped(f)
  PROVE  Types' /\ Moves(f, Off, Nothing)
<1>1. Wires
  BY Zenon DEF Types
<1>2. vf' = [vf EXCEPT ![f] = Off] /\ req' = req /\ req[f] = Nothing
  BY Zenon DEF Stopped
<1>3. Moves(f, Off, Nothing)
  BY <1>1, <1>2, Zenon DEF Moves, Wires
<1>4. UNCHANGED <<pool, fmap, outV, answers, txrun>> /\ late' = late /\ outP' = outP
  BY Zenon DEF Stopped
<1>5. late' \subseteq VF
  BY <1>4, LateIs, Zenon
<1> QED
  BY <1>3, <1>4, <1>5, OffRight, CallerTypes

LEMMA VanishTypes ==
  ASSUME Types, NEW f \in VF, Vanish(f)
  PROVE  Types' /\ Moves(f, Off, Nothing)
<1>1. Wires
  BY Zenon DEF Types
<1>2. vf' = [vf EXCEPT ![f] = Off] /\ req' = [req EXCEPT ![f] = Nothing]
  BY Zenon DEF Vanish
<1>3. Moves(f, Off, Nothing)
  BY <1>1, <1>2, MovesIs
<1>4. UNCHANGED <<pool, fmap, outV, answers, txrun>> /\ late' = late \cup {f} /\ outP' = outP
  BY Zenon DEF Vanish
<1>5. late' \subseteq VF
  BY <1>4, LateIs, Zenon
<1> QED
  BY <1>3, <1>4, <1>5, OffRight, CallerTypes

(* A caller whose wait has ended. *)
LEMMA EndedIs ==
  ASSUME Types, NEW f \in VF, req[f].place \in {"todo", "pend", "matched"}, req[f].msg.op # "bye",
         NEW ok \in BOOLEAN, NEW a \in Reply \cup Packet, NEW v, v = Returned(f, ok, a)
  PROVE  /\ ReturnedRight(vf[f], ok, a, v) /\ Goes(v) /\ v \in Driver
         /\ Starting(vf[f]) \/ Works(vf[f])
         /\ Starting(vf[f]) => vf[f].plan[1].op = "hello" /\ vf[f].plan[1].gone = {} /\ vf[f].plan[1].undone = {}
                               /\ v.plan = <<>> /\ v.removing = {} /\ v.state = IF ok THEN "on" ELSE "leaving"
         /\ Works(vf[f]) => vf[f].plan[1].op \in Work /\ v.state = vf[f].state
<1>1. vf[f] \in Driver /\ (Starting(vf[f]) \/ Works(vf[f]))
  BY WaitsIs, Zenon
<1>2. ReturnedRight(vf[f], ok, a, v)
  BY <1>1, ReturnedGoes
<1>3. Goes(v)
  BY <1>1, ReturnedGoes
<1>4. Starting(vf[f]) => vf[f].plan[1].op = "hello" /\ vf[f].plan[1].gone = {} /\ vf[f].plan[1].undone = {}
                         /\ v.plan = <<>> /\ v.removing = {}
  <2>1. Starting(vf[f]) => vf[f].plan[1].op = "hello"
    BY <1>1, ReturnedGoes
  <2>2. Starting(vf[f]) => vf[f].plan[1].gone = {} /\ vf[f].plan[1].undone = {}
    BY <1>1, ReturnedGoes
  <2>3. Starting(vf[f]) => v.plan = <<>>
    BY <1>1, ReturnedGoes
  <2>4. Starting(vf[f]) => v.removing = {}
    BY <1>1, ReturnedGoes
  <2> QED
    BY <2>1, <2>2, <2>3, <2>4, Zenon
<1>5. Starting(vf[f]) => v.state = IF ok THEN "on" ELSE "leaving"
  BY <1>1, ReturnedGoes
<1>6. Works(vf[f]) => vf[f].plan[1].op \in Work /\ v.state = vf[f].state
  BY <1>1, ReturnedGoes
<1> QED
  BY <1>1, <1>2, <1>3, <1>4, <1>5, <1>6, Zenon DEF ReturnedRight

LEMMA EndedState ==
  ASSUME Types, NEW f \in VF, req[f].place \in {"todo", "pend", "matched"}, req[f].msg.op # "bye",
         NEW ok \in BOOLEAN, NEW a \in Reply \cup Packet, NEW v, v = Returned(f, ok, a)
  PROVE  v.state \in {"on", "leaving"}
<1>1. CASE Starting(vf[f])
  <2>1. v.state = IF ok THEN "on" ELSE "leaving"
    BY <1>1, EndedIs
  <2> QED
    BY <2>1
<1>2. CASE Works(vf[f])
  <2>1. v.state = vf[f].state
    BY <1>2, EndedIs
  <2> QED
    BY <1>2, <2>1, Zenon DEF Works
<1> QED
  BY <1>1, <1>2, EndedIs

LEMMA ExpireTypes ==
  ASSUME Types, NEW f \in VF, Expire(f)
  PROVE  Types'
<1>1. PICK ok, a : ok = FALSE /\ a = req[f].msg
  OBVIOUS
<1>2. req[f].place \in {"todo", "pend", "matched"} /\ req[f].msg.op # "bye"
  BY DEF Expire
<1>3. a \in Reply \cup Packet /\ ok \in BOOLEAN
  BY <1>1, <1>2, WaitsIs
<1>4. PICK v : v = Returned(f, ok, a)
  OBVIOUS
<1>5. v \in Driver /\ Goes(v)
  BY <1>2, <1>3, <1>4, EndedIs
<1>6. Proceed(f, v) /\ UNCHANGED <<pool, fmap, outV, answers, txrun>> /\ late' = late \cup {f} /\ outP' = outP
  BY <1>1, <1>4, Zenon DEF Expire
<1>7. late' \subseteq VF
  BY <1>6, LateIs, Zenon
<1> QED
  BY <1>5, <1>6, <1>7, ProceedTypes

(* An answer that has been paired with the caller's request. *)
LEMMA MatchedIs ==
  ASSUME Types, NEW f \in VF, req[f].place = "matched"
  PROVE  req[f].place \in {"todo", "pend", "matched"} /\ req[f].msg.op # "bye" /\ req[f].answer \in Reply
         /\ (Starting(vf[f]) \/ Works(vf[f]))
<1>1. req[f].place \in {"todo", "pend", "matched"} /\ "matched" # "todo"
  OBVIOUS
<1>2. req[f].answer \in Reply
  BY <1>1, WaitsIs, Zenon
<1>3. Starting(vf[f]) \/ Works(vf[f])
  BY <1>1, WaitsIs, Zenon
<1>4. req[f].msg.op = "hello" \/ req[f].msg.op \in Work
  BY <1>1, <1>3, WaitsIs, Zenon
<1>5. "bye" # "hello" /\ "bye" \notin Work
  BY DEF Work
<1> QED
  BY <1>1, <1>2, <1>3, <1>4, <1>5, Zenon

(* A caller that goes on before its answer has been copied. *)
LEMMA EarlyWakeIs ==
  ASSUME Types, NEW f \in VF, EarlyWake(f), NEW a, a = req[f].msg, NEW v, v = Returned(f, TRUE, a)
  PROVE  /\ req[f].place = "matched" /\ req[f].place \in {"todo", "pend", "matched"} /\ req[f].msg.op # "bye"
         /\ a \in Reply \cup Packet /\ v \in Driver /\ Goes(v) /\ ReturnedRight(vf[f], TRUE, a, v)
         /\ Proceed(f, v) /\ UNCHANGED <<pool, fmap, outV, answers>> /\ txrun' = txrun /\ late' = late /\ outP' = outP
         /\ v.state \in {"on", "leaving"}
<1>1. req[f].place = "matched"
  BY Zenon DEF EarlyWake
<1>2. req[f].place \in {"todo", "pend", "matched"} /\ req[f].msg.op # "bye"
  BY <1>1, MatchedIs, Zenon
<1>3. a \in Reply \cup Packet
  BY <1>2, WaitsIs
<1>4. v \in Driver /\ Goes(v) /\ ReturnedRight(vf[f], TRUE, a, v)
  BY <1>2, <1>3, EndedIs
<1>5. Proceed(f, v) /\ UNCHANGED <<pool, fmap, outV, answers>> /\ txrun' = txrun /\ late' = late /\ outP' = outP
  BY Zenon DEF EarlyWake
<1>6. v.state \in {"on", "leaving"}
  BY <1>2, <1>3, EndedState
<1> QED
  BY <1>1, <1>2, <1>3, <1>4, <1>5, <1>6

LEMMA EarlyWakeTypes ==
  ASSUME Types, NEW f \in VF, EarlyWake(f)
  PROVE  Types' /\ Called(f)
<1>1. PICK a : a = req[f].msg
  OBVIOUS
<1>2. PICK v : v = Returned(f, TRUE, a)
  OBVIOUS
<1>3. v \in Driver /\ Goes(v) /\ Proceed(f, v) /\ UNCHANGED <<pool, fmap, outV, answers>> /\ txrun' = txrun
      /\ late' = late /\ outP' = outP /\ v.state \in {"on", "leaving"}
  BY <1>1, <1>2, EarlyWakeIs
<1>4. late' \subseteq VF
  BY <1>3, LateIs, Zenon
<1>5. Called(f)
  BY <1>3, Zenon DEF Called
<1> QED
  BY <1>3, <1>4, <1>5, ProceedTypes

LEMMA StatusIs ==
  ASSUME NEW a \in Reply
  PROVE  /\ (a.status >= 0) \in BOOLEAN /\ (a.status = 0 <=> a.status >= 0) /\ (a.status = -1 <=> ~(a.status >= 0))
         /\ a.status \in {0, -1} /\ a.op \in Ops /\ a.to \in VF
BY DEF Reply

LEMMA VfWakeTypes ==
  ASSUME Types, NEW f \in VF, VfWake(f)
  PROVE  Types' /\ Called(f)
<1>1. PICK ok, a : ok = (req[f].answer.status >= 0) /\ a = req[f].answer
  OBVIOUS
<1>2. req[f].place = "matched" /\ req[f].place \in {"todo", "pend", "matched"}
  BY Zenon DEF VfWake
<1>3. a \in Reply
  BY <1>1, <1>2, WaitsIs, Zenon
<1>4. a \in Reply \cup Packet /\ ok \in BOOLEAN
  BY <1>1, <1>3, StatusIs
<1>5. req[f].msg.op # "bye"
  <2>1. Starting(vf[f]) \/ Works(vf[f])
    <3>1. "matched" # "todo"
      OBVIOUS
    <3> QED
      BY <1>2, <3>1, WaitsIs, Zenon
  <2>2. req[f].msg.op = "hello" \/ req[f].msg.op \in Work
    BY <1>2, <2>1, WaitsIs, Zenon
  <2> QED
    BY <2>2 DEF Work
<1>6. PICK v : v = Returned(f, ok, a)
  OBVIOUS
<1>7. v \in Driver /\ Goes(v)
  BY <1>2, <1>4, <1>5, <1>6, EndedIs
<1>8. Proceed(f, v) /\ UNCHANGED <<pool, fmap, outV, answers, txrun>> /\ late' = late /\ outP' = outP
  BY <1>1, <1>6, Zenon DEF VfWake
<1>9. late' \subseteq VF
  BY <1>8, LateIs, Zenon
<1>10. Called(f)
  <2>1. v.state \in {"on", "leaving"}
    BY <1>2, <1>4, <1>5, <1>6, EndedState
  <2> QED
    BY <1>7, <1>8, <2>1, Zenon DEF Called
<1> QED
  BY <1>7, <1>8, <1>9, <1>10, ProceedTypes

LEMMA ReplyIs ==
  ASSUME NEW a \in Reply
  PROVE  a.op \in Ops /\ a.to \in VF /\ a.status \in {0, -1} /\ a.qbase \in Int /\ a.qmax \in Nat /\ a.retry \in Int /\ a # Empty
<1>1. a.op \in Ops /\ a.to \in VF /\ a.status \in {0, -1} /\ a.qbase \in Int /\ a.qmax \in Nat /\ a.retry \in Int
  BY DEF Reply
<1>2. "none" \notin Ops /\ Empty.op = "none"
  BY DEF Ops, Work, Empty
<1> QED
  BY <1>1, <1>2, Zenon

LEMMA SetRetry ==
  ASSUME NEW a \in Reply, NEW n \in Int, NEW b, b = [a EXCEPT !.retry = n]
  PROVE  b \in Reply /\ Same(b, a) /\ b.to = a.to /\ b.retry = n
BY DEF Reply, Same

LEMMA MessageOf ==
  ASSUME Types, NEW f \in VF, outV[f] # Empty
  PROVE  outV[f] \in Packet /\ outV[f].src = f /\ outV[f].op \in Ops
<1>1. outV[f] \in Packet /\ outV[f].src = f
  BY Zenon DEF Types, Wires
<1> QED
  BY <1>1 DEF Packet

LEMMA VfTxTypes ==
  ASSUME Types, NEW f \in VF, VfTx(f)
  PROVE  /\ Types'
         /\ req[f].msg.op = "bye" => Moves(f, vf[f], Nothing)
         /\ req[f].msg.op # "bye" => Moves(f, vf[f], [req[f] EXCEPT !.place = "pend"])
                                     /\ req'[f].place = "pend" /\ req'[f].msg = req[f].msg
<1>1. req[f].place = "todo" /\ outV[f] = Empty /\ req[f].place \in {"todo", "pend", "matched"}
  BY Zenon DEF VfTx
<1>2. PICK m : m = req[f].msg
  OBVIOUS
<1>3. m \in Packet /\ m.src = f
  <2>1. m = Composed(f, vf[f]) /\ vf[f] \in Driver /\ vf[f].plan # <<>>
    BY <1>1, <1>2, WaitsIs, Zenon
  <2> QED
    BY <2>1, ComposedIs
<1>4. PICK r : r = IF m.op = "bye" THEN Nothing ELSE [req[f] EXCEPT !.place = "pend"]
  OBVIOUS
<1>5. Wires
  BY Zenon DEF Types
<1>6. req' = [req EXCEPT ![f] = r] /\ vf' = vf
  BY <1>2, <1>4, Zenon DEF VfTx
<1>7. Moves(f, vf[f], r)
  BY <1>5, <1>6, Zenon DEF Moves, Wires
<1>8. CallerRight(f, vf[f], req[f]) /\ vf[f] \in Driver
  BY CallerIs, Zenon
<1>9. /\ req[f].msg = Composed(f, vf[f])
      /\ Starting(vf[f]) \/ Leaves(vf[f]) \/ Works(vf[f])
      /\ Starting(vf[f]) => m.op = "hello"
      /\ Works(vf[f]) => m.op \in Work
      /\ Leaves(vf[f]) => m.op = "bye"
  BY <1>1, <1>2, WaitsIs, Zenon
<1>10. m.op # "bye" => r.place = "pend" /\ r.msg = m /\ r = [place |-> r.place, msg |-> r.msg]
  <2> SUFFICES ASSUME m.op # "bye"
               PROVE  r.place = "pend" /\ r.msg = m /\ r = [place |-> r.place, msg |-> r.msg]
    OBVIOUS
  <2>1. PICK r0 : r0 = req[f]
    OBVIOUS
  <2>2. r0 = [place |-> "todo", msg |-> m]
    <3>1. "todo" # "matched" /\ Nothing.place # "todo"
      BY DEF Nothing
    <3> QED
      BY <1>1, <1>2, <1>8, <2>1, <3>1, Zenon DEF CallerRight
  <2>3. r = [r0 EXCEPT !.place = "pend"]
    BY <1>4, <2>1, Zenon
  <2>4. r = [place |-> "pend", msg |-> m]
    BY <2>2, <2>3
  <2> QED
    BY <2>4
<1>11. CallerRight(f, vf[f], r)
  <2>1. CASE m.op = "bye"
    <3>1. Leaves(vf[f])
      BY <1>9, <2>1 DEF Work
    <3> QED
      BY <1>4, <1>8, <2>1, <3>1, Zenon DEF CallerRight
  <2>2. CASE m.op # "bye"
    <3>1. Starting(vf[f]) \/ Works(vf[f])
      BY <1>9, <2>2, Zenon
    <3>2. "pend" # "matched"
      OBVIOUS
    <3> QED
      BY <1>2, <1>8, <1>9, <1>10, <2>2, <3>1, <3>2, Zenon DEF CallerRight
  <2> QED
    BY <2>1, <2>2, Zenon
<1>12. Callers'
  BY <1>7, <1>11, CallersMoved
<1>13. Wires'
  <2>1. DOMAIN outV' = VF /\ \A g \in VF : outV'[g] = Empty \/ (outV'[g] \in Packet /\ outV'[g].src = g)
    <3>1. outV' = [outV EXCEPT ![f] = m]
      BY <1>2, Zenon DEF VfTx
    <3> QED
      BY <1>3, <1>5, <3>1, Zenon DEF Wires
  <2>2. outP' = outP /\ answers' = answers /\ txrun' = txrun /\ late' = late /\ fmap' = fmap
    BY Zenon DEF VfTx
  <2>3. DOMAIN vf' = VF /\ DOMAIN req' = VF
    BY <1>7, Zenon DEF Moves
  <2> QED
    BY <1>5, <2>1, <2>2, <2>3, Zenon DEF Wires
<1>14. Account'
  BY Zenon DEF Types, Account, VfTx
<1>15. Types'
  BY <1>12, <1>13, <1>14, Zenon DEF Types
<1> QED
  BY <1>2, <1>4, <1>7, <1>10, <1>15, Zenon DEF Moves

LEMMA VfRxTypes ==
  ASSUME Types, NEW f \in VF, VfRx(f)
  PROVE  /\ Types' /\ outP \in Reply /\ OutTo(outP, f)
         /\ ~(req[f].place = "pend" /\ req[f].msg.op = outP.op) => Moves(f, vf[f], req[f])
         /\ req[f].place = "pend" /\ req[f].msg.op = outP.op =>
              \E r : Moves(f, vf[f], r) /\ r.place = "matched" /\ r.msg = req[f].msg /\ r.answer = outP
<1>1. outP # Empty /\ outP.to = f /\ outP' = Empty
  BY Zenon DEF VfRx
<1>2. Wires
  BY Zenon DEF Types
<1>3. outP \in Reply
  BY <1>1, <1>2, Zenon DEF Wires
<1>4. CallerRight(f, vf[f], req[f])
  BY CallerIs, Zenon
<1>5. UNCHANGED <<pool, fmap, outV, answers, txrun>> /\ late' = late /\ vf' = vf
  BY Zenon DEF VfRx
<1>6. late' \subseteq VF
  BY <1>5, LateIs, Zenon
<1>7. CASE ~(req[f].place = "pend" /\ req[f].msg.op = outP.op)
  <2>1. req' = req
    BY <1>7, Zenon DEF VfRx
  <2>2. Moves(f, vf[f], req[f])
    BY <1>2, <1>5, <2>1, Zenon DEF Moves, Wires
  <2>3. Types'
    BY <1>1, <1>4, <1>5, <1>6, <2>2, CallerTypes
  <2> QED
    BY <1>1, <1>3, <1>7, <2>2, <2>3, Zenon DEF OutTo
<1>8. CASE req[f].place = "pend" /\ req[f].msg.op = outP.op
  <2>1. PICK r : r = [place |-> "matched", msg |-> req[f].msg, answer |-> outP]
    OBVIOUS
  <2>2. req' = [req EXCEPT ![f] = r]
    BY <1>8, <2>1, Zenon DEF VfRx
  <2>3. Moves(f, vf[f], r)
    BY <1>2, <1>5, <2>2, Zenon DEF Moves, Wires
  <2>4. r.place = "matched" /\ r.msg = req[f].msg /\ r.answer = outP
    BY <2>1
  <2>5. CallerRight(f, vf[f], r)
    <3>1. vf[f] \in Driver /\ req[f].msg = Composed(f, vf[f]) /\ (Starting(vf[f]) \/ Works(vf[f]))
      <4>1. req[f].place \in {"todo", "pend", "matched"} /\ req[f].place # "todo"
        BY <1>8
      <4> QED
        BY <4>1, WaitsIs, Zenon
    <3> QED
      BY <1>3, <2>4, <3>1, Zenon DEF CallerRight
  <2>6. Types'
    BY <1>1, <1>5, <1>6, <2>3, <2>5, CallerTypes
  <2> QED
    BY <1>1, <1>3, <1>8, <2>3, <2>4, <2>6, Zenon DEF OutTo
<1> QED
  BY <1>7, <1>8, Zenon

(* A step of the PF leaves the callers alone. *)
LEMMA PfTypes ==
  ASSUME Types, UNCHANGED <<vf, req, late>>, PoolOk(pool'), DOMAIN fmap' = VF,
         outV' = outV \/ \E f \in VF : outV' = [outV EXCEPT ![f] = Empty],
         outP' = Empty \/ outP' \in Reply, answers' \in Seq(Reply), txrun' \in BOOLEAN
  PROVE  Types'
<1>1. Callers'
  BY CallersSame, Zenon
<1>2. Wires
  BY Zenon DEF Types
<1>3. DOMAIN outV' = VF /\ \A g \in VF : outV'[g] = Empty \/ (outV'[g] \in Packet /\ outV'[g].src = g)
  BY <1>2, Zenon DEF Wires
<1>4. Wires'
  BY <1>2, <1>3, Zenon DEF Wires
<1> QED
  BY <1>1, <1>4, Zenon DEF Types, Account

LEMMA WiresAre ==
  ASSUME Types
  PROVE  /\ DOMAIN outV = VF /\ (outP = Empty \/ outP \in Reply) /\ answers \in Seq(Reply) /\ txrun \in BOOLEAN
         /\ late \subseteq VF /\ DOMAIN fmap = VF /\ PoolOk(pool)
BY Zenon DEF Types, Wires, Account

LEMMA SendIs ==
  ASSUME Types, PfSend
  PROVE  /\ Types' /\ answers # <<>> /\ outP = Empty /\ txrun' = (Tail(answers) # <<>>)
         /\ answers' = Tail(answers) /\ outP' \in Reply /\ Same(outP', answers[1])
         /\ outP'.to = answers[1].to /\ outP'.retry = 0
         /\ UNCHANGED <<pool, fmap, sriov, vf, req, outV, late, hasty>>
<1>1. /\ answers # <<>> /\ outP = Empty /\ txrun' = (Tail(answers) # <<>>)
      /\ answers' = Tail(answers) /\ UNCHANGED <<pool, fmap, sriov, vf, req, outV, late, hasty>>
  BY Zenon DEF PfSend
<1>2. PICK a : a = Head(answers)
  OBVIOUS
<1>3. a \in Reply /\ a = answers[1] /\ Tail(answers) \in Seq(Reply)
  BY <1>1, <1>2, WiresAre, PlanHead
<1>4. outP' = [a EXCEPT !.retry = 0]
  BY <1>2, Zenon DEF PfSend
<1>5. PICK b : b = [a EXCEPT !.retry = 0]
  OBVIOUS
<1>6. b \in Reply /\ Same(b, a) /\ b.to = a.to /\ b.retry = 0
  <2>1. PICK z : z = 0
    OBVIOUS
  <2>2. z \in Int /\ b = [a EXCEPT !.retry = z]
    <3>1. z \in Int
      BY <2>1
    <3> QED
      BY <1>5, <2>1, <3>1, Zenon
  <2>3. b \in Reply /\ Same(b, a) /\ b.to = a.to /\ b.retry = z
    BY <1>3, <2>2, SetRetry
  <2> QED
    BY <2>1, <2>3, Zenon
<1>7. outP' = b
  BY <1>4, <1>5
<1>8. txrun' \in BOOLEAN
  BY <1>1
<1>9. Types'
  BY <1>1, <1>3, <1>6, <1>7, <1>8, WiresAre, PfTypes
<1> QED
  BY <1>1, <1>3, <1>6, <1>7, <1>9, Zenon

LEMMA RetryIs ==
  ASSUME Types, PfRetry
  PROVE  /\ Types' /\ answers # <<>> /\ outP \in Reply /\ outP' \in Reply /\ Same(outP', outP) /\ outP'.to = outP.to
         /\ outP'.retry = (outP.retry + 1) % RetryCnt
         /\ vf[outP.to].state # "off" => outP.retry < Lag
         /\ answers[1].retry = 1 => answers' = Tail(answers)
         /\ answers[1].retry # 1 =>
              /\ Len(answers') = Len(answers) /\ answers'[1] \in Reply /\ Same(answers'[1], answers[1])
              /\ answers'[1].to = answers[1].to
              /\ answers'[1].retry = answers[1].retry - 1 /\ txrun' = txrun
              /\ \A i \in 2..Len(answers) : answers'[i] = answers[i]
         /\ UNCHANGED <<pool, fmap, sriov, vf, req, outV, late, hasty>>
<1>1. /\ answers # <<>> /\ outP # Empty /\ txrun /\ outP' = [outP EXCEPT !.retry = (@ + 1) % RetryCnt]
      /\ vf[outP.to].state # "off" => outP.retry < Lag
      /\ UNCHANGED <<pool, fmap, sriov, vf, req, outV, late, hasty>>
      /\ Head(answers).retry = 1 => answers' = Tail(answers) /\ txrun' = RxPoll
      /\ Head(answers).retry # 1 => answers' = [answers EXCEPT ![1].retry = @ - 1] /\ txrun' = txrun
  BY Zenon DEF PfRetry
<1>2. outP \in Reply /\ answers \in Seq(Reply)
  BY <1>1, WiresAre
<1>3. Head(answers) = answers[1] /\ answers[1] \in Reply /\ Tail(answers) \in Seq(Reply) /\ Len(answers) \in Nat /\ Len(answers) > 0
  BY <1>1, <1>2, PlanHead
<1>4. PICK o, n : o = outP /\ n = (outP.retry + 1) % RetryCnt
  OBVIOUS
<1>5. n \in Int
  BY <1>2, <1>4, ReplyIs, MailboxAssumption
<1>6. PICK b : b = [o EXCEPT !.retry = n]
  OBVIOUS
<1>7. b \in Reply /\ Same(b, o) /\ b.to = o.to /\ b.retry = n
  BY <1>2, <1>4, <1>5, <1>6, SetRetry
<1>8. outP' = b
  BY <1>1, <1>4, <1>6, Zenon
<1>9. CASE answers[1].retry = 1
  <2>1. answers' = Tail(answers) /\ txrun' = RxPoll
    BY <1>1, <1>3, <1>9, Zenon
  <2>2. txrun' \in BOOLEAN
    BY <2>1, MailboxAssumption
  <2>3. Types'
    BY <1>1, <1>3, <1>7, <1>8, <2>1, <2>2, WiresAre, PfTypes
  <2> QED
    BY <1>1, <1>2, <1>4, <1>7, <1>8, <1>9, <2>1, <2>3, Zenon
<1>10. CASE answers[1].retry # 1
  <2>1. answers' = [answers EXCEPT ![1].retry = @ - 1] /\ txrun' = txrun
    BY <1>1, <1>3, <1>10, Zenon
  <2>2. PICK h, k : h = answers[1] /\ k = answers[1].retry - 1
    OBVIOUS
  <2>3. PICK c : c = [h EXCEPT !.retry = k]
    OBVIOUS
  <2>4. PICK s : s = [answers EXCEPT ![1] = c]
    OBVIOUS
  <2>5. answers' = s
    BY <2>1, <2>2, <2>3, <2>4, Zenon
  <2>6. k \in Int
    BY <1>3, <2>2, ReplyIs
  <2>7. c \in Reply /\ Same(c, h) /\ c.to = h.to /\ c.retry = k
    BY <1>3, <2>2, <2>3, <2>6, SetRetry
  <2>8. s \in Seq(Reply) /\ Len(s) = Len(answers) /\ s[1] = c /\ \A i \in 2..Len(answers) : s[i] = answers[i]
    BY <1>2, <1>3, <2>4, <2>7
  <2>9. txrun' \in BOOLEAN
    BY <2>1, WiresAre, Zenon
  <2>10. Types'
    BY <1>1, <1>7, <1>8, <2>5, <2>8, <2>9, WiresAre, PfTypes
  <2> QED
    BY <1>1, <1>2, <1>4, <1>7, <1>8, <1>10, <2>1, <2>2, <2>5, <2>7, <2>8, <2>10, Zenon
<1> QED
  BY <1>9, <1>10, Zenon

LEMMA HandledIs ==
  ASSUME Types, NEW f \in VF, NEW m \in Packet, m.src = f, NEW r, r = Handled(m)
  PROVE  /\ Elsewhere(f, r.pool, r.fmap) /\ r.status \in {0, -1}
         /\ m.op = "qreq" /\ r.status = 0 => f \in DOMAIN r.pool.dev
         /\ m.op \in Work => DOMAIN r.pool.dev = DOMAIN pool.dev
<1>1. m.op \in {"bye", "hello", "fmap", "qreq", "add", "del"}
  BY DEF Packet, Ops, Work
<1>2. "bye" \notin Work /\ "hello" \notin Work
  BY DEF Work
<1>3. "bye" # "qreq" /\ "hello" # "qreq" /\ "fmap" # "qreq" /\ "add" # "qreq" /\ "del" # "qreq"
  OBVIOUS
<1>4. CASE m.op = "bye"
  BY <1>2, <1>3, <1>4, ByeDone, Zenon
<1>5. CASE m.op = "hello"
  BY <1>2, <1>3, <1>5, HelloDone, Zenon
<1>6. CASE m.op = "fmap"
  BY <1>3, <1>6, FmapDone, Zenon
<1>7. CASE m.op = "qreq"
  <2>1. QreqRight(f, m, r)
    BY <1>7, QreqDone
  <2>2. -1 # 0
    OBVIOUS
  <2>3. Elsewhere(f, r.pool, r.fmap) /\ r.status \in {0, -1} /\ DOMAIN r.pool.dev = DOMAIN pool.dev
    BY <2>1, Zenon DEF QreqRight
  <2>4. r.status = 0 => Known(f)
    BY <2>1, <2>2, Zenon DEF QreqRight
  <2> QED
    BY <2>3, <2>4, Zenon DEF Known
<1>8. CASE m.op = "add"
  <2>1. \/ CountRight(f, m.t, r, pool.dev[f].active[m.t] + 1)
        \/ Elsewhere(f, r.pool, r.fmap) /\ r.pool = pool /\ r.status = -1
    BY <1>8, AddDone
  <2> QED
    BY <1>3, <1>8, <2>1, Zenon DEF CountRight
<1>9. CASE m.op = "del"
  <2>1. \/ CountRight(f, m.t, r, IF pool.dev[f].active[m.t] = 0 THEN 0 ELSE pool.dev[f].active[m.t] - 1)
        \/ Elsewhere(f, r.pool, r.fmap) /\ r.pool = pool /\ r.status = -1
    BY <1>9, DelDone
  <2> QED
    BY <1>3, <1>9, <2>1, Zenon DEF CountRight
<1> QED
  BY <1>1, <1>4, <1>5, <1>6, <1>7, <1>8, <1>9, Zenon

(* The PF's answer to m. *)
AnswerRight(m, r, a) ==
  /\ a \in Reply /\ a.op = m.op /\ a.to = m.src /\ a.status = r.status /\ a.retry = RetryCnt
  /\ m.op = "qreq" /\ r.status = 0 =>
       a.qbase = r.pool.dev[m.src].entry.qbase /\ a.qmax = r.pool.dev[m.src].entry.total_q

LEMMA AnswerIs ==
  ASSUME Types, NEW f \in VF, NEW m \in Packet, m.src = f, NEW r, r = Handled(m)
  PROVE  AnswerRight(m, r, Answer(m, r))
<1>1. PICK e : e = IF m.op = "qreq" /\ r.status >= 0 THEN r.pool.dev[m.src].entry ELSE NoMap
  OBVIOUS
<1>2. /\ Elsewhere(f, r.pool, r.fmap) /\ r.status \in {0, -1}
      /\ m.op = "qreq" /\ r.status = 0 => f \in DOMAIN r.pool.dev
  BY HandledIs
<1>3. r.status >= 0 <=> r.status = 0
  BY <1>2
<1>4. e \in Entry
  <2>1. NoMap \in Entry
    BY DEF NoMap, Entry
  <2>2. AllDevices(r.pool)
    BY <1>2, Zenon DEF Elsewhere, PoolOk
  <2>3. m.op = "qreq" /\ r.status = 0 => r.pool.dev[f].entry \in Entry
    BY <1>2, <2>2, DeviceIs, Zenon DEF AllDevices
  <2> QED
    BY <1>1, <1>3, <2>1, <2>3, Zenon
<1>5. e.qbase \in Int /\ e.total_q \in Nat
  BY <1>4 DEF Entry
<1>6. PICK b, n, s : b = e.qbase /\ n = e.total_q /\ s = r.status
  OBVIOUS
<1>7. Answer(m, r) = [op |-> m.op, to |-> m.src, status |-> s, qbase |-> b, qmax |-> n, retry |-> RetryCnt]
  BY <1>1, <1>6, Zenon DEF Answer
<1>8. m.op \in Ops /\ m.src \in VF /\ s \in {0, -1} /\ b \in Int /\ n \in Nat /\ RetryCnt \in Int
  BY <1>2, <1>5, <1>6, MailboxAssumption DEF Packet
<1>9. PICK a : a = Answer(m, r)
  OBVIOUS
<1>10. a \in Reply
  BY <1>7, <1>8, <1>9 DEF Reply
<1>11. a.op = m.op /\ a.to = m.src /\ a.status = s /\ a.retry = RetryCnt /\ a.qbase = b /\ a.qmax = n
  BY <1>7, <1>9
<1>12. m.op = "qreq" /\ r.status = 0 => e = r.pool.dev[m.src].entry
  BY <1>1, <1>3, Zenon
<1> QED
  BY <1>6, <1>9, <1>10, <1>11, <1>12, Zenon DEF AnswerRight

LEMMA AppendIs ==
  ASSUME NEW S, NEW s \in Seq(S), NEW a \in S, NEW t, t = Append(s, a)
  PROVE  /\ t \in Seq(S) /\ Len(t) = Len(s) + 1 /\ Len(s) \in Nat /\ t # <<>> /\ t[Len(s) + 1] = a
         /\ \A i \in 1..Len(s) : t[i] = s[i]
OBVIOUS

LEMMA ReceivedIs ==
  ASSUME Types, NEW f \in VF, PfRx(f), NEW m, m = outV[f], NEW r, r = Handled(m)
  PROVE  /\ Types' /\ m \in Packet /\ m.src = f /\ m # Empty
         /\ Elsewhere(f, r.pool, r.fmap) /\ pool' = r.pool /\ fmap' = r.fmap
         /\ outV'[f] = Empty /\ \A g \in VF : g # f => outV'[g] = outV[g]
         /\ m.op = "bye" => answers' = answers
         /\ m.op # "bye" => \E a : AnswerRight(m, r, a) /\ answers' = Append(answers, a)
         /\ txrun' = (txrun \/ m.op # "bye")
         /\ UNCHANGED <<vf, req, outP, late, hasty>>
<1>1. /\ m # Empty /\ outV' = [outV EXCEPT ![f] = Empty] /\ pool' = r.pool /\ fmap' = r.fmap
      /\ answers' = IF m.op = "bye" THEN answers ELSE Append(answers, Answer(m, r))
      /\ txrun' = (txrun \/ m.op # "bye")
      /\ UNCHANGED <<vf, req, outP, late, hasty>>
  BY Zenon DEF PfRx
<1>2. m \in Packet /\ m.src = f
  BY <1>1, MessageOf
<1>3. Elsewhere(f, r.pool, r.fmap)
  BY <1>2, HandledIs
<1>4. outV'[f] = Empty /\ \A g \in VF : g # f => outV'[g] = outV[g]
  BY <1>1, Zenon DEF Types, Wires
<1>5. PICK a : a = Answer(m, r)
  OBVIOUS
<1>6. AnswerRight(m, r, a)
  BY <1>2, <1>5, AnswerIs
<1>7. answers' \in Seq(Reply)
  <2>1. a \in Reply /\ answers \in Seq(Reply)
    BY <1>6, WiresAre, Zenon DEF AnswerRight
  <2> QED
    BY <1>1, <1>5, <2>1, AppendIs
<1>8. PoolOk(pool') /\ DOMAIN fmap' = VF
  BY <1>1, <1>3, Zenon DEF Elsewhere
<1>9. txrun' \in BOOLEAN
  BY <1>1
<1>10. outP' = Empty \/ outP' \in Reply
  BY <1>1, WiresAre, Zenon
<1>11. Types'
  BY <1>1, <1>7, <1>8, <1>9, <1>10, PfTypes, Zenon
<1> QED
  BY <1>1, <1>2, <1>3, <1>4, <1>5, <1>6, <1>11, Zenon

LEMMA ReceivedTypes ==
  ASSUME Types, NEW f \in VF, PfRx(f)
  PROVE  Types'
<1>1. PICK m, r : m = outV[f] /\ r = Handled(m)
  OBVIOUS
<1> QED
  BY <1>1, ReceivedIs

LEMMA TypesNext ==
  ASSUME Types, [MailNext]_mailVars
  PROVE  Types'
<1>1. CASE PfTx
  BY <1>1, SendIs, RetryIs DEF PfTx
<1>2. ASSUME NEW f \in VF, Caller(f)
      PROVE  Types'
  BY <1>2, LoadTypes, SetQmaxTypes, AddQueueTypes, RemoveQueueTypes, UnloadTypes, StoppedTypes,
     ExpireTypes, EarlyWakeTypes, VanishTypes, Zenon DEF Caller
<1>3. ASSUME NEW f \in VF, VfWork(f)
      PROVE  Types'
  BY <1>3, VfTxTypes, VfRxTypes, VfWakeTypes DEF VfWork
<1>4. ASSUME NEW f \in VF, PfRx(f)
      PROVE  Types'
  BY <1>4, ReceivedTypes
<1>5. CASE UNCHANGED mailVars
  BY <1>5 DEF mailVars, Types, Wires, Account, Callers
<1> QED
  BY <1>1, <1>2, <1>3, <1>4, <1>5, Zenon DEF MailNext

LEMMA PoolFirst ==
  ASSUME NEW p, p = MasterCreate
  PROVE  PoolOk(p) /\ DOMAIN p.dev = {}
<1>1. PICK a, b, c : a = <<[qbase |-> 0, total_q |-> TotalQ]>> /\ b = <<>> /\ c = 0
  OBVIOUS
<1>2. PoolShape(p) /\ p.free = MasterCreate.free /\ p.dev = <<>>
  <2>1. p = Pl(a, b, c)
    BY <1>1, Zenon DEF MasterCreate, Pl
  <2>2. PoolShape(p) /\ p.free = a /\ p.dev = b
    BY <2>1, PlMade
  <2>3. MasterCreate.free = p.free
    OBVIOUS
  <2> QED
    BY <1>1, <2>2, <2>3, Zenon
<1>3. DOMAIN p.dev = {}
  BY <1>2
<1>4. Shared(p.free, p.dev)
  BY <1>2, <1>3, SharedAtFirst, Zenon
<1> QED
  BY <1>2, <1>3, <1>4 DEF PoolOk, AllDevices

LEMMA TypesFirst ==
  ASSUME MailInit
  PROVE  Types
<1>1. Account
  BY PoolFirst, Zenon DEF MailInit, Account
<1>2. Callers
  <2>1. \A f \in VF : vf[f] = Off /\ req[f] = Nothing
    BY Zenon DEF MailInit
  <2> QED
    BY <2>1, OffRight, Zenon DEF Callers
<1>3. Wires
  <2>1. DOMAIN outV = VF /\ (\A f \in VF : outV[f] = Empty) /\ DOMAIN vf = VF /\ DOMAIN req = VF /\ DOMAIN fmap = VF
    BY Zenon DEF MailInit
  <2>2. answers \in Seq(Reply) /\ txrun \in BOOLEAN /\ late \subseteq VF /\ outP = Empty
    <3>1. answers = <<>> /\ txrun = FALSE /\ late = {} /\ outP = Empty
      BY Zenon DEF MailInit
    <3>2. <<>> \in Seq(Reply) /\ FALSE \in BOOLEAN /\ {} \subseteq VF
      OBVIOUS
    <3> QED
      BY <3>1, <3>2, Zenon
  <2> QED
    BY <2>1, <2>2, Zenon DEF Wires
<1> QED
  BY <1>1, <1>2, <1>3, Zenon DEF Types

-----------------------------------------------------------------------------
(* A function that uses its queues is known. *)

LEMMA EnrolledOf ==
  ASSUME Types, Enrolment, NEW f \in VF, NEW w, NEW r, Moves(f, w, r), UNCHANGED <<pool, fmap>>,
         \A g \in VF : g # f => outV'[g] = outV[g],
         Enrolled(w, r, outV'[f], Known(f), fmap[f])
  PROVE  Enrolment'
<1>1. ASSUME NEW g \in VF
      PROVE  Enrolled(vf'[g], req'[g], outV'[g], Known(g)', fmap'[g])
  <2>1. Known(g)' <=> Known(g)
    BY Zenon DEF Known
  <2>2. CASE g = f
    <3>1. vf'[f] = w /\ req'[f] = r /\ fmap' = fmap
      BY Zenon DEF Moves
    <3> QED
      BY <2>1, <2>2, <3>1, Zenon DEF Enrolled
  <2>3. CASE g # f
    <3>1. vf'[g] = vf[g] /\ req'[g] = req[g] /\ fmap' = fmap /\ outV'[g] = outV[g]
      BY <2>3, Zenon DEF Moves
    <3> QED
      BY <2>1, <3>1, Zenon DEF Enrolled, Enrolment
  <2> QED
    BY <2>2, <2>3, Zenon
<1> QED
  BY <1>1, Zenon DEF Enrolment

LEMMA EnrolledMoved ==
  ASSUME Types, Enrolment, NEW f \in VF, NEW w, NEW r, Moves(f, w, r), UNCHANGED <<pool, fmap, outV>>,
         Calls(w, r) => Calls(vf[f], req[f])
  PROVE  Enrolment'
<1>1. Enrolled(vf[f], req[f], outV[f], Known(f), fmap[f])
  BY Zenon DEF Enrolment
<1>2. outV' = outV
  BY Zenon
<1>3. Enrolled(w, r, outV'[f], Known(f), fmap[f])
  BY <1>1, <1>2, Zenon DEF Enrolled
<1>4. UNCHANGED <<pool, fmap>>
  BY Zenon
<1>5. \A g \in VF : g # f => outV'[g] = outV[g]
  BY <1>2, Zenon
<1> QED
  BY <1>3, <1>4, <1>5, EnrolledOf, Zenon

LEMMA EnrolledSame ==
  ASSUME Enrolment, UNCHANGED <<vf, req, pool, fmap, outV>>
  PROVE  Enrolment'
<1>1. \A f \in VF : Known(f)' <=> Known(f)
  BY Zenon DEF Known
<1> QED
  BY <1>1, Zenon DEF Enrolment, Enrolled

LEMMA NotCalls ==
  ASSUME NEW w, NEW r, w.state = "off" \/ (w.state = "starting" /\ r.place = "todo") \/ (w.state = "leaving" /\ ~Works(w))
  PROVE  ~Calls(w, r)
BY DEF Calls, Works

LEMMA IdleEnrolled ==
  ASSUME Types, Enrolment, NEW f \in VF, Idle(f), NEW v, Proceed(f, v), UNCHANGED <<pool, fmap, outV>>
  PROVE  Enrolment'
<1>1. PICK w : w = Onward(v)
  OBVIOUS
<1>2. PICK r : r = Next1(f, w)
  OBVIOUS
<1>3. Moves(f, w, r)
  BY <1>1, <1>2, ProceedIs, Zenon DEF Types
<1>4. Calls(vf[f], req[f])
  BY Zenon DEF Idle, Calls
<1> QED
  BY <1>3, <1>4, EnrolledMoved

LEMMA LoadEnrolled ==
  ASSUME Types, Enrolment, NEW f \in VF, Load(f)
  PROVE  Enrolment'
<1>1. PICK v : v = [Off EXCEPT !.state = "starting", !.plan = <<Message("hello")>>]
  OBVIOUS
<1>2. v \in Driver /\ Begun(v) /\ Goes(v) /\ v.plan # <<>>
  BY <1>1, Opening
<1>3. Proceed(f, v) /\ UNCHANGED <<pool, fmap, outV>>
  BY <1>1, Zenon DEF Load
<1>4. PICK w : w = Onward(v)
  OBVIOUS
<1>5. PICK r : r = Next1(f, w)
  OBVIOUS
<1>6. Moves(f, w, r)
  BY <1>3, <1>4, <1>5, ProceedIs, Zenon DEF Types
<1>7. OnwardRight(v, w)
  BY <1>2, <1>4, OnwardIs
<1>8. w = v
  BY <1>2, <1>7, Zenon DEF OnwardRight
<1>9. w.state = "starting" /\ r.place = "todo"
  BY <1>2, <1>5, <1>8, NextIs, Zenon DEF Begun, Starting
<1> QED
  BY <1>3, <1>6, <1>9, NotCalls, EnrolledMoved

LEMMA EndedEnrolled ==
  ASSUME Types, Enrolment, NEW f \in VF, req[f].place \in {"todo", "pend", "matched"}, req[f].msg.op # "bye",
         NEW ok \in BOOLEAN, NEW a \in Reply \cup Packet, req[f].place = "todo" => ~ok,
         NEW v, v = Returned(f, ok, a), Proceed(f, v), UNCHANGED <<pool, fmap, outV>>
  PROVE  Enrolment'
<1>1. PICK w : w = Onward(v)
  OBVIOUS
<1>2. PICK r : r = Next1(f, w)
  OBVIOUS
<1>3. Moves(f, w, r)
  BY <1>1, <1>2, ProceedIs, Zenon DEF Types
<1>4. v \in Driver /\ Goes(v)
  BY EndedIs
<1>5. Starting(vf[f]) \/ Works(vf[f])
  BY EndedIs
<1>6. Calls(w, r) => Calls(vf[f], req[f])
  <2>1. CASE Works(vf[f])
    BY <2>1, Zenon DEF Calls
  <2>2. CASE Starting(vf[f])
    <3>1. CASE req[f].place = "todo"
      <4>1. v.plan = <<>> /\ v.removing = {} /\ v.state = "leaving"
        <5>1. v.state = IF ok THEN "on" ELSE "leaving"
          BY <2>2, EndedIs
        <5>2. v.plan = <<>> /\ v.removing = {}
          BY <2>2, EndedIs
        <5> QED
          BY <3>1, <5>1, <5>2, Zenon
      <4>2. w.state = "leaving" /\ ~Works(w)
        BY <1>1, <1>4, <4>1, OnwardTypes, Zenon
      <4> QED
        BY <4>2, NotCalls
    <3>2. CASE req[f].place # "todo"
      BY <2>2, <3>2 DEF Calls, Starting
    <3> QED
      BY <3>1, <3>2
  <2> QED
    BY <1>5, <2>1, <2>2
<1> QED
  BY <1>3, <1>6, EnrolledMoved

LEMMA ExpireEnrolled ==
  ASSUME Types, Enrolment, NEW f \in VF, Expire(f)
  PROVE  Enrolment'
<1>1. PICK ok, a : ok = FALSE /\ a = req[f].msg
  OBVIOUS
<1>2. req[f].place \in {"todo", "pend", "matched"} /\ req[f].msg.op # "bye"
  BY DEF Expire
<1>3. a \in Reply \cup Packet /\ ok \in BOOLEAN
  BY <1>1, <1>2, WaitsIs
<1>4. PICK v : v = Returned(f, ok, a)
  OBVIOUS
<1>5. Proceed(f, v) /\ UNCHANGED <<pool, fmap, outV>>
  BY <1>1, <1>4, Zenon DEF Expire
<1>6. req[f].place = "todo" => ~ok
  BY <1>1
<1> QED
  BY <1>2, <1>3, <1>4, <1>5, <1>6, EndedEnrolled

LEMMA VfWakeEnrolled ==
  ASSUME Types, Enrolment, NEW f \in VF, VfWake(f)
  PROVE  Enrolment'
<1>1. PICK ok, a : ok = (req[f].answer.status >= 0) /\ a = req[f].answer
  OBVIOUS
<1>2. req[f].place = "matched"
  BY Zenon DEF VfWake
<1>3. req[f].place \in {"todo", "pend", "matched"} /\ req[f].msg.op # "bye" /\ a \in Reply
  BY <1>1, <1>2, MatchedIs, Zenon
<1>4. a \in Reply \cup Packet /\ ok \in BOOLEAN
  BY <1>1, <1>3, StatusIs
<1>5. PICK v : v = Returned(f, ok, a)
  OBVIOUS
<1>6. Proceed(f, v) /\ UNCHANGED <<pool, fmap, outV>>
  BY <1>1, <1>5, Zenon DEF VfWake
<1>7. req[f].place = "todo" => ~ok
  BY <1>2
<1> QED
  BY <1>3, <1>4, <1>5, <1>6, <1>7, EndedEnrolled

LEMMA EarlyWakeEnrolled ==
  ASSUME Types, Enrolment, NEW f \in VF, EarlyWake(f)
  PROVE  Enrolment'
<1>1. PICK a : a = req[f].msg
  OBVIOUS
<1>2. PICK v, ok : v = Returned(f, TRUE, a) /\ ok = TRUE
  OBVIOUS
<1>3. /\ req[f].place = "matched" /\ req[f].place \in {"todo", "pend", "matched"} /\ req[f].msg.op # "bye"
      /\ a \in Reply \cup Packet /\ Proceed(f, v) /\ UNCHANGED <<pool, fmap, outV>>
  BY <1>1, <1>2, EarlyWakeIs
<1>4. v = Returned(f, ok, a) /\ ok \in BOOLEAN /\ (req[f].place = "todo" => ~ok)
  BY <1>2, <1>3
<1> QED
  BY <1>3, <1>4, EndedEnrolled

LEMMA GoneEnrolled ==
  ASSUME Types, Enrolment, NEW f \in VF, Moves(f, Off, Nothing), UNCHANGED <<pool, fmap, outV>>
  PROVE  Enrolment'
<1>1. Off.state = "off"
  BY OffIs, Zenon DEF Has
<1>2. PICK w, r : w = Off /\ r = Nothing
  OBVIOUS
<1>3. ~Calls(w, r)
  BY <1>1, <1>2, NotCalls
<1> QED
  BY <1>2, <1>3, EnrolledMoved

LEMMA VfTxEnrolled ==
  ASSUME Types, Enrolment, NEW f \in VF, VfTx(f)
  PROVE  Enrolment'
<1>1. /\ req[f].place = "todo" /\ outV[f] = Empty /\ outV' = [outV EXCEPT ![f] = req[f].msg]
      /\ UNCHANGED <<pool, fmap>>
  BY Zenon DEF VfTx
<1>2. PICK m : m = req[f].msg
  OBVIOUS
<1>3. outV'[f] = m /\ \A g \in VF : g # f => outV'[g] = outV[g]
  BY <1>1, <1>2, Zenon DEF Types, Wires
<1>4. Enrolled(vf[f], req[f], outV[f], Known(f), fmap[f])
  BY Zenon DEF Enrolment
<1>5. Empty.op = "none" /\ "none" # "hello" /\ "bye" # "hello" /\ "bye" \notin Work /\ "hello" \notin Work
  BY DEF Empty, Work
<1>6. req[f].place \in {"todo", "pend", "matched"}
  BY <1>1
<1>7. CASE m.op = "bye"
  <2>1. Moves(f, vf[f], Nothing)
    BY <1>2, <1>7, VfTxTypes, Zenon
  <2>2. vf[f].state = "leaving" /\ ~Works(vf[f])
    <3>1. ~Starting(vf[f]) /\ ~Works(vf[f])
      BY <1>2, <1>5, <1>6, <1>7, WaitsIs, Zenon
    <3>2. Leaves(vf[f])
      BY <1>6, <3>1, WaitsIs, Zenon
    <3> QED
      BY <3>1, <3>2, Zenon DEF Leaves
  <2>3. PICK w, r : w = vf[f] /\ r = Nothing
    OBVIOUS
  <2>4. ~Calls(w, r)
    BY <2>2, <2>3, NotCalls
  <2>5. Enrolled(w, r, outV'[f], Known(f), fmap[f])
    BY <1>3, <1>4, <1>5, <1>7, <2>4, Zenon DEF Enrolled
  <2> QED
    BY <1>1, <1>3, <2>1, <2>3, <2>5, EnrolledOf
<1>8. CASE m.op # "bye"
  <2>1. PICK w, r : w = vf[f] /\ r = [req[f] EXCEPT !.place = "pend"]
    OBVIOUS
  <2>2. Moves(f, w, r)
    BY <1>2, <1>8, <2>1, VfTxTypes, Zenon
  <2>3. Enrolled(w, r, outV'[f], Known(f), fmap[f])
    <3>1. CASE Starting(vf[f])
      <4>1. m.op = "hello"
        BY <1>2, <1>6, <3>1, WaitsIs, Zenon
      <4> QED
        BY <1>3, <1>4, <1>5, <4>1, Zenon DEF Enrolled
    <3>2. CASE Works(vf[f])
      <4>1. Calls(vf[f], req[f])
        BY <3>2, Zenon DEF Calls
      <4>2. Known(f)
        BY <1>1, <1>4, <1>5, <4>1, Zenon DEF Enrolled
      <4> QED
        BY <1>3, <1>8, <4>2, Zenon DEF Enrolled
    <3>3. ~Leaves(vf[f])
      BY <1>2, <1>6, <1>8, WaitsIs, Zenon
    <3> QED
      BY <1>6, <3>1, <3>2, <3>3, WaitsIs, Zenon
  <2> QED
    BY <1>1, <1>3, <2>2, <2>3, EnrolledOf
<1> QED
  BY <1>7, <1>8

LEMMA VfRxEnrolled ==
  ASSUME Types, Enrolment, NEW f \in VF, VfRx(f)
  PROVE  Enrolment'
<1>1. UNCHANGED <<pool, fmap, outV>>
  BY Zenon DEF VfRx
<1>2. CASE ~(req[f].place = "pend" /\ req[f].msg.op = outP.op)
  <2>1. PICK w, r : w = vf[f] /\ r = req[f]
    OBVIOUS
  <2>2. Moves(f, w, r)
    BY <1>2, <2>1, VfRxTypes, Zenon
  <2> QED
    BY <1>1, <2>1, <2>2, EnrolledMoved
<1>3. CASE req[f].place = "pend" /\ req[f].msg.op = outP.op
  <2>1. PICK w : w = vf[f]
    OBVIOUS
  <2>2. PICK r : Moves(f, w, r) /\ r.place = "matched"
    BY <1>3, <2>1, VfRxTypes, Zenon
  <2>3. Calls(w, r) => Calls(vf[f], req[f])
    BY <1>3, <2>1, Zenon DEF Calls
  <2> QED
    BY <1>1, <2>2, <2>3, EnrolledMoved
<1> QED
  BY <1>2, <1>3, Zenon

LEMMA ReceivedEnrolled ==
  ASSUME Types, Enrolment, NEW f \in VF, PfRx(f)
  PROVE  Enrolment'
<1>1. PICK m, r : m = outV[f] /\ r = Handled(m)
  OBVIOUS
<1>2. /\ m \in Packet /\ m.src = f /\ Elsewhere(f, r.pool, r.fmap) /\ pool' = r.pool /\ fmap' = r.fmap
      /\ outV'[f] = Empty /\ \A g \in VF : g # f => outV'[g] = outV[g]
      /\ UNCHANGED <<vf, req>>
  BY <1>1, ReceivedIs
<1>3. \A g \in VF : Known(g)' <=> g \in DOMAIN r.pool.dev
  BY <1>2, Zenon DEF Known
<1>4. Empty.op = "none" /\ "none" # "hello" /\ "none" # "bye" /\ "none" \notin Work
  BY DEF Empty, Work
<1>5. Enrolled(vf[f], req[f], m, Known(f), fmap[f])
  BY <1>1, Zenon DEF Enrolment
<1>6. m.op = "bye" \/ m.op = "hello" \/ m.op \in Work
  BY <1>2 DEF Packet, Ops
<1>7. Enrolled(vf[f], req[f], Empty, f \in DOMAIN r.pool.dev, r.fmap[f])
  <2>1. CASE m.op = "bye"
    <3>1. ~Calls(vf[f], req[f])
      BY <1>5, <2>1, Zenon DEF Enrolled
    <3>2. r.fmap[f] = NoMap
      BY <1>1, <1>2, <2>1, ByeDone
    <3> QED
      BY <1>4, <3>1, <3>2, Zenon DEF Enrolled
  <2>2. CASE m.op = "hello"
    <3>1. f \in DOMAIN r.pool.dev
      BY <1>1, <1>2, <2>2, HelloDone
    <3> QED
      BY <1>4, <3>1, Zenon DEF Enrolled
  <2>3. CASE m.op \in Work
    <3>1. f \in DOMAIN r.pool.dev
      BY <1>1, <1>2, <1>5, <2>3, HandledIs, Zenon DEF Enrolled, Known
    <3> QED
      BY <1>4, <3>1, Zenon DEF Enrolled
  <2> QED
    BY <1>6, <2>1, <2>2, <2>3
<1>8. ASSUME NEW g \in VF
      PROVE  Enrolled(vf'[g], req'[g], outV'[g], Known(g)', fmap'[g])
  <2>1. vf' = vf /\ req' = req
    BY <1>2, Zenon
  <2>2. CASE g = f
    BY <1>2, <1>3, <1>7, <2>1, <2>2, Zenon DEF Enrolled
  <2>3. CASE g # f
    <3>1. outV'[g] = outV[g] /\ fmap'[g] = fmap[g] /\ (Known(g)' <=> Known(g))
      BY <1>2, <1>3, <2>3, Zenon DEF Elsewhere, Known
    <3> QED
      BY <2>1, <3>1, Zenon DEF Enrolled, Enrolment
  <2> QED
    BY <2>2, <2>3, Zenon
<1> QED
  BY <1>8, Zenon DEF Enrolment

LEMMA EnrolmentNext ==
  ASSUME Types, Enrolment, [MailNext]_mailVars
  PROVE  Enrolment'
<1>1. CASE PfTx
  <2>1. UNCHANGED <<vf, req, pool, fmap, outV>>
    BY <1>1, Zenon DEF PfTx, PfSend, PfRetry
  <2> QED
    BY <2>1, EnrolledSame
<1>2. ASSUME NEW f \in VF, Caller(f)
      PROVE  Enrolment'
  <2>1. CASE Load(f)
    BY <2>1, LoadEnrolled
  <2>2. CASE (\E n \in QMaxs : SetQmax(f, n)) \/ (\E k \in Kinds, i \in 0..(TotalQ - 1) : AddQueue(f, k, i))
             \/ (\E q \in vf[f].queues : RemoveQueue(f, q)) \/ Unload(f)
    <3>1. Idle(f) /\ (\E v : Proceed(f, v)) /\ UNCHANGED <<pool, fmap, outV>>
      BY <2>2, Zenon DEF SetQmax, AddQueue, RemoveQueue, Unload
    <3> QED
      BY <3>1, IdleEnrolled
  <2>3. CASE Stopped(f)
    <3>1. UNCHANGED <<pool, fmap, outV>>
      BY <2>3, Zenon DEF Stopped
    <3> QED
      BY <2>3, <3>1, StoppedTypes, GoneEnrolled
  <2>4. CASE Expire(f)
    BY <2>4, ExpireEnrolled
  <2>5. CASE Vanish(f)
    <3>1. UNCHANGED <<pool, fmap, outV>>
      BY <2>5, Zenon DEF Vanish
    <3> QED
      BY <2>5, <3>1, VanishTypes, GoneEnrolled
  <2>6. CASE EarlyWake(f)
    BY <2>6, EarlyWakeEnrolled
  <2> QED
    BY <1>2, <2>1, <2>2, <2>3, <2>4, <2>5, <2>6, Zenon DEF Caller
<1>3. ASSUME NEW f \in VF, VfWork(f)
      PROVE  Enrolment'
  BY <1>3, VfTxEnrolled, VfRxEnrolled, VfWakeEnrolled DEF VfWork
<1>4. ASSUME NEW f \in VF, PfRx(f)
      PROVE  Enrolment'
  BY <1>4, ReceivedEnrolled
<1>5. CASE UNCHANGED mailVars
  <2>1. UNCHANGED <<vf, req, pool, fmap, outV>>
    BY <1>5, Zenon DEF mailVars
  <2> QED
    BY <2>1, EnrolledSame
<1> QED
  BY <1>1, <1>2, <1>3, <1>4, <1>5, Zenon DEF MailNext

LEMMA EnrolmentFirst ==
  ASSUME MailInit
  PROVE  Enrolment
<1>1. ASSUME NEW f \in VF
      PROVE  Enrolled(vf[f], req[f], outV[f], Known(f), fmap[f])
  <2>1. vf[f] = Off /\ req[f] = Nothing /\ outV[f] = Empty /\ fmap[f] = NoMap
    BY Zenon DEF MailInit
  <2>2. PICK w, r : w = Off /\ r = Nothing
    OBVIOUS
  <2>3. w.state = "off"
    BY <2>2, OffIs, Zenon DEF Has
  <2>4. ~Calls(w, r)
    BY <2>3, NotCalls
  <2>5. Empty.op \notin Work
    BY DEF Empty, Work
  <2> QED
    BY <2>1, <2>2, <2>4, <2>5, Zenon DEF Enrolled
<1> QED
  BY <1>1, Zenon DEF Enrolment

-----------------------------------------------------------------------------
(* The answers on their way to a function. *)

(* A step of the PF or of another function: an answer to g stays, or is lost if one is late. *)
MailKept(ans, out, ans2, out2, g, slack) ==
  /\ NoMail(ans, out, g) => NoMail(ans2, out2, g)
  /\ \A a \in Reply : OneMail(ans, out, g, a) => OneMail(ans2, out2, g, a) \/ (slack /\ NoMail(ans2, out2, g))

LEMMA SameIs ==
  /\ \A a, b, c : Same(a, b) /\ Same(b, c) => Same(a, c)
  /\ \A a, b : Same(a, b) => Same(b, a)
  /\ \A a : Same(a, a)
BY DEF Same

LEMMA QueuedIs ==
  ASSUME NEW s \in Seq(Reply), NEW g
  PROVE  /\ DOMAIN s = 1..Len(s) /\ Len(s) \in Nat
         /\ \A i : i \in Queued(s, g) <=> i \in 1..Len(s) /\ s[i].to = g
BY DEF Queued

LEMMA MailSame ==
  ASSUME NEW ans, NEW out, NEW g, NEW slack
  PROVE  MailKept(ans, out, ans, out, g, slack)
BY Zenon DEF MailKept

(* An answer b is added at the end of the list. *)
LEMMA MailAdded ==
  ASSUME NEW ans \in Seq(Reply), NEW out, NEW b \in Reply, NEW ans2, ans2 = Append(ans, b), NEW g
  PROVE  /\ b.to # g => \A slack : MailKept(ans, out, ans2, out, g, slack)
         /\ b.to = g /\ NoMail(ans, out, g) => OneMail(ans2, out, g, b)
<1>1. /\ ans2 \in Seq(Reply) /\ Len(ans2) = Len(ans) + 1 /\ Len(ans) \in Nat /\ ans2[Len(ans) + 1] = b
      /\ \A i \in 1..Len(ans) : ans2[i] = ans[i]
  BY AppendIs
<1>2. /\ \A i : i \in Queued(ans, g) <=> i \in 1..Len(ans) /\ ans[i].to = g
      /\ \A i : i \in Queued(ans2, g) <=> i \in 1..Len(ans2) /\ ans2[i].to = g
  BY <1>1, QueuedIs, Zenon
<1>3. ASSUME b.to # g
      PROVE  Queued(ans2, g) = Queued(ans, g)
  <2>1. \A i : i \in 1..Len(ans2) <=> i \in 1..Len(ans) \/ i = Len(ans) + 1
    BY <1>1
  <2>2. \A i : i \in Queued(ans2, g) <=> i \in Queued(ans, g)
    <3>1. ans2[Len(ans) + 1].to # g
      BY <1>1, <1>3, Zenon
    <3>2. \A i \in 1..Len(ans) : ans2[i].to = g <=> ans[i].to = g
      BY <1>1, Zenon
    <3> QED
      BY <1>2, <2>1, <3>1, <3>2, Zenon
  <2> QED
    BY <2>2, Zenon
<1>4. ASSUME b.to # g, NEW slack
      PROVE  MailKept(ans, out, ans2, out, g, slack)
  <2>1. Queued(ans2, g) = Queued(ans, g)
    BY <1>3, <1>4
  <2>2. \A i \in Queued(ans, g) : ans2[i] = ans[i] /\ i \in DOMAIN ans2
    <3>1. DOMAIN ans2 = 1..Len(ans2)
      BY <1>1, QueuedIs
    <3> QED
      BY <1>1, <1>2, <3>1
  <2>3. ASSUME NEW a \in Reply, OneMail(ans, out, g, a)
        PROVE  OneMail(ans2, out, g, a)
    <3>1. CASE Queued(ans, g) = {} /\ OutTo(out, g) /\ Same(out, a)
      BY <2>1, <3>1, Zenon DEF OneMail
    <3>2. CASE \E i \in DOMAIN ans : Queued(ans, g) = {i} /\ ~OutTo(out, g) /\ Same(ans[i], a)
      <4>1. PICK i \in DOMAIN ans : Queued(ans, g) = {i} /\ ~OutTo(out, g) /\ Same(ans[i], a)
        BY <3>2, Zenon
      <4>2. i \in DOMAIN ans2 /\ ans2[i] = ans[i]
        BY <2>2, <4>1
      <4> QED
        BY <2>1, <4>1, <4>2, Zenon DEF OneMail
    <3> QED
      BY <2>3, <3>1, <3>2, Zenon DEF OneMail
  <2> QED
    BY <2>1, <2>3, Zenon DEF MailKept, NoMail
<1>5. ASSUME b.to = g, NoMail(ans, out, g)
      PROVE  OneMail(ans2, out, g, b)
  <2>1. Queued(ans, g) = {} /\ ~OutTo(out, g)
    BY <1>5, Zenon DEF NoMail
  <2>2. PICK n : n = Len(ans) + 1
    OBVIOUS
  <2>3. Queued(ans2, g) = {n} /\ n \in DOMAIN ans2
    <3>1. DOMAIN ans2 = 1..Len(ans2)
      BY <1>1, QueuedIs
    <3> QED
      BY <1>1, <1>2, <1>5, <2>1, <2>2, <3>1
  <2>4. ans2[n] = b
    BY <1>1, <2>2
  <2> QED
    BY <2>1, <2>3, <2>4, SameIs, Zenon DEF OneMail
<1> QED
  BY <1>4, <1>5, Zenon

(* The answers behind the first one. *)
Behind(ans, ans2, g) ==
  \A i \in DOMAIN ans : Queued(ans, g) = {i} /\ i # 1 =>
    ans[1].to # g /\ \E j \in DOMAIN ans2 : Queued(ans2, g) = {j} /\ ans2[j] = ans[i]

LEMMA QueuedTail ==
  ASSUME NEW ans \in Seq(Reply), ans # <<>>, NEW ans2, ans2 = Tail(ans), NEW g
  PROVE  /\ Queued(ans, g) = {} => Queued(ans2, g) = {} /\ ans[1].to # g
         /\ Queued(ans, g) = {1} => Queued(ans2, g) = {} /\ ans[1].to = g
         /\ Behind(ans, ans2, g)
<1>1. /\ Len(ans) \in Nat /\ Len(ans) > 0 /\ ans2 \in Seq(Reply)
      /\ Len(ans2) = Len(ans) - 1 /\ \A i \in 1..(Len(ans) - 1) : ans2[i] = ans[i + 1]
  BY PlanHead
<1>2. /\ \A i : i \in Queued(ans, g) <=> i \in 1..Len(ans) /\ ans[i].to = g
      /\ \A i : i \in Queued(ans2, g) <=> i \in 1..Len(ans2) /\ ans2[i].to = g
      /\ DOMAIN ans = 1..Len(ans) /\ DOMAIN ans2 = 1..Len(ans2)
  BY <1>1, QueuedIs, ZenonT(40)
<1>3. \A i : i \in Queued(ans2, g) <=> i \in 1..(Len(ans) - 1) /\ i + 1 \in Queued(ans, g)
  BY <1>1, <1>2
<1>4. ans[1].to = g <=> 1 \in Queued(ans, g)
  BY <1>1, <1>2
<1>5. ASSUME Queued(ans, g) = {}
      PROVE  Queued(ans2, g) = {} /\ ans[1].to # g
  BY <1>3, <1>4, <1>5
<1>6. ASSUME Queued(ans, g) = {1}
      PROVE  Queued(ans2, g) = {} /\ ans[1].to = g
  BY <1>3, <1>4, <1>6
<1>7. ASSUME NEW i \in DOMAIN ans, Queued(ans, g) = {i}, i # 1
      PROVE  ans[1].to # g /\ \E j \in DOMAIN ans2 : Queued(ans2, g) = {j} /\ ans2[j] = ans[i]
  <2>1. i \in 1..Len(ans) /\ i - 1 \in 1..(Len(ans) - 1) /\ (i - 1) + 1 = i
    BY <1>1, <1>2, <1>7
  <2>2. ans2[i - 1] = ans[i] /\ i - 1 \in DOMAIN ans2
    BY <1>1, <1>2, <2>1
  <2>3. Queued(ans2, g) = {i - 1}
    BY <1>3, <1>7, <2>1
  <2>4. ans[1].to # g
    BY <1>4, <1>7
  <2> QED
    BY <2>2, <2>3, <2>4
<1> QED
  BY <1>5, <1>6, <1>7, Zenon DEF Behind

(* The first answer goes to the register. *)
LEMMA MailSent ==
  ASSUME NEW ans \in Seq(Reply), ans # <<>>, NEW ans2, ans2 = Tail(ans),
         NEW out \in Reply, Same(out, ans[1]), out.to = ans[1].to, NEW g, NEW slack
  PROVE  MailKept(ans, Empty, ans2, out, g, slack)
<1>1. ~OutTo(Empty, g) /\ (OutTo(out, g) <=> ans[1].to = g)
  BY ReplyIs, Zenon DEF OutTo
<1>2. NoMail(ans, Empty, g) => NoMail(ans2, out, g)
  BY <1>1, QueuedTail, Zenon DEF NoMail
<1>3. ASSUME NEW a \in Reply, OneMail(ans, Empty, g, a)
      PROVE  OneMail(ans2, out, g, a)
  <2>1. PICK i \in DOMAIN ans : Queued(ans, g) = {i} /\ Same(ans[i], a)
    BY <1>1, <1>3, Zenon DEF OneMail
  <2>2. CASE i = 1
    <3>1. Queued(ans2, g) = {} /\ ans[1].to = g
      BY <2>1, <2>2, QueuedTail, Zenon
    <3>2. Same(out, a)
      BY <2>1, <2>2, SameIs, Zenon
    <3> QED
      BY <1>1, <3>1, <3>2, Zenon DEF OneMail
  <2>3. CASE i # 1
    <3>1. ans[1].to # g /\ \E j \in DOMAIN ans2 : Queued(ans2, g) = {j} /\ ans2[j] = ans[i]
      <4>1. Behind(ans, ans2, g)
        BY QueuedTail, Zenon
      <4> QED
        BY <2>1, <2>3, <4>1, Zenon DEF Behind
    <3> QED
      BY <1>1, <2>1, <3>1, Zenon DEF OneMail
  <2> QED
    BY <2>2, <2>3
<1> QED
  BY <1>2, <1>3, Zenon DEF MailKept

(* The first answer is given up. *)
LEMMA MailDropped ==
  ASSUME NEW ans \in Seq(Reply), ans # <<>>, NEW ans2, ans2 = Tail(ans), NEW out \in Reply,
         NEW out2 \in Reply, Same(out2, out), out2.to = out.to, NEW g, NEW slack, slack
  PROVE  MailKept(ans, out, ans2, out2, g, slack)
<1>1. OutTo(out2, g) <=> OutTo(out, g)
  BY ReplyIs, Zenon DEF OutTo
<1>2. NoMail(ans, out, g) => NoMail(ans2, out2, g)
  BY <1>1, QueuedTail, Zenon DEF NoMail
<1>3. ASSUME NEW a \in Reply, OneMail(ans, out, g, a)
      PROVE  OneMail(ans2, out2, g, a) \/ NoMail(ans2, out2, g)
  <2>1. CASE Queued(ans, g) = {} /\ OutTo(out, g) /\ Same(out, a)
    <3>1. Queued(ans2, g) = {}
      BY <2>1, QueuedTail, Zenon
    <3>2. Same(out2, a)
      BY <2>1, SameIs, Zenon
    <3> QED
      BY <1>1, <2>1, <3>1, <3>2, Zenon DEF OneMail
  <2>2. CASE \E i \in DOMAIN ans : Queued(ans, g) = {i} /\ ~OutTo(out, g) /\ Same(ans[i], a)
    <3>1. PICK i \in DOMAIN ans : Queued(ans, g) = {i} /\ ~OutTo(out, g) /\ Same(ans[i], a)
      BY <2>2, Zenon
    <3>2. CASE i = 1
      <4>1. Queued(ans2, g) = {}
        BY <3>1, <3>2, QueuedTail, Zenon
      <4> QED
        BY <1>1, <3>1, <4>1, Zenon DEF NoMail
    <3>3. CASE i # 1
      <4>1. \E j \in DOMAIN ans2 : Queued(ans2, g) = {j} /\ ans2[j] = ans[i]
        <5>1. Behind(ans, ans2, g)
          BY QueuedTail, Zenon
        <5> QED
          BY <3>1, <3>3, <5>1, Zenon DEF Behind
      <4> QED
        BY <1>1, <3>1, <4>1, Zenon DEF OneMail
    <3> QED
      BY <3>2, <3>3
  <2> QED
    BY <1>3, <2>1, <2>2, Zenon DEF OneMail
<1> QED
  BY <1>2, <1>3, Zenon DEF MailKept

(* The attempts are counted. *)
LEMMA MailCounted ==
  ASSUME NEW ans \in Seq(Reply), NEW ans2 \in Seq(Reply), Len(ans2) = Len(ans),
         \A i \in 1..Len(ans) : ans2[i].to = ans[i].to /\ Same(ans2[i], ans[i]),
         NEW out \in Reply, NEW out2 \in Reply, Same(out2, out), out2.to = out.to, NEW g, NEW slack
  PROVE  MailKept(ans, out, ans2, out2, g, slack)
<1>1. OutTo(out2, g) <=> OutTo(out, g)
  BY ReplyIs, Zenon DEF OutTo
<1>2. /\ \A i : i \in Queued(ans, g) <=> i \in 1..Len(ans) /\ ans[i].to = g
      /\ \A i : i \in Queued(ans2, g) <=> i \in 1..Len(ans) /\ ans2[i].to = g
      /\ DOMAIN ans = 1..Len(ans) /\ DOMAIN ans2 = 1..Len(ans)
  BY QueuedIs
<1>3. Queued(ans2, g) = Queued(ans, g)
  BY <1>2
<1>4. ASSUME NEW a \in Reply, OneMail(ans, out, g, a)
      PROVE  OneMail(ans2, out2, g, a)
  <2>1. CASE Queued(ans, g) = {} /\ OutTo(out, g) /\ Same(out, a)
    <3>1. Same(out2, a)
      BY <2>1, SameIs, Zenon
    <3> QED
      BY <1>1, <1>3, <2>1, <3>1, Zenon DEF OneMail
  <2>2. CASE \E i \in DOMAIN ans : Queued(ans, g) = {i} /\ ~OutTo(out, g) /\ Same(ans[i], a)
    <3>1. PICK i \in DOMAIN ans : Queued(ans, g) = {i} /\ ~OutTo(out, g) /\ Same(ans[i], a)
      BY <2>2, Zenon
    <3>2. i \in DOMAIN ans2 /\ i \in 1..Len(ans)
      BY <1>2, <3>1, Zenon
    <3>3. Same(ans2[i], a)
      BY <3>1, <3>2, SameIs, Zenon
    <3> QED
      BY <1>1, <1>3, <3>1, <3>2, <3>3, Zenon DEF OneMail
  <2> QED
    BY <1>4, <2>1, <2>2, Zenon DEF OneMail
<1> QED
  BY <1>1, <1>3, <1>4, Zenon DEF MailKept, NoMail

(* The register is emptied by f. *)
LEMMA MailTaken ==
  ASSUME NEW ans, NEW out, NEW f, OutTo(out, f), NEW g
  PROVE  /\ g # f => \A slack : MailKept(ans, out, ans, Empty, g, slack)
         /\ ~NoMail(ans, out, f)
         /\ \A a : OneMail(ans, out, f, a) => NoMail(ans, Empty, f) /\ Same(out, a)
<1>1. \A h : ~OutTo(Empty, h)
  BY Zenon DEF OutTo
<1>2. g # f => ~OutTo(out, g)
  BY Zenon DEF OutTo
<1>3. ASSUME g # f, NEW slack
      PROVE  MailKept(ans, out, ans, Empty, g, slack)
  BY <1>1, <1>2, <1>3, Zenon DEF MailKept, NoMail, OneMail
<1>4. \A a : OneMail(ans, out, f, a) => NoMail(ans, Empty, f) /\ Same(out, a)
  BY <1>1, Zenon DEF OneMail, NoMail
<1>5. ~NoMail(ans, out, f)
  BY Zenon DEF NoMail
<1> QED
  BY <1>3, <1>4, <1>5, Zenon

-----------------------------------------------------------------------------
(* The agreement of the functions that do not step. *)

LEMMA InStepKept ==
  ASSUME NEW g, NEW v, NEW r, NEW o, NEW k, NEW d, NEW m, NEW ans, NEW out, NEW ans2, NEW out2, NEW s, NEW s2,
         InStep(g, v, r, o, k, d, m, ans, out, s), MailKept(ans, out, ans2, out2, g, s2), s => s2
  PROVE  InStep(g, v, r, o, k, d, m, ans2, out2, s2)
<1>1. NoMail(ans, out, g) => NoMail(ans2, out2, g)
  BY Zenon DEF MailKept
<1>2. CASE r.place = "none" /\ NoMail(ans, out, g) /\ Calm(v, o, k, d, m)
  BY <1>1, <1>2, Zenon DEF InStep
<1>3. CASE r.place = "todo" /\ NoMail(ans, out, g) /\ Ready(v, o, k, d, m)
  BY <1>1, <1>3, Zenon DEF InStep
<1>4. CASE r.place = "pend" /\ NoMail(ans, out, g) /\ Sent(g, v, o, k, d, m)
  BY <1>1, <1>4, Zenon DEF InStep
<1>5. CASE r.place = "pend" /\ NoMail(ans, out, g) /\ o = Empty /\ s
  BY <1>1, <1>5, Zenon DEF InStep
<1>6. CASE r.place = "pend" /\ o = Empty /\ k /\ \E a \in Reply : OneMail(ans, out, g, a) /\ After(v, d, m, a)
  <2>1. PICK a \in Reply : OneMail(ans, out, g, a) /\ After(v, d, m, a)
    BY <1>6, Zenon
  <2>2. OneMail(ans2, out2, g, a) \/ (s2 /\ NoMail(ans2, out2, g))
    BY <2>1, Zenon DEF MailKept
  <2> QED
    BY <1>6, <2>1, <2>2, Zenon DEF InStep
<1>7. CASE r.place = "matched" /\ NoMail(ans, out, g) /\ o = Empty /\ k /\ After(v, d, m, r.answer)
  BY <1>1, <1>7, Zenon DEF InStep
<1> QED
  BY <1>2, <1>3, <1>4, <1>5, <1>6, <1>7, Zenon DEF InStep

(* What f finds, after the step as before it. *)
Untouched(g) ==
  /\ vf'[g] = vf[g] /\ req'[g] = req[g] /\ outV'[g] = outV[g] /\ fmap'[g] = fmap[g]
  /\ (g \in DOMAIN pool'.dev) <=> (g \in DOMAIN pool.dev)
  /\ DeviceOf(pool'.dev, g) = DeviceOf(pool.dev, g)
  /\ MailKept(answers, outP, answers', outP', g, late' # {})

AgreedNext(f) ==
  /\ InStep(f, vf'[f], req'[f], outV'[f], f \in DOMAIN pool'.dev, DeviceOf(pool'.dev, f), fmap'[f],
            answers', outP', late' # {})
  /\ Within(f \in DOMAIN pool'.dev, DeviceOf(pool'.dev, f).entry, fmap'[f])

LEMMA AgreedKept ==
  ASSUME NEW g \in VF, Agreed(g), Untouched(g), late \subseteq late'
  PROVE  AgreedNext(g)
<1>1. PICK k, d, s : k = (g \in DOMAIN pool.dev) /\ d = DeviceOf(pool.dev, g) /\ s = (late # {})
  OBVIOUS
<1>2. InStep(g, vf[g], req[g], outV[g], k, d, fmap[g], answers, outP, s) /\ Within(k, d.entry, fmap[g])
  BY <1>1, Zenon DEF Agreed, Known
<1>3. PICK k2, d2, s2 : k2 = (g \in DOMAIN pool'.dev) /\ d2 = DeviceOf(pool'.dev, g) /\ s2 = (late' # {})
  OBVIOUS
<1>4. s => s2
  BY <1>1, <1>3
<1>5. MailKept(answers, outP, answers', outP', g, s2)
  BY <1>3, Zenon DEF Untouched
<1>6. InStep(g, vf[g], req[g], outV[g], k, d, fmap[g], answers', outP', s2)
  BY <1>2, <1>4, <1>5, InStepKept
<1>7. k2 = k /\ d2 = d
  <2>1. d2 = d /\ ((g \in DOMAIN pool'.dev) <=> (g \in DOMAIN pool.dev))
    BY <1>1, <1>3, Zenon DEF Untouched
  <2> QED
    BY <1>1, <1>3, <2>1
<1> QED
  BY <1>2, <1>3, <1>6, <1>7, Zenon DEF Untouched, AgreedNext

LEMMA AgreementOf ==
  ASSUME Agreement, late \subseteq late' /\ hasty \subseteq hasty', NEW f, f \in VF \ Strays' => AgreedNext(f),
         \A g \in VF : g # f => Untouched(g)
  PROVE  Agreement'
<1>1. ASSUME NEW g \in VF \ Strays'
      PROVE  AgreedNext(g)
  <2>1. CASE g = f
    BY <2>1, Zenon
  <2>2. CASE g # f
    <3>1. g \in VF /\ g \in VF \ Strays
      BY <1>1 DEF Strays
    <3>2. Agreed(g)
      BY <3>1, Zenon DEF Agreement
    <3> QED
      BY <2>2, <3>1, <3>2, AgreedKept, Zenon
  <2> QED
    BY <2>1, <2>2
<1> QED
  BY <1>1, Zenon DEF Agreement, Agreed, AgreedNext, Known

(* A step of the PF's transmission changes nothing but the mail. *)
LEMMA AgreementSent ==
  ASSUME Agreement, UNCHANGED <<pool, fmap, vf, req, outV, late, hasty>>,
         \A g \in VF : MailKept(answers, outP, answers', outP', g, late' # {})
  PROVE  Agreement'
<1>1. \A g \in VF : Untouched(g)
  BY Zenon DEF Untouched
<1>2. late \subseteq late' /\ hasty \subseteq hasty'
  OBVIOUS
<1>3. \A f \in VF \ Strays' : AgreedNext(f)
  <2> TAKE f \in VF \ Strays'
  <2>1. f \in VF /\ f \in VF \ Strays
    BY DEF Strays
  <2>2. Agreed(f)
    BY <2>1, Zenon DEF Agreement
  <2> QED
    BY <1>1, <1>2, <2>1, <2>2, AgreedKept, Zenon
<1> QED
  BY <1>3, Zenon DEF Agreement, Agreed, AgreedNext, Known

(* A step of a caller or of its mailbox. *)
LEMMA OthersUntouched ==
  ASSUME NEW f \in VF, NEW w, NEW r, Moves(f, w, r),
         UNCHANGED <<pool, fmap, answers>>, \A g \in VF : g # f => outV'[g] = outV[g],
         outP' = outP \/ (outP' = Empty /\ OutTo(outP, f)), NEW g \in VF, g # f
  PROVE  Untouched(g)
<1>1. MailKept(answers, outP, answers', outP', g, late' # {})
  <2>1. PICK s : s = (late' # {})
    OBVIOUS
  <2>2. answers' = answers
    BY Zenon
  <2>3. CASE outP' = outP
    BY <2>2, <2>3, MailSame, Zenon
  <2>4. CASE outP' = Empty /\ OutTo(outP, f)
    <3>1. MailKept(answers, outP, answers, Empty, g, s)
      BY <2>4, MailTaken, Zenon
    <3> QED
      BY <2>1, <2>2, <2>4, <3>1, Zenon
  <2> QED
    BY <2>3, <2>4
<1>2. vf'[g] = vf[g] /\ req'[g] = req[g] /\ outV'[g] = outV[g] /\ fmap' = fmap /\ pool' = pool
  BY Zenon DEF Moves
<1> QED
  BY <1>1, <1>2, Zenon DEF Untouched

LEMMA AgreementMoved ==
  ASSUME Types, Agreement, late \subseteq late' /\ hasty \subseteq hasty', NEW f \in VF, NEW w, NEW r, Moves(f, w, r),
         UNCHANGED <<pool, fmap, answers>>, \A g \in VF : g # f => outV'[g] = outV[g],
         outP' = outP \/ (outP' = Empty /\ OutTo(outP, f)),
         f \in Strays' \/ InStep(f, w, r, outV'[f], Known(f), DeviceOf(pool.dev, f), fmap[f], answers, outP', late # {})
  PROVE  Agreement'
<1>1. ASSUME NEW g \in VF, g # f
      PROVE  Untouched(g)
  BY <1>1, OthersUntouched
<1>2. ASSUME f \in VF \ Strays'
      PROVE  AgreedNext(f)
  <2>1. InStep(f, w, r, outV'[f], Known(f), DeviceOf(pool.dev, f), fmap[f], answers, outP', late # {})
    BY <1>2
  <2>2. Agreed(f)
    <3>1. f \in VF \ Strays
      BY <1>2 DEF Strays
    <3> QED
      BY <3>1, Zenon DEF Agreement
  <2>3. PICK s, s2 : s = (late # {}) /\ s2 = (late' # {})
    OBVIOUS
  <2>4. s => s2
    BY <2>3
  <2>5. MailKept(answers, outP', answers, outP', f, s2)
    BY MailSame
  <2>6. InStep(f, w, r, outV'[f], Known(f), DeviceOf(pool.dev, f), fmap[f], answers, outP', s)
    BY <2>1, <2>3, Zenon
  <2>7. PICK k, d : k = Known(f) /\ d = DeviceOf(pool.dev, f)
    OBVIOUS
  <2>8. InStep(f, w, r, outV'[f], k, d, fmap[f], answers, outP', s)
    BY <2>6, <2>7, Zenon
  <2>9. InStep(f, w, r, outV'[f], k, d, fmap[f], answers, outP', s2)
    BY <2>4, <2>5, <2>8, InStepKept
  <2>10. vf'[f] = w /\ req'[f] = r /\ fmap' = fmap /\ pool' = pool /\ answers' = answers
    BY Zenon DEF Moves
  <2> QED
    BY <2>2, <2>3, <2>7, <2>9, <2>10, Zenon DEF Agreed, AgreedNext, Known
<1> QED
  BY <1>1, <1>2, AgreementOf

-----------------------------------------------------------------------------
(* The numbers of queues. *)

Marks(q, t) == q.t = t \/ (t = "cmpt" /\ q.st)
Kept(S, t) == {q \in S : Marks(q, t)}

LEMMA NumIs ==
  ASSUME NEW S, IsFiniteSet(S), NEW t
  PROVE  Num(S, t) = Cardinality(Kept(S, t)) /\ IsFiniteSet(Kept(S, t)) /\ Num(S, t) \in Nat
<1>1. Num(S, t) = Cardinality(Kept(S, t))
  BY DEF Num, Kept, Marks
<1>2. Kept(S, t) \subseteq S
  BY DEF Kept
<1>3. IsFiniteSet(Kept(S, t))
  BY <1>2, FS_Subset
<1> QED
  BY <1>1, <1>3, FS_CardinalityType

LEMMA NumNone ==
  ASSUME NEW t
  PROVE  Num({}, t) = 0
<1>1. {q \in {} : q.t = t \/ (t = "cmpt" /\ q.st)} = {}
  OBVIOUS
<1> QED
  BY <1>1, FS_EmptySet DEF Num

LEMMA NumLess ==
  ASSUME NEW S, IsFiniteSet(S), NEW q \in S, NEW t
  PROVE  /\ IsFiniteSet(S \ {q})
         /\ Marks(q, t) => Num(S, t) = Num(S \ {q}, t) + 1 /\ Num(S, t) > 0
         /\ ~Marks(q, t) => Num(S, t) = Num(S \ {q}, t)
<1>1. IsFiniteSet(S \ {q})
  BY FS_RemoveElement
<1>2. /\ Num(S, t) = Cardinality(Kept(S, t)) /\ IsFiniteSet(Kept(S, t))
      /\ Num(S \ {q}, t) = Cardinality(Kept(S \ {q}, t)) /\ Num(S \ {q}, t) \in Nat
  BY <1>1, NumIs
<1>3. CASE Marks(q, t)
  <2>1. q \in Kept(S, t) /\ Kept(S \ {q}, t) = Kept(S, t) \ {q}
    BY <1>3 DEF Kept
  <2>2. Cardinality(Kept(S, t) \ {q}) = Cardinality(Kept(S, t)) - 1
    BY <1>2, <2>1, FS_RemoveElement
  <2>3. Cardinality(Kept(S, t)) \in Nat
    BY <1>2, FS_CardinalityType
  <2>4. PICK a, b : a = Num(S, t) /\ b = Num(S \ {q}, t)
    OBVIOUS
  <2>5. a \in Nat /\ b \in Nat /\ b = a - 1
    BY <1>2, <2>1, <2>2, <2>3, <2>4, Zenon
  <2>6. a = b + 1 /\ a > 0
    BY <2>5
  <2> QED
    BY <1>1, <1>3, <2>4, <2>6, Zenon
<1>4. CASE ~Marks(q, t)
  <2>1. Kept(S \ {q}, t) = Kept(S, t)
    BY <1>4 DEF Kept
  <2> QED
    BY <1>1, <1>2, <1>4, <2>1
<1> QED
  BY <1>3, <1>4

LEMMA MarksIs ==
  ASSUME NEW q \in Queue
  PROVE  /\ Marks(q, q.t) /\ ~(q.t = "cmpt") /\ q.t \in QType
         /\ Marks(q, "cmpt") <=> q.st
         /\ \A t \in QType : t # q.t /\ t # "cmpt" => ~Marks(q, t)
BY QueueIs DEF Marks

(* As many queues as fit: each has its number, below qmax. *)
LEMMA NumBound ==
  ASSUME NEW S, S \subseteq Queue, IsFiniteSet(S), NEW n \in Nat, \A q \in S : q.i < n,
         \A p, q \in S : p.i = q.i => p.st = q.st, NEW t \in QType
  PROVE  Num(S, t) <= n
<1>1. Num(S, t) = Cardinality(Kept(S, t)) /\ IsFiniteSet(Kept(S, t)) /\ Num(S, t) \in Nat
  BY NumIs
<1>2. IsFiniteSet(0..(n - 1)) /\ Cardinality(0..(n - 1)) = n
  <2>1. 0 \in Int /\ n - 1 \in Int
    OBVIOUS
  <2>2. /\ IsFiniteSet(0..(n - 1))
        /\ Cardinality(0..(n - 1)) = IF 0 > n - 1 THEN 0 ELSE n - 1 - 0 + 1
    BY <2>1, FS_Interval
  <2> QED
    BY <2>2
<1> DEFINE h == [q \in Kept(S, t) |-> q.i]
<1>3. h \in Injection(Kept(S, t), 0..(n - 1))
  <2>1. \A q \in Kept(S, t) : q \in S /\ Marks(q, t) /\ q \in Queue
    BY DEF Kept
  <2>2. \A q \in Kept(S, t) : q.i \in 0..(n - 1)
    BY <2>1, QueueIs
  <2>3. ASSUME NEW p \in Kept(S, t), NEW q \in Kept(S, t), p.i = q.i
        PROVE  p = q
    <3>1. p.st = q.st
      BY <2>1, <2>3, Zenon
    <3>2. p.t = q.t
      <4>1. (p.st => p.t = "c2h") /\ (q.st => q.t = "c2h") /\ p.t # "cmpt" /\ q.t # "cmpt"
        BY <2>1, QueueIs
      <4>2. Marks(p, t) /\ Marks(q, t)
        BY <2>1, <2>3
      <4> QED
        BY <3>1, <4>1, <4>2, Zenon DEF Marks
    <3>3. p \in [t : {"h2c", "c2h"}, st : BOOLEAN, i : Nat] /\ q \in [t : {"h2c", "c2h"}, st : BOOLEAN, i : Nat]
      BY <2>1, <2>3 DEF Queue
    <3> QED
      BY <2>3, <3>1, <3>2, <3>3
  <2> QED
    BY <2>2, <2>3 DEF Injection, IsInjective
<1>4. Cardinality(Kept(S, t)) <= Cardinality(0..(n - 1))
  BY <1>1, <1>2, <1>3, FS_Injection
<1> QED
  BY <1>1, <1>2, <1>4

(* The counts that the PF has, after each message of a plan. *)

LEMMA CountsAny ==
  ASSUME NEW c, NEW S, IsFiniteSet(S), NEW u, NEW w, Counts(c, S, u, 0)
  PROVE  Counts(c, S, w, 0) /\ \A t \in QType : c[t] = Num(S, t)
<1>1. ASSUME NEW t \in QType
      PROVE  c[t] = Num(S, t) /\ c[t] = Num(S, t) + (IF t = w THEN 0 ELSE 0)
  <2>1. Num(S, t) \in Nat
    BY NumIs
  <2>2. c[t] = Num(S, t) + (IF t = u THEN 0 ELSE 0)
    BY Zenon DEF Counts
  <2> QED
    BY <2>1, <2>2
<1> QED
  BY <1>1, Zenon DEF Counts

LEMMA AddedCounts ==
  ASSUME NEW S, S \subseteq Queue, IsFiniteSet(S), NEW q \in S, NEW c \in [QType -> Nat],
         Counts(c, S \ {q}, q.t, 0), NEW c2, c2 = [c EXCEPT ![q.t] = @ + 1]
  PROVE  /\ Counts(c2, S \ {q}, q.t, 1)
         /\ ~q.st => Counts(c2, S, "h2c", 0)
<1>1. q \in Queue
  OBVIOUS
<1>2. /\ Marks(q, q.t) /\ q.t # "cmpt" /\ q.t \in QType
      /\ \A t \in QType : t # q.t /\ t # "cmpt" => ~Marks(q, t)
      /\ Marks(q, "cmpt") <=> q.st
  BY <1>1, MarksIs
<1>3. PICK u : u = q.t
  OBVIOUS
<1>4. c2[u] = c[u] + 1 /\ \A t \in QType : t # u => c2[t] = c[t]
  BY <1>2, <1>3
<1>5. ASSUME NEW t \in QType
      PROVE  /\ c2[t] = Num(S \ {q}, t) + (IF t = u THEN 1 ELSE 0)
             /\ ~q.st => c2[t] = Num(S, t) + (IF t = "h2c" THEN 0 ELSE 0)
  <2>1. IsFiniteSet(S \ {q})
    BY FS_RemoveElement
  <2>2. c[t] = Num(S \ {q}, t) /\ Num(S \ {q}, t) \in Nat
    BY <2>1, CountsAny, NumIs
  <2>3. PICK a, b : a = Num(S, t) /\ b = Num(S \ {q}, t)
    OBVIOUS
  <2>4. (Marks(q, t) => a = b + 1) /\ (~Marks(q, t) => a = b)
    BY <2>3, NumLess, ZenonT(40)
  <2>5. CASE t = u
    <3>1. c2[t] = b + 1 /\ a = b + 1
      BY <1>2, <1>3, <1>4, <2>2, <2>3, <2>4, <2>5, Zenon
    <3> QED
      BY <2>2, <2>3, <2>5, <3>1
  <2>6. CASE t # u
    <3>1. c2[t] = b /\ (~q.st => a = b)
      BY <1>2, <1>3, <1>4, <2>2, <2>3, <2>4, <2>6, Zenon
    <3> QED
      BY <2>2, <2>3, <2>6, <3>1
  <2> QED
    BY <2>5, <2>6
<1> QED
  BY <1>3, <1>5, Zenon DEF Counts

LEMMA AddedCmptCounts ==
  ASSUME NEW S, S \subseteq Queue, IsFiniteSet(S), NEW q \in S, q.st, NEW c \in [QType -> Nat],
         Counts(c, S \ {q}, q.t, 1), NEW c2, c2 = [c EXCEPT !["cmpt"] = @ + 1]
  PROVE  Counts(c2, S, "h2c", 0)
<1>1. q \in Queue
  OBVIOUS
<1>2. /\ Marks(q, q.t) /\ q.t # "cmpt" /\ q.t \in QType /\ Marks(q, "cmpt")
      /\ \A t \in QType : t # q.t /\ t # "cmpt" => ~Marks(q, t)
  BY <1>1, MarksIs
<1>3. PICK u, z : u = q.t /\ z = "cmpt"
  OBVIOUS
<1>4. z \in QType
  BY <1>3 DEF QType
<1>5. c2[z] = c[z] + 1 /\ \A t \in QType : t # z => c2[t] = c[t]
  BY <1>3, <1>4
<1>6. ASSUME NEW t \in QType
      PROVE  c2[t] = Num(S, t) + (IF t = "h2c" THEN 0 ELSE 0)
  <2>1. IsFiniteSet(S \ {q})
    BY FS_RemoveElement
  <2>2. PICK a, b : a = Num(S, t) /\ b = Num(S \ {q}, t)
    OBVIOUS
  <2>3. c[t] = b + (IF t = u THEN 1 ELSE 0)
    BY <1>3, <2>2, Zenon DEF Counts
  <2>4. a \in Nat /\ b \in Nat
    BY <2>1, <2>2, NumIs
  <2>5. (Marks(q, t) => a = b + 1) /\ (~Marks(q, t) => a = b)
    BY <2>2, NumLess, ZenonT(40)
  <2>6. a + (IF t = "h2c" THEN 0 ELSE 0) = a
    BY <2>4
  <2>7. CASE t = u
    <3>1. t # z /\ a = b + 1 /\ c[t] = b + 1
      BY <1>2, <1>3, <2>3, <2>5, <2>7, Zenon
    <3> QED
      BY <1>5, <2>2, <2>6, <3>1, Zenon
  <2>8. CASE t = z
    <3>1. c2[t] = c[t] + 1 /\ a = b + 1 /\ c[t] = b + 0
      BY <1>2, <1>3, <1>5, <2>3, <2>5, <2>8, Zenon
    <3>2. c2[t] = a
      BY <2>4, <3>1
    <3> QED
      BY <2>2, <2>6, <3>2, Zenon
  <2>9. CASE t # u /\ t # z
    <3>1. c2[t] = c[t] /\ a = b /\ c[t] = b + 0
      BY <1>2, <1>3, <1>5, <2>3, <2>5, <2>9, Zenon
    <3>2. c2[t] = a
      BY <2>4, <3>1
    <3> QED
      BY <2>2, <2>6, <3>2, Zenon
  <2> QED
    BY <2>7, <2>8, <2>9
<1> QED
  BY <1>6, Zenon DEF Counts

LEMMA RemovedCounts ==
  ASSUME NEW S, S \subseteq Queue, IsFiniteSet(S), NEW q \in S, NEW c \in [QType -> Nat],
         Counts(c, S, q.t, 0), NEW c2, c2 = [c EXCEPT ![q.t] = @ - 1]
  PROVE  /\ Counts(c2, S, q.t, -1) /\ c[q.t] > 0
         /\ ~q.st => Counts(c2, S \ {q}, "h2c", 0)
<1>1. q \in Queue
  OBVIOUS
<1>2. /\ Marks(q, q.t) /\ q.t # "cmpt" /\ q.t \in QType
      /\ \A t \in QType : t # q.t /\ t # "cmpt" => ~Marks(q, t)
      /\ Marks(q, "cmpt") <=> q.st
  BY <1>1, MarksIs
<1>3. PICK u : u = q.t
  OBVIOUS
<1>4. c2[u] = c[u] - 1 /\ \A t \in QType : t # u => c2[t] = c[t]
  BY <1>2, <1>3
<1>5. ASSUME NEW t \in QType
      PROVE  /\ c2[t] = Num(S, t) + (IF t = u THEN -1 ELSE 0)
             /\ ~q.st => c2[t] = Num(S \ {q}, t) + (IF t = "h2c" THEN 0 ELSE 0)
  <2>1. IsFiniteSet(S \ {q})
    BY FS_RemoveElement
  <2>2. PICK a, b : a = Num(S, t) /\ b = Num(S \ {q}, t)
    OBVIOUS
  <2>3. c[t] = a /\ a \in Nat /\ b \in Nat
    BY <2>1, <2>2, CountsAny, NumIs
  <2>4. (Marks(q, t) => a = b + 1) /\ (~Marks(q, t) => a = b)
    BY <2>2, NumLess, ZenonT(40)
  <2>5. CASE t = u
    <3>1. c2[t] = a - 1 /\ a = b + 1
      BY <1>2, <1>3, <1>4, <2>3, <2>4, <2>5, Zenon
    <3> QED
      BY <2>2, <2>3, <2>5, <3>1
  <2>6. CASE t # u
    <3>1. c2[t] = a /\ (~q.st => a = b)
      BY <1>2, <1>3, <1>4, <2>3, <2>4, <2>6, Zenon
    <3> QED
      BY <2>2, <2>3, <2>6, <3>1
  <2> QED
    BY <2>5, <2>6
<1>6. c[u] > 0
  <2>1. c[u] = Num(S, u)
    BY <1>2, <1>3, CountsAny
  <2>2. Num(S, u) > 0
    BY <1>2, <1>3, NumLess
  <2> QED
    BY <2>1, <2>2
<1> QED
  BY <1>3, <1>5, <1>6, Zenon DEF Counts

LEMMA RemovedCmptCounts ==
  ASSUME NEW S, S \subseteq Queue, IsFiniteSet(S), NEW q \in S, q.st, NEW c \in [QType -> Nat],
         Counts(c, S, q.t, -1), NEW c2, c2 = [c EXCEPT !["cmpt"] = @ - 1]
  PROVE  Counts(c2, S \ {q}, "h2c", 0) /\ c["cmpt"] > 0
<1>1. q \in Queue
  OBVIOUS
<1>2. /\ Marks(q, q.t) /\ q.t # "cmpt" /\ q.t \in QType /\ Marks(q, "cmpt")
      /\ \A t \in QType : t # q.t /\ t # "cmpt" => ~Marks(q, t)
  BY <1>1, MarksIs
<1>3. PICK u, z : u = q.t /\ z = "cmpt"
  OBVIOUS
<1>4. z \in QType
  BY <1>3 DEF QType
<1>5. c2[z] = c[z] - 1 /\ \A t \in QType : t # z => c2[t] = c[t]
  BY <1>3, <1>4
<1>6. ASSUME NEW t \in QType
      PROVE  c2[t] = Num(S \ {q}, t) + (IF t = "h2c" THEN 0 ELSE 0)
  <2>1. IsFiniteSet(S \ {q})
    BY FS_RemoveElement
  <2>2. PICK a, b : a = Num(S, t) /\ b = Num(S \ {q}, t)
    OBVIOUS
  <2>3. c[t] = a + (IF t = u THEN -1 ELSE 0)
    BY <1>3, <2>2, Zenon DEF Counts
  <2>4. a \in Nat /\ b \in Nat
    BY <2>1, <2>2, NumIs
  <2>5. (Marks(q, t) => a = b + 1) /\ (~Marks(q, t) => a = b)
    BY <2>2, NumLess, ZenonT(40)
  <2>6. b + (IF t = "h2c" THEN 0 ELSE 0) = b
    BY <2>4
  <2>7. CASE t = u
    <3>1. c2[t] = c[t] /\ a = b + 1 /\ c[t] = a + -1
      BY <1>2, <1>3, <1>5, <2>3, <2>5, <2>7, Zenon
    <3>2. c2[t] = b
      BY <2>4, <3>1
    <3> QED
      BY <2>2, <2>6, <3>2, Zenon
  <2>8. CASE t = z
    <3>1. c2[t] = c[t] - 1 /\ a = b + 1 /\ c[t] = a + 0
      BY <1>2, <1>3, <1>5, <2>3, <2>5, <2>8, Zenon
    <3>2. c2[t] = b
      BY <2>4, <3>1
    <3> QED
      BY <2>2, <2>6, <3>2, Zenon
  <2>9. CASE t # u /\ t # z
    <3>1. c2[t] = c[t] /\ a = b /\ c[t] = a + 0
      BY <1>2, <1>3, <1>5, <2>3, <2>5, <2>9, Zenon
    <3>2. c2[t] = b
      BY <2>4, <3>1
    <3> QED
      BY <2>2, <2>6, <3>2, Zenon
  <2> QED
    BY <2>7, <2>8, <2>9
<1>7. c[z] > 0
  <2>1. PICK a : a = Num(S, z)
    OBVIOUS
  <2>2. c[z] = a + (IF z = u THEN -1 ELSE 0) /\ z # u
    BY <1>2, <1>3, <1>4, <2>1, Zenon DEF Counts
  <2>3. a > 0 /\ a \in Nat
    BY <1>2, <1>3, <2>1, NumLess, NumIs
  <2> QED
    BY <2>2, <2>3
<1> QED
  BY <1>3, <1>6, <1>7, Zenon DEF Counts

-----------------------------------------------------------------------------
(* A caller that goes on, whose account agrees with the PF's. *)

Settled(v, d, m) ==
  /\ v.plan = <<>> /\ v.state \in {"on", "leaving"}
  /\ Base(v, d.entry, m) /\ Fits(v) /\ Counts(d.active, v.queues, "h2c", 0)
Renewed(v, d, m) ==
  /\ v.plan = <<>> /\ v.state = "on" /\ v.queues = {} /\ v.removing = {}
  /\ Counts(d.active, {}, "h2c", 0) /\ m = NoMap
  /\ \E a : v.granted = {a} /\ a.qmax = d.entry.total_q /\ a.qbase = d.entry.qbase
Between(v, d, m) == (v.plan # <<>> /\ Ahead(v, d, m)) \/ Settled(v, d, m) \/ Renewed(v, d, m)

LEMMA SettledGoes ==
  ASSUME NEW v \in Driver, NEW d, NEW m, Settled(v, d, m), NEW w, OnwardRight(v, w)
  PROVE  \/ w.plan # <<>> /\ (Ahead(w, d, m) \/ Leaves(w))
         \/ w.plan = <<>> /\ Base(w, d.entry, m) /\ Ends(w, d.active)
<1>1. /\ v.plan = <<>> /\ v.state \in {"on", "leaving"} /\ Base(v, d.entry, m) /\ Fits(v)
      /\ Counts(d.active, v.queues, "h2c", 0)
  BY Zenon DEF Settled
<1>2. IsFiniteSet(v.queues) /\ v.removing \subseteq v.queues /\ v.granted = {}
  BY <1>1, Zenon DEF Fits
<1>3. CASE v.removing # {}
  <2>1. PICK q \in v.removing :
          /\ RemovePlanRight(v, q, w.plan)
          /\ Has(w, v.state, v.qbase, v.qmax, v.init_qrange, v.queues, w.plan, v.removing \ {q}, v.granted)
    BY <1>1, <1>3, Zenon DEF OnwardRight
  <2>2. /\ w.state = v.state /\ w.qbase = v.qbase /\ w.qmax = v.qmax /\ w.init_qrange = v.init_qrange
        /\ w.queues = v.queues /\ w.removing = v.removing \ {q} /\ w.granted = v.granted
    BY <2>1, Zenon DEF Has
  <2>3. w.plan \in Seq(Step) /\ w.plan # <<>>
    BY <2>1, Zenon DEF RemovePlanRight
  <2>4. /\ Len(w.plan) = IF q.st THEN 2 ELSE 1
        /\ Tells(w.plan[1], "del", w, q.t, q, IF q.st THEN {} ELSE {q})
        /\ q.st => Tells(w.plan[2], "del", w, "cmpt", q, {q})
    BY <2>1, <2>2, Zenon DEF RemovePlanRight
  <2>5. w.removing \subseteq w.queues /\ q \notin w.removing /\ q \in w.queues
    BY <1>2, <2>2
  <2>6. Fits(w)
    BY <1>1, <1>2, <2>2, <2>5, Zenon DEF Fits
  <2>7. Works(w)
    BY <1>1, <2>2, <2>3, Zenon DEF Works
  <2>8. Counts(d.active, w.queues, q.t, 0)
    BY <1>1, <1>2, <2>2, CountsAny
  <2>9. Removing(w, d.active, q)
    BY <2>4, <2>5, <2>8, Zenon DEF Removing, ToDel
  <2>10. Base(w, d.entry, m)
    BY <1>1, <2>2, Zenon DEF Base
  <2>11. \E p \in w.queues : Adding(w, d.active, p) \/ Removing(w, d.active, p)
    BY <2>5, <2>9, Zenon
  <2>12. Stage(w, d.active)
    BY <2>6, <2>7, <2>11, Zenon DEF Stage
  <2> QED
    BY <2>3, <2>10, <2>12, Zenon DEF Ahead
<1>4. CASE v.removing = {} /\ v.state = "leaving"
  <2>1. Leaves(w)
    BY <1>1, <1>4, Zenon DEF OnwardRight
  <2>2. <<Message("bye")>> # <<>>
    BY MessageIs, OneOf DEF Ops
  <2>3. w.plan # <<>>
    BY <2>1, <2>2 DEF Leaves
  <2> QED
    BY <2>1, <2>3, Zenon
<1>5. CASE v.removing = {} /\ v.state # "leaving"
  <2>1. w = Refitted(v)
    BY <1>1, <1>5, Zenon DEF OnwardRight
  <2>2. w = v
    BY <1>2, <2>1, RefittedIs, Zenon
  <2>3. Ends(w, d.active)
    BY <1>1, <1>5, <2>2, Zenon DEF Ends, Rests
  <2> QED
    BY <1>1, <2>2, <2>3, Zenon
<1> QED
  BY <1>3, <1>4, <1>5, Zenon

LEMMA RenewedGoes ==
  ASSUME NEW v \in Driver, NEW d, NEW m, Renewed(v, d, m), NEW w, OnwardRight(v, w)
  PROVE  w.plan = <<>> /\ Base(w, d.entry, m) /\ Ends(w, d.active)
<1>1. /\ v.plan = <<>> /\ v.state = "on" /\ v.queues = {} /\ v.removing = {}
      /\ Counts(d.active, {}, "h2c", 0) /\ m = NoMap
  BY Zenon DEF Renewed
<1>2. PICK a : v.granted = {a} /\ a.qmax = d.entry.total_q /\ a.qbase = d.entry.qbase
  BY Zenon DEF Renewed
<1>3. "on" # "leaving" /\ {a} # {} /\ \A b \in {a} : b = a
  OBVIOUS
<1>4. w = Refitted(v)
  BY <1>1, <1>3, Zenon DEF OnwardRight
<1>5. Has(w, v.state, a.qbase, a.qmax, FALSE, {}, v.plan, v.removing, {})
  BY <1>2, <1>3, <1>4, RefittedIs, Zenon
<1>6. /\ w.state = "on" /\ w.qbase = a.qbase /\ w.qmax = a.qmax /\ w.init_qrange = FALSE
      /\ w.queues = {} /\ w.plan = <<>> /\ w.removing = {} /\ w.granted = {}
  BY <1>1, <1>5, Zenon DEF Has
<1>7. Base(w, d.entry, m)
  BY <1>1, <1>2, <1>6, Zenon DEF Base
<1>8. Fits(w)
  <2>1. IsFiniteSet({}) /\ {} \subseteq {}
    BY FS_EmptySet
  <2>2. \A q : q \notin w.queues
    BY <1>6
  <2> QED
    BY <1>6, <2>1, <2>2, Zenon DEF Fits
<1>9. Ends(w, d.active)
  BY <1>1, <1>6, <1>8, Zenon DEF Ends, Rests
<1> QED
  BY <1>6, <1>7, <1>9, Zenon

LEMMA OnwardInStep ==
  ASSUME NEW f, NEW v \in Driver, NEW d, NEW m, Between(v, d, m), NEW w, w = Onward(v), NEW r, r = Next1(f, w),
         NEW o, o = Empty, NEW k, k, NEW ans, NEW out, NoMail(ans, out, f), NEW s
  PROVE  InStep(f, w, r, o, k, d, m, ans, out, s)
<1>1. OnwardRight(v, w)
  BY OnwardIs
<1>2. \/ w.plan # <<>> /\ (Ahead(w, d, m) \/ Leaves(w))
      \/ w.plan = <<>> /\ Base(w, d.entry, m) /\ Ends(w, d.active)
  <2>1. CASE v.plan # <<>> /\ Ahead(v, d, m)
    <3>1. w = v
      BY <1>1, <2>1, Zenon DEF OnwardRight
    <3> QED
      BY <2>1, <3>1, Zenon
  <2>2. CASE Settled(v, d, m)
    BY <1>1, <2>2, SettledGoes, Zenon
  <2>3. CASE Renewed(v, d, m)
    BY <1>1, <2>3, RenewedGoes, Zenon
  <2> QED
    BY <2>1, <2>2, <2>3, Zenon DEF Between
<1>3. CASE w.plan # <<>> /\ (Ahead(w, d, m) \/ Leaves(w))
  <2>1. r.place = "todo"
    BY <1>3, NextIs, Zenon
  <2> QED
    BY <1>3, <2>1, Zenon DEF InStep, Ready
<1>4. CASE w.plan = <<>> /\ Base(w, d.entry, m) /\ Ends(w, d.active)
  <2>1. r.place = "none"
    BY <1>4, NextIs, Zenon
  <2> QED
    BY <1>4, <2>1, Zenon DEF InStep, Calm
<1> QED
  BY <1>2, <1>3, <1>4, Zenon

-----------------------------------------------------------------------------
(* The calls of a function. *)

Dev(f) == DeviceOf(pool.dev, f)

LEMMA InStepOf ==
  ASSUME Agreement, NEW f \in VF, f \notin Strays
  PROVE  /\ InStep(f, vf[f], req[f], outV[f], Known(f), Dev(f), fmap[f], answers, outP, late # {})
         /\ Within(Known(f), Dev(f).entry, fmap[f])
<1>1. f \in VF \ Strays
  OBVIOUS
<1> QED
  BY <1>1, Zenon DEF Agreement, Agreed, Dev

LEMMA PlacesDiffer ==
  /\ "none" # "todo" /\ "none" # "pend" /\ "none" # "matched"
  /\ "todo" # "pend" /\ "todo" # "matched" /\ "pend" # "matched"
OBVIOUS

LEMMA RestAgreed ==
  ASSUME Agreement, NEW f \in VF, f \notin Strays, req[f].place = "none"
  PROVE  NoMail(answers, outP, f) /\ Calm(vf[f], outV[f], Known(f), Dev(f), fmap[f])
BY InStepOf, PlacesDiffer, Zenon DEF InStep

LEMMA IdleAgreed ==
  ASSUME Types, Agreement, NEW f \in VF, f \notin Strays, Idle(f)
  PROVE  /\ outV[f] = Empty /\ Known(f) /\ Base(vf[f], Dev(f).entry, fmap[f]) /\ Ends(vf[f], Dev(f).active)
         /\ NoMail(answers, outP, f)
<1>1. req[f].place = "none" /\ vf[f].state = "on"
  BY IdleIs, Zenon DEF Rests
<1>2. NoMail(answers, outP, f) /\ Calm(vf[f], outV[f], Known(f), Dev(f), fmap[f])
  BY <1>1, RestAgreed
<1>3. vf[f] # Off /\ ~Leaves(vf[f])
  <2>1. Off.state = "off" /\ "off" # "on" /\ "leaving" # "on"
    BY OffIs, Zenon DEF Has
  <2> QED
    BY <1>1, <2>1, Zenon DEF Leaves
<1> QED
  BY <1>2, <1>3, Zenon DEF Calm

(* A caller goes on, and what it keeps agrees with the PF's account. *)
LEMMA ProceedAgreed ==
  ASSUME Types, Agreement, NEW f \in VF, NEW v \in Driver, Proceed(f, v),
         UNCHANGED <<pool, fmap, outV, answers, outP>>, late \subseteq late' /\ hasty \subseteq hasty',
         f \in Strays' \/ (outV[f] = Empty /\ Known(f) /\ NoMail(answers, outP, f) /\ Between(v, Dev(f), fmap[f]))
  PROVE  Agreement'
<1>1. PICK w : w = Onward(v)
  OBVIOUS
<1>2. PICK r : r = Next1(f, w)
  OBVIOUS
<1>3. Moves(f, w, r)
  BY <1>1, <1>2, ProceedIs, Zenon DEF Types
<1>4. UNCHANGED <<pool, fmap, answers>> /\ outP' = outP /\ outV' = outV
  BY Zenon
<1>5. PICK o, k, d, m, s : o = outV[f] /\ k = Known(f) /\ d = Dev(f) /\ m = fmap[f] /\ s = (late # {})
  OBVIOUS
<1>6. f \in Strays' \/ InStep(f, w, r, o, k, d, m, answers, outP, s)
  <2> SUFFICES ASSUME f \notin Strays'
               PROVE  InStep(f, w, r, o, k, d, m, answers, outP, s)
    OBVIOUS
  <2>1. o = Empty /\ k /\ NoMail(answers, outP, f) /\ Between(v, d, m)
    BY <1>5, Zenon
  <2> QED
    BY <1>1, <1>2, <2>1, OnwardInStep
<1>7. f \in Strays' \/ InStep(f, w, r, outV'[f], Known(f), DeviceOf(pool.dev, f), fmap[f], answers, outP', late # {})
  BY <1>4, <1>5, <1>6, Zenon DEF Dev
<1>8. \A g \in VF : g # f => outV'[g] = outV[g]
  BY <1>4, Zenon
<1> QED
  BY <1>3, <1>4, <1>7, <1>8, AgreementMoved

LEMMA LoadAgreed ==
  ASSUME Types, Agreement, NEW f \in VF, Load(f)
  PROVE  Agreement'
<1>1. PICK v : v = [Off EXCEPT !.state = "starting", !.plan = <<Message("hello")>>]
  OBVIOUS
<1>2. v \in Driver /\ Begun(v) /\ v.plan # <<>>
  BY <1>1, Opening
<1>3. /\ Proceed(f, v) /\ vf[f].state = "off" /\ UNCHANGED <<pool, fmap, answers>> /\ outV' = outV /\ late' = late /\ hasty' = hasty
      /\ outP' = IF outP # Empty /\ outP.to = f THEN Empty ELSE outP
  BY <1>1, Zenon DEF Load
<1>4. PICK w : w = Onward(v)
  OBVIOUS
<1>5. PICK r : r = Next1(f, w)
  OBVIOUS
<1>6. Moves(f, w, r)
  BY <1>3, <1>4, <1>5, ProceedIs, Zenon DEF Types
<1>7. OnwardRight(v, w)
  BY <1>2, <1>4, OnwardIs
<1>8. w = v /\ r.place = "todo"
  BY <1>2, <1>5, <1>7, NextIs, Zenon DEF OnwardRight
<1>9. outP' = outP \/ (outP' = Empty /\ OutTo(outP, f))
  BY <1>3, Zenon DEF OutTo
<1>10. f \in Strays' \/ InStep(f, w, r, outV'[f], Known(f), DeviceOf(pool.dev, f), fmap[f], answers, outP', late # {})
  <2> SUFFICES ASSUME f \notin Strays
               PROVE  InStep(f, w, r, outV'[f], Known(f), DeviceOf(pool.dev, f), fmap[f], answers, outP', late # {})
    BY <1>3, Zenon DEF Strays
  <2>1. req[f].place = "none"
    <3>1. ~Starting(vf[f]) /\ ~Leaves(vf[f]) /\ ~Works(vf[f])
      <4>1. "off" # "starting" /\ "off" # "leaving" /\ "off" # "on" /\ "off" \notin {"on", "leaving"}
        OBVIOUS
      <4> QED
        BY <1>3, <4>1, Zenon DEF Starting, Leaves, Works
    <3>2. req[f] = Nothing
      BY <3>1, CallerIs, Zenon DEF CallerRight
    <3> QED
      BY <3>2 DEF Nothing
  <2>2. NoMail(answers, outP, f) /\ Calm(vf[f], outV[f], Known(f), Dev(f), fmap[f])
    BY <2>1, RestAgreed
  <2>3. outP' = outP
    BY <1>9, <2>2, Zenon DEF NoMail
  <2>4. Left(Known(f), outV[f])
    <3>1. ~Rests(vf[f])
      <4>1. "off" # "on"
        OBVIOUS
      <4> QED
        BY <1>3, <4>1, Zenon DEF Rests
    <3> QED
      BY <2>2, <3>1, Zenon DEF Calm, Ends
  <2>5. Ready(w, outV[f], Known(f), Dev(f), fmap[f])
    BY <1>2, <1>8, <2>4, Zenon DEF Ready
  <2> QED
    BY <1>3, <1>8, <2>2, <2>3, <2>5, Zenon DEF InStep, Dev
<1>11. late \subseteq late' /\ hasty \subseteq hasty'
  BY <1>3
<1>12. \A g \in VF : g # f => outV'[g] = outV[g]
  BY <1>3, Zenon
<1> QED
  BY <1>3, <1>6, <1>9, <1>10, <1>11, <1>12, AgreementMoved

LEMMA SetQmaxAgreed ==
  ASSUME Types, Agreement, NEW f \in VF, NEW n \in QMaxs, SetQmax(f, n)
  PROVE  Agreement'
<1>1. PICK u : u = vf[f]
  OBVIOUS
<1>2. PICK v : v = [u EXCEPT !.plan = <<[Message("qreq") EXCEPT !.n = n]>>]
  OBVIOUS
<1>3. Idle(f) /\ Proceed(f, v) /\ UNCHANGED <<pool, fmap, outV, answers, outP>> /\ late' = late /\ hasty' = hasty
  BY <1>1, <1>2, Zenon DEF SetQmax
<1>4. u \in Driver
  BY <1>1, <1>3, IdleIs, Zenon
<1>5. n \in Nat
  BY MailboxAssumption
<1>6. /\ v \in Driver /\ v.plan \in Seq(Step) /\ v.plan # <<>>
      /\ Has(v, u.state, u.qbase, u.qmax, u.init_qrange, u.queues, v.plan, u.removing, u.granted)
      /\ Len(v.plan) = 1 /\ v.plan[1].op = "qreq" /\ v.plan[1].gone = {} /\ v.plan[1].undone = {}
      /\ v.plan[1].otherwise = <<>>
  BY <1>2, <1>4, <1>5, AskingOf
<1>7. /\ v.state = u.state /\ v.qbase = u.qbase /\ v.qmax = u.qmax /\ v.init_qrange = u.init_qrange
      /\ v.queues = u.queues /\ v.removing = u.removing /\ v.granted = u.granted
  BY <1>6, Zenon DEF Has
<1>8. ASSUME f \notin Strays
      PROVE  outV[f] = Empty /\ Known(f) /\ NoMail(answers, outP, f) /\ Between(v, Dev(f), fmap[f])
  <2>1. /\ outV[f] = Empty /\ Known(f) /\ Base(u, Dev(f).entry, fmap[f]) /\ Ends(u, Dev(f).active)
        /\ NoMail(answers, outP, f)
    BY <1>1, <1>3, <1>8, IdleAgreed, Zenon
  <2>2. Base(v, Dev(f).entry, fmap[f])
    BY <1>7, <2>1, Zenon DEF Base
  <2>3. u.state = "on" /\ u.removing = {} /\ Fits(u) /\ Counts(Dev(f).active, u.queues, "h2c", 0)
    BY <2>1, Zenon DEF Ends, Rests
  <2>4. Fits(v)
    BY <1>7, <2>3, Zenon DEF Fits
  <2>5. Works(v)
    <3>1. "on" \in {"on", "leaving"}
      OBVIOUS
    <3> QED
      BY <1>6, <1>7, <2>3, <3>1, Zenon DEF Works
  <2>6. Asking(v, Dev(f).active)
    BY <1>6, <1>7, <2>3, Zenon DEF Asking
  <2> QED
    BY <1>6, <2>1, <2>2, <2>4, <2>5, <2>6, Zenon DEF Between, Ahead, Stage
<1>9. late \subseteq late' /\ hasty \subseteq hasty' /\ (f \in Strays' \/ f \notin Strays)
  BY <1>3 DEF Strays
<1> QED
  BY <1>3, <1>6, <1>8, <1>9, ProceedAgreed

LEMMA AddQueueAgreed ==
  ASSUME Types, Agreement, NEW f \in VF, NEW x \in Kinds, NEW i \in 0..(TotalQ - 1), AddQueue(f, x, i)
  PROVE  Agreement'
<1>1. PICK u, q : u = vf[f] /\ q = NewQueue(x, i)
  OBVIOUS
<1>2. PICK v : v = [u EXCEPT !.queues = @ \cup {q}, !.plan = AddPlan(u, q)]
  OBVIOUS
<1>3. /\ Idle(f) /\ Proceed(f, v) /\ UNCHANGED <<pool, fmap, outV, answers, outP>> /\ late' = late /\ hasty' = hasty
      /\ i < u.qmax /\ q \notin u.queues /\ \A p \in u.queues : p.i = i => p.st = q.st
  BY <1>1, <1>2, Zenon DEF AddQueue, NewQueue
<1>4. u \in Driver
  BY <1>1, <1>3, IdleIs, Zenon
<1>5. q \in Queue /\ q.i = i
  BY <1>1, NewQueueIs
<1>6. /\ v \in Driver /\ AddPlanRight(u, q, v.plan)
      /\ Has(v, u.state, u.qbase, u.qmax, u.init_qrange, u.queues \cup {q}, v.plan, u.removing, u.granted)
  <2>1. v = WithQueue(u, q)
    BY <1>2, Zenon DEF WithQueue
  <2> QED
    BY <1>4, <1>5, <2>1, AddingOf
<1>7. /\ v.state = u.state /\ v.qbase = u.qbase /\ v.qmax = u.qmax /\ v.init_qrange = u.init_qrange
      /\ v.queues = u.queues \cup {q} /\ v.removing = u.removing /\ v.granted = u.granted
  BY <1>6, Zenon DEF Has
<1>8. ASSUME f \notin Strays
      PROVE  outV[f] = Empty /\ Known(f) /\ NoMail(answers, outP, f) /\ Between(v, Dev(f), fmap[f])
  <2>1. /\ outV[f] = Empty /\ Known(f) /\ Base(u, Dev(f).entry, fmap[f]) /\ Ends(u, Dev(f).active)
        /\ NoMail(answers, outP, f)
    BY <1>1, <1>3, <1>8, IdleAgreed, Zenon
  <2>2. Base(v, Dev(f).entry, fmap[f])
    BY <1>7, <2>1, Zenon DEF Base
  <2>3. u.state = "on" /\ u.removing = {} /\ Fits(u) /\ Counts(Dev(f).active, u.queues, "h2c", 0)
    BY <2>1, Zenon DEF Ends, Rests
  <2>4. Fits(v)
    <3>1. /\ IsFiniteSet(u.queues) /\ u.granted = {}
          /\ \A p \in u.queues : p.i < u.qmax
          /\ \A p1, p2 \in u.queues : p1.i = p2.i => p1.st = p2.st
      BY <2>3, Zenon DEF Fits
    <3>2. IsFiniteSet(v.queues)
      BY <1>7, <3>1, FS_AddElement
    <3>3. \A p \in v.queues : p \in u.queues \/ p = q
      BY <1>7
    <3>4. \A p \in v.queues : p.i < v.qmax
      BY <1>3, <1>5, <1>7, <3>1, <3>3, Zenon
    <3>5. \A p1, p2 \in v.queues : p1.i = p2.i => p1.st = p2.st
      BY <1>3, <1>5, <3>1, <3>3, Zenon
    <3>6. v.removing \subseteq v.queues
      BY <1>7, <2>3
    <3> QED
      BY <1>7, <3>1, <3>2, <3>4, <3>5, <3>6, Zenon DEF Fits
  <2>5. v.plan \in Seq(Step) /\ v.plan # <<>>
    BY <1>6, Zenon DEF AddPlanRight
  <2>6. Works(v)
    <3>1. "on" \in {"on", "leaving"}
      OBVIOUS
    <3> QED
      BY <1>7, <2>3, <2>5, <3>1, Zenon DEF Works
  <2>7. q \in v.queues /\ v.queues \ {q} = u.queues
    BY <1>3, <1>7
  <2>8. Counts(Dev(f).active, v.queues \ {q}, q.t, 0)
    <3>1. IsFiniteSet(u.queues)
      BY <2>3, Zenon DEF Fits
    <3>2. Counts(Dev(f).active, u.queues, q.t, 0)
      BY <2>3, <3>1, CountsAny
    <3> QED
      BY <2>7, <3>2, Zenon
  <2>9. Adding(v, Dev(f).active, q)
    <3>1. IF u.init_qrange THEN Adds(v, q, 0) ELSE v.plan[1].op = "fmap" /\ v.plan[1].gone = {} /\ Adds(v, q, 1)
      BY <1>6, <1>7, Zenon DEF AddPlanRight
    <3>2. CASE v.init_qrange
      BY <1>7, <2>3, <2>8, <3>1, <3>2, Zenon DEF Adding, ToAdd
    <3>3. CASE ~v.init_qrange
      BY <1>7, <2>3, <2>8, <3>1, <3>3, Zenon DEF Adding, ToMap
    <3> QED
      BY <3>2, <3>3, Zenon
  <2>10. Stage(v, Dev(f).active)
    BY <2>4, <2>6, <2>7, <2>9, Zenon DEF Stage
  <2> QED
    BY <2>1, <2>2, <2>5, <2>10, Zenon DEF Between, Ahead
<1>9. late \subseteq late' /\ hasty \subseteq hasty' /\ (f \in Strays' \/ f \notin Strays)
  BY <1>3 DEF Strays
<1> QED
  BY <1>3, <1>6, <1>8, <1>9, ProceedAgreed

LEMMA RemoveQueueAgreed ==
  ASSUME Types, Agreement, NEW f \in VF, NEW q \in vf[f].queues, RemoveQueue(f, q)
  PROVE  Agreement'
<1>1. PICK u : u = vf[f]
  OBVIOUS
<1>2. PICK v : v = [u EXCEPT !.removing = {q}]
  OBVIOUS
<1>3. Idle(f) /\ Proceed(f, v) /\ UNCHANGED <<pool, fmap, outV, answers, outP>> /\ late' = late /\ hasty' = hasty
  BY <1>1, <1>2, Zenon DEF RemoveQueue
<1>4. u \in Driver /\ q \in u.queues
  BY <1>1, <1>3, IdleIs, Zenon
<1>5. /\ v \in Driver
      /\ Has(v, u.state, u.qbase, u.qmax, u.init_qrange, u.queues, u.plan, {q}, u.granted)
  BY <1>2, <1>4, RemovingOf
<1>6. /\ v.state = u.state /\ v.qbase = u.qbase /\ v.qmax = u.qmax /\ v.init_qrange = u.init_qrange
      /\ v.queues = u.queues /\ v.plan = u.plan /\ v.removing = {q} /\ v.granted = u.granted
  BY <1>5, Zenon DEF Has
<1>7. ASSUME f \notin Strays
      PROVE  outV[f] = Empty /\ Known(f) /\ NoMail(answers, outP, f) /\ Between(v, Dev(f), fmap[f])
  <2>1. /\ outV[f] = Empty /\ Known(f) /\ Base(u, Dev(f).entry, fmap[f]) /\ Ends(u, Dev(f).active)
        /\ NoMail(answers, outP, f)
    BY <1>1, <1>3, <1>7, IdleAgreed, Zenon
  <2>2. Base(v, Dev(f).entry, fmap[f])
    BY <1>6, <2>1, Zenon DEF Base
  <2>3. u.state = "on" /\ u.plan = <<>> /\ Fits(u) /\ Counts(Dev(f).active, u.queues, "h2c", 0)
    BY <2>1, Zenon DEF Ends, Rests
  <2>4. Fits(v)
    <3>1. v.removing \subseteq v.queues
      BY <1>4, <1>6
    <3> QED
      BY <1>6, <2>3, <3>1, Zenon DEF Fits
  <2>5. "on" \in {"on", "leaving"}
    OBVIOUS
  <2> QED
    BY <1>6, <2>1, <2>2, <2>3, <2>4, <2>5, Zenon DEF Between, Settled
<1>8. late \subseteq late' /\ hasty \subseteq hasty' /\ (f \in Strays' \/ f \notin Strays)
  BY <1>3 DEF Strays
<1> QED
  BY <1>3, <1>5, <1>7, <1>8, ProceedAgreed

LEMMA UnloadAgreed ==
  ASSUME Types, Agreement, NEW f \in VF, Unload(f)
  PROVE  Agreement'
<1>1. PICK u : u = vf[f]
  OBVIOUS
<1>2. PICK v : v = [u EXCEPT !.state = "leaving", !.removing = u.queues]
  OBVIOUS
<1>3. Idle(f) /\ Proceed(f, v) /\ UNCHANGED <<pool, fmap, outV, answers, outP>> /\ late' = late /\ hasty' = hasty
  BY <1>1, <1>2, Zenon DEF Unload
<1>4. u \in Driver
  BY <1>1, <1>3, IdleIs, Zenon
<1>5. /\ v \in Driver
      /\ Has(v, "leaving", u.qbase, u.qmax, u.init_qrange, u.queues, u.plan, u.queues, u.granted)
  <2>1. v = Parting(u)
    BY <1>2, Zenon DEF Parting
  <2> QED
    BY <1>4, <2>1, LeavingOf
<1>6. /\ v.state = "leaving" /\ v.qbase = u.qbase /\ v.qmax = u.qmax /\ v.init_qrange = u.init_qrange
      /\ v.queues = u.queues /\ v.plan = u.plan /\ v.removing = u.queues /\ v.granted = u.granted
  BY <1>5, Zenon DEF Has
<1>7. ASSUME f \notin Strays
      PROVE  outV[f] = Empty /\ Known(f) /\ NoMail(answers, outP, f) /\ Between(v, Dev(f), fmap[f])
  <2>1. /\ outV[f] = Empty /\ Known(f) /\ Base(u, Dev(f).entry, fmap[f]) /\ Ends(u, Dev(f).active)
        /\ NoMail(answers, outP, f)
    BY <1>1, <1>3, <1>7, IdleAgreed, Zenon
  <2>2. Base(v, Dev(f).entry, fmap[f])
    BY <1>6, <2>1, Zenon DEF Base
  <2>3. u.plan = <<>> /\ Fits(u) /\ Counts(Dev(f).active, u.queues, "h2c", 0)
    BY <2>1, Zenon DEF Ends, Rests
  <2>4. Fits(v)
    <3>1. v.removing \subseteq v.queues
      BY <1>6
    <3> QED
      BY <1>6, <2>3, <3>1, Zenon DEF Fits
  <2>5. "leaving" \in {"on", "leaving"}
    OBVIOUS
  <2> QED
    BY <1>6, <2>1, <2>2, <2>3, <2>4, <2>5, Zenon DEF Between, Settled
<1>8. late \subseteq late' /\ hasty \subseteq hasty' /\ (f \in Strays' \/ f \notin Strays)
  BY <1>3 DEF Strays
<1> QED
  BY <1>3, <1>5, <1>7, <1>8, ProceedAgreed

-----------------------------------------------------------------------------
(* What follows an answer. *)

LEMMA StagesDiffer ==
  ASSUME NEW v, NEW c, Stage(v, c)
  PROVE  /\ v.plan[1].op = "qreq" => Asking(v, c)
         /\ v.plan[1].op = "fmap" => \E q \in v.queues : v.removing = {} /\ ToMap(v, c, q)
         /\ v.plan[1].op = "add" => \E q \in v.queues : v.removing = {} /\ (ToAdd(v, c, q) \/ ToAddCmpt(v, c, q))
         /\ v.plan[1].op = "del" => \E q \in v.queues : q \notin v.removing /\ (ToDel(v, c, q) \/ ToDelCmpt(v, c, q))
<1>1. /\ "qreq" # "fmap" /\ "qreq" # "add" /\ "qreq" # "del"
      /\ "fmap" # "add" /\ "fmap" # "del" /\ "add" # "del"
  OBVIOUS
<1>2. Asking(v, c) => v.plan[1].op = "qreq"
  BY Zenon DEF Asking
<1>3. \A q : ToMap(v, c, q) => v.plan[1].op = "fmap"
  BY Zenon DEF ToMap
<1>4. \A q : ToAdd(v, c, q) \/ ToAddCmpt(v, c, q) => v.plan[1].op = "add"
  <2>1. 0 + 1 = 1
    OBVIOUS
  <2> QED
    BY <2>1, Zenon DEF ToAdd, ToAddCmpt, Adds, Tells
<1>5. \A q : ToDel(v, c, q) \/ ToDelCmpt(v, c, q) => v.plan[1].op = "del"
  BY Zenon DEF ToDel, ToDelCmpt, Tells
<1> QED
  BY <1>1, <1>2, <1>3, <1>4, <1>5, Zenon DEF Stage, Adding, Removing

(* The caller has its account right, and either one more message or none. *)
Follows(w, e, c, m) ==
  /\ w.state \in {"on", "leaving"} /\ Base(w, e, m) /\ Fits(w)
  /\ (w.plan # <<>> /\ Stage(w, c)) \/ (w.plan = <<>> /\ Counts(c, w.queues, "h2c", 0))

LEMMA FollowsIs ==
  ASSUME NEW w, NEW d, NEW m, Follows(w, d.entry, d.active, m)
  PROVE  Between(w, d, m)
BY Zenon DEF Follows, Between, Ahead, Settled

(* A message that counts a queue or no longer counts it has succeeded. *)
Carried(v, w) ==
  /\ w.state = v.state /\ w.qbase = v.qbase /\ w.qmax = v.qmax /\ w.init_qrange = v.init_qrange
  /\ w.plan = Tail(v.plan) /\ w.queues = v.queues \ v.plan[1].gone
  /\ w.removing = v.removing /\ w.granted = v.granted

LEMMA CarriedIs ==
  ASSUME NEW v, NEW a, NEW w, ReturnedRight(v, TRUE, a, w), v.plan[1].op \in {"add", "del"}
  PROVE  w \in Driver /\ Carried(v, w)
<1>1. v.plan[1].op # "hello" /\ v.plan[1].op # "fmap" /\ v.plan[1].op # "qreq"
  OBVIOUS
<1> QED
  BY <1>1, Zenon DEF ReturnedRight, Carried

LEMMA TailIs ==
  ASSUME NEW S, NEW p \in Seq(S), p # <<>>
  PROVE  /\ Tail(p) \in Seq(S)
         /\ Len(p) = 1 => Tail(p) = <<>>
         /\ Len(p) = 2 => Tail(p) # <<>> /\ Len(Tail(p)) = 1 /\ Tail(p)[1] = p[2]
         /\ Len(p) = 3 => Tail(p) # <<>> /\ Len(Tail(p)) = 2 /\ Tail(p)[1] = p[2] /\ Tail(p)[2] = p[3]
<1>1. PICK t, n : t = Tail(p) /\ n = Len(p)
  OBVIOUS
<1>2. n \in Nat /\ n > 0 /\ t \in Seq(S) /\ Len(t) = n - 1 /\ \A i \in 1..(n - 1) : t[i] = p[i + 1]
  BY <1>1, PlanHead
<1>3. \A s \in Seq(S) : s = <<>> <=> Len(s) = 0
  OBVIOUS
<1>4. n = 1 => t = <<>>
  <2>1. n = 1 => Len(t) = 0
    BY <1>2
  <2> QED
    BY <1>2, <1>3, <2>1, Zenon
<1>5. n = 2 => t # <<>> /\ Len(t) = 1 /\ t[1] = p[2]
  <2>1. n = 2 => Len(t) = 1 /\ Len(t) # 0 /\ 1 \in 1..(n - 1) /\ 1 + 1 = 2
    BY <1>2
  <2> QED
    BY <1>2, <1>3, <2>1, Zenon
<1>6. n = 3 => t # <<>> /\ Len(t) = 2 /\ t[1] = p[2] /\ t[2] = p[3]
  <2>1. n = 3 => Len(t) = 2 /\ Len(t) # 0 /\ 1 \in 1..(n - 1) /\ 2 \in 1..(n - 1) /\ 1 + 1 = 2 /\ 2 + 1 = 3
    BY <1>2
  <2> QED
    BY <1>2, <1>3, <2>1, Zenon
<1> QED
  BY <1>1, <1>2, <1>4, <1>5, <1>6, Zenon

LEMMA FitsLess ==
  ASSUME NEW v, Fits(v), NEW w, w.qmax = v.qmax, w.removing = v.removing, w.granted = v.granted, NEW G,
         w.queues = v.queues \ G, \A q \in G : q \notin v.removing
  PROVE  Fits(w)
<1>1. IsFiniteSet(v.queues) /\ v.removing \subseteq v.queues
  BY Zenon DEF Fits
<1>2. w.queues \subseteq v.queues
  OBVIOUS
<1>3. IsFiniteSet(w.queues)
  BY <1>1, <1>2, FS_Subset
<1>4. w.removing \subseteq w.queues
  BY <1>1
<1>5. /\ \A q \in w.queues : q.i < w.qmax
      /\ \A p, q \in w.queues : p.i = q.i => p.st = q.st
  BY <1>2, Zenon DEF Fits
<1> QED
  BY <1>3, <1>4, <1>5, Zenon DEF Fits

LEMMA BaseSame ==
  ASSUME NEW v, NEW e, NEW m, Base(v, e, m), NEW w, w.qbase = v.qbase, w.qmax = v.qmax, w.init_qrange = v.init_qrange
  PROVE  Base(w, e, m)
BY Zenon DEF Base

LEMMA AddToldIs ==
  ASSUME NEW v \in Driver, NEW e, NEW m, Base(v, e, m), Fits(v), Works(v), NEW q \in v.queues, v.removing = {},
         NEW c \in [QType -> Nat], ToAdd(v, c, q), NEW c2, c2 = [c EXCEPT ![v.plan[1].t] = @ + 1],
         NEW w, Carried(v, w)
  PROVE  Follows(w, e, c2, m)
<1>1. /\ v.init_qrange /\ Counts(c, v.queues \ {q}, q.t, 0)
      /\ Len(v.plan) = IF q.st THEN 2 ELSE 1
      /\ Tells(v.plan[1], "add", v, q.t, q, {})
      /\ q.st => Tells(v.plan[2], "add", v, "cmpt", q, {})
  BY DEF ToAdd, Adds
<1>2. v.plan[1].t = q.t /\ v.plan[1].gone = {}
  BY <1>1, Zenon DEF Tells
<1>3. v.plan \in Seq(Step) /\ v.plan # <<>> /\ v.state \in {"on", "leaving"}
  BY Zenon DEF Works
<1>4. v.queues \subseteq Queue /\ IsFiniteSet(v.queues)
  BY DriverIs, Zenon DEF Fits
<1>5. c2 = [c EXCEPT ![q.t] = @ + 1]
  BY <1>2, Zenon
<1>6. Counts(c2, v.queues \ {q}, q.t, 1) /\ (~q.st => Counts(c2, v.queues, "h2c", 0))
  BY <1>1, <1>4, <1>5, AddedCounts
<1>7. w.queues = v.queues
  BY <1>2 DEF Carried
<1>8. Base(w, e, m)
  BY BaseSame, Zenon DEF Carried
<1>9. Fits(w)
  BY <1>2, FitsLess, Zenon DEF Carried
<1>10. w.plan = Tail(v.plan) /\ w.state = v.state /\ w.qbase = v.qbase /\ w.init_qrange = v.init_qrange /\ w.removing = {}
  BY Zenon DEF Carried
<1>11. CASE q.st
  <2>1. w.plan # <<>> /\ Len(w.plan) = 1 /\ w.plan[1] = v.plan[2] /\ w.plan \in Seq(Step)
    BY <1>1, <1>3, <1>10, <1>11, TailIs, Zenon
  <2>2. Tells(w.plan[1], "add", w, "cmpt", q, {})
    BY <1>1, <1>10, <1>11, <2>1, Zenon DEF Tells
  <2>3. ToAddCmpt(w, c2, q)
    BY <1>1, <1>6, <1>7, <1>10, <1>11, <2>1, <2>2, Zenon DEF ToAddCmpt
  <2>4. Works(w)
    BY <1>3, <1>10, <2>1, Zenon DEF Works
  <2>5. Stage(w, c2)
    BY <1>7, <1>9, <1>10, <2>3, <2>4, Zenon DEF Stage, Adding
  <2> QED
    BY <1>3, <1>8, <1>9, <1>10, <2>1, <2>5, Zenon DEF Follows
<1>12. CASE ~q.st
  <2>1. w.plan = <<>>
    BY <1>1, <1>3, <1>10, <1>12, TailIs, Zenon
  <2>2. Counts(c2, w.queues, "h2c", 0)
    BY <1>6, <1>7, <1>12, Zenon
  <2> QED
    BY <1>3, <1>8, <1>9, <1>10, <2>1, <2>2, Zenon DEF Follows
<1> QED
  BY <1>11, <1>12, Zenon

LEMMA AddCmptToldIs ==
  ASSUME NEW v \in Driver, NEW e, NEW m, Base(v, e, m), Fits(v), Works(v), NEW q \in v.queues, v.removing = {},
         NEW c \in [QType -> Nat], ToAddCmpt(v, c, q), NEW c2, c2 = [c EXCEPT ![v.plan[1].t] = @ + 1],
         NEW w, Carried(v, w)
  PROVE  Follows(w, e, c2, m)
<1>1. /\ q.st /\ Len(v.plan) = 1 /\ Tells(v.plan[1], "add", v, "cmpt", q, {})
      /\ Counts(c, v.queues \ {q}, q.t, 1)
  BY Zenon DEF ToAddCmpt
<1>2. v.plan[1].t = "cmpt" /\ v.plan[1].gone = {}
  BY <1>1, Zenon DEF Tells
<1>3. v.plan \in Seq(Step) /\ v.plan # <<>> /\ v.state \in {"on", "leaving"}
  BY Zenon DEF Works
<1>4. v.queues \subseteq Queue /\ IsFiniteSet(v.queues)
  BY DriverIs, Zenon DEF Fits
<1>5. c2 = [c EXCEPT !["cmpt"] = @ + 1]
  BY <1>2, Zenon
<1>6. Counts(c2, v.queues, "h2c", 0)
  BY <1>1, <1>4, <1>5, AddedCmptCounts
<1>7. w.queues = v.queues
  BY <1>2 DEF Carried
<1>8. Base(w, e, m)
  BY BaseSame, Zenon DEF Carried
<1>9. Fits(w)
  BY <1>2, FitsLess, Zenon DEF Carried
<1>10. w.plan = Tail(v.plan) /\ w.state = v.state
  BY Zenon DEF Carried
<1>11. w.plan = <<>>
  BY <1>1, <1>3, <1>10, TailIs, Zenon
<1> QED
  BY <1>3, <1>6, <1>7, <1>8, <1>9, <1>10, <1>11, Zenon DEF Follows

LEMMA DelToldIs ==
  ASSUME NEW v \in Driver, NEW e, NEW m, Base(v, e, m), Fits(v), Works(v), NEW q \in v.queues, q \notin v.removing,
         NEW c \in [QType -> Nat], ToDel(v, c, q), NEW c2, c2 = [c EXCEPT ![v.plan[1].t] = @ - 1],
         NEW w, Carried(v, w)
  PROVE  Follows(w, e, c2, m)
<1>1. /\ Len(v.plan) = IF q.st THEN 2 ELSE 1
      /\ Tells(v.plan[1], "del", v, q.t, q, IF q.st THEN {} ELSE {q})
      /\ q.st => Tells(v.plan[2], "del", v, "cmpt", q, {q})
      /\ Counts(c, v.queues, q.t, 0)
  BY Zenon DEF ToDel
<1>2. v.plan[1].t = q.t /\ v.plan[1].gone = IF q.st THEN {} ELSE {q}
  BY <1>1, Zenon DEF Tells
<1>3. v.plan \in Seq(Step) /\ v.plan # <<>> /\ v.state \in {"on", "leaving"}
  BY Zenon DEF Works
<1>4. v.queues \subseteq Queue /\ IsFiniteSet(v.queues)
  BY DriverIs, Zenon DEF Fits
<1>5. c2 = [c EXCEPT ![q.t] = @ - 1]
  BY <1>2, Zenon
<1>6. Counts(c2, v.queues, q.t, -1) /\ (~q.st => Counts(c2, v.queues \ {q}, "h2c", 0))
  BY <1>1, <1>4, <1>5, RemovedCounts
<1>8. Base(w, e, m)
  BY BaseSame, Zenon DEF Carried
<1>9. Fits(w)
  <2>1. \A p \in v.plan[1].gone : p \notin v.removing
    BY <1>2
  <2> QED
    BY <2>1, FitsLess, Zenon DEF Carried
<1>10. w.plan = Tail(v.plan) /\ w.state = v.state /\ w.qbase = v.qbase /\ w.removing = v.removing
       /\ w.queues = v.queues \ v.plan[1].gone
  BY Zenon DEF Carried
<1>11. CASE q.st
  <2>1. w.plan # <<>> /\ Len(w.plan) = 1 /\ w.plan[1] = v.plan[2] /\ w.plan \in Seq(Step)
    BY <1>1, <1>3, <1>10, <1>11, TailIs, ZenonT(40)
  <2>2. Tells(w.plan[1], "del", w, "cmpt", q, {q})
    BY <1>1, <1>10, <1>11, <2>1, Zenon DEF Tells
  <2>3. w.queues = v.queues
    BY <1>2, <1>10, <1>11
  <2>4. ToDelCmpt(w, c2, q)
    BY <1>6, <1>11, <2>1, <2>2, <2>3, Zenon DEF ToDelCmpt
  <2>5. Works(w)
    BY <1>3, <1>10, <2>1, Zenon DEF Works
  <2>6. Stage(w, c2)
    BY <1>9, <1>10, <2>3, <2>4, <2>5, Zenon DEF Stage, Removing
  <2> QED
    BY <1>3, <1>8, <1>9, <1>10, <2>1, <2>6, Zenon DEF Follows
<1>12. CASE ~q.st
  <2>1. w.plan = <<>>
    BY <1>1, <1>3, <1>10, <1>12, TailIs, Zenon
  <2>2. w.queues = v.queues \ {q}
    BY <1>2, <1>10, <1>12
  <2>3. Counts(c2, w.queues, "h2c", 0)
    BY <1>6, <1>12, <2>2, Zenon
  <2> QED
    BY <1>3, <1>8, <1>9, <1>10, <2>1, <2>3, Zenon DEF Follows
<1> QED
  BY <1>11, <1>12, Zenon

LEMMA DelCmptToldIs ==
  ASSUME NEW v \in Driver, NEW e, NEW m, Base(v, e, m), Fits(v), Works(v), NEW q \in v.queues, q \notin v.removing,
         NEW c \in [QType -> Nat], ToDelCmpt(v, c, q), NEW c2, c2 = [c EXCEPT ![v.plan[1].t] = @ - 1],
         NEW w, Carried(v, w)
  PROVE  Follows(w, e, c2, m)
<1>1. /\ q.st /\ Len(v.plan) = 1 /\ Tells(v.plan[1], "del", v, "cmpt", q, {q})
      /\ Counts(c, v.queues, q.t, -1)
  BY Zenon DEF ToDelCmpt
<1>2. v.plan[1].t = "cmpt" /\ v.plan[1].gone = {q}
  BY <1>1, Zenon DEF Tells
<1>3. v.plan \in Seq(Step) /\ v.plan # <<>> /\ v.state \in {"on", "leaving"}
  BY Zenon DEF Works
<1>4. v.queues \subseteq Queue /\ IsFiniteSet(v.queues)
  BY DriverIs, Zenon DEF Fits
<1>5. c2 = [c EXCEPT !["cmpt"] = @ - 1]
  BY <1>2, Zenon
<1>6. Counts(c2, v.queues \ {q}, "h2c", 0)
  BY <1>1, <1>4, <1>5, RemovedCmptCounts
<1>7. w.queues = v.queues \ {q} /\ w.plan = Tail(v.plan) /\ w.state = v.state
  BY <1>2, Zenon DEF Carried
<1>8. Base(w, e, m)
  BY BaseSame, Zenon DEF Carried
<1>9. Fits(w)
  <2>1. \A p \in {q} : p \notin v.removing
    OBVIOUS
  <2> QED
    BY <1>7, <2>1, FitsLess, Zenon DEF Carried
<1>10. w.plan = <<>>
  BY <1>1, <1>3, <1>7, TailIs, Zenon
<1> QED
  BY <1>3, <1>6, <1>7, <1>8, <1>9, <1>10, Zenon DEF Follows

LEMMA AfterSame ==
  ASSUME NEW v, NEW d, NEW m, NEW a, NEW b, After(v, d, m, a), Same(b, a)
  PROVE  After(v, d, m, b)
<1>1. b.op = a.op /\ b.status = a.status /\ b.qbase = a.qbase /\ b.qmax = a.qmax
  BY Zenon DEF Same
<1> QED
  BY <1>1, Zenon DEF After, Opened, Refit, Refused, Mapped, Told

LEMMA OpenedGoes ==
  ASSUME NEW v \in Driver, NEW d, NEW m, NEW a, Opened(v, d, m, a), NEW w, ReturnedRight(v, TRUE, a, w)
  PROVE  Between(w, d, m)
<1>1. /\ v.plan = <<Message("hello")>> /\ v.removing = {} /\ v.granted = {} /\ v.qmax = 0
      /\ ~v.init_qrange /\ v.queues = {} /\ d.entry = NoQueues /\ Counts(d.active, {}, "h2c", 0) /\ m = NoMap
  BY Zenon DEF Opened, Begun, Starting
<1>2. v.plan[1].op = "hello" /\ Tail(v.plan) = <<>> /\ "hello" # "fmap" /\ "hello" # "qreq"
  <2>1. PICK x : x = Message("hello")
    OBVIOUS
  <2>2. x.op = "hello"
    BY <2>1, MessageIs DEF Ops
  <2>3. v.plan = <<x>>
    BY <1>1, <2>1, Zenon
  <2> QED
    BY <2>2, <2>3
<1>3. /\ w.plan = <<>> /\ w.state = "on" /\ w.qmax = 0 /\ ~w.init_qrange /\ w.removing = {} /\ w.granted = {}
      /\ w.queues = v.queues \ v.plan[1].gone
  BY <1>1, <1>2, Zenon DEF ReturnedRight
<1>4. w.queues = {}
  BY <1>1, <1>3
<1>5. d.entry.total_q = 0
  BY <1>1 DEF NoQueues
<1>6. Base(w, d.entry, m)
  BY <1>1, <1>3, <1>5, Zenon DEF Base
<1>7. Fits(w)
  <2>1. IsFiniteSet({}) /\ {} \subseteq {}
    BY FS_EmptySet
  <2>2. \A q : q \notin w.queues
    BY <1>4
  <2> QED
    BY <1>3, <1>4, <2>1, <2>2, Zenon DEF Fits
<1>8. "on" \in {"on", "leaving"}
  OBVIOUS
<1> QED
  BY <1>1, <1>3, <1>4, <1>6, <1>7, <1>8, Zenon DEF Between, Settled

LEMMA AskingIs ==
  ASSUME NEW v, NEW c, Stage(v, c), v.plan[1].op = "qreq"
  PROVE  /\ v.state = "on" /\ Tail(v.plan) = <<>> /\ v.removing = {} /\ v.granted = {} /\ Fits(v)
         /\ v.plan[1].gone = {} /\ v.plan[1].undone = {} /\ v.plan[1].otherwise = <<>>
         /\ Counts(c, v.queues, "h2c", 0)
<1>1. Asking(v, c) /\ Fits(v) /\ Works(v)
  BY StagesDiffer, Zenon DEF Stage
<1>2. v.plan \in Seq(Step) /\ v.plan # <<>> /\ Len(v.plan) = 1
  BY <1>1, Zenon DEF Works, Asking
<1>3. Tail(v.plan) = <<>>
  BY <1>2, TailIs, Zenon
<1> QED
  BY <1>1, <1>3, Zenon DEF Asking, Fits

LEMMA RefitGoes ==
  ASSUME NEW v \in Driver, NEW d, NEW m, NEW a, Refit(v, d, m, a), NEW w, ReturnedRight(v, TRUE, a, w)
  PROVE  Between(w, d, m)
<1>1. /\ v.plan[1].op = "qreq" /\ Stage(v, d.active) /\ v.queues = {} /\ m = NoMap
      /\ d.entry.total_q = a.qmax /\ d.entry.qbase = a.qbase
  BY Zenon DEF Refit
<1>2. /\ v.state = "on" /\ Tail(v.plan) = <<>> /\ v.plan[1].gone = {} /\ Counts(d.active, v.queues, "h2c", 0)
  BY <1>1, AskingIs, Zenon
<1>3. "qreq" # "hello"
  OBVIOUS
<1>4. /\ w.plan = <<>> /\ w.state = "on" /\ w.queues = v.queues \ {} /\ w.removing = v.queues /\ w.granted = {a}
  BY <1>1, <1>2, <1>3, Zenon DEF ReturnedRight
<1>5. w.queues = {}
  BY <1>1, <1>4
<1> QED
  BY <1>1, <1>2, <1>4, <1>5, Zenon DEF Between, Renewed

LEMMA RefusedGoes ==
  ASSUME NEW v \in Driver, NEW d, NEW m, NEW a, Refused(v, d, m, a), NEW w, ReturnedRight(v, FALSE, a, w)
  PROVE  Between(w, d, m)
<1>1. v.plan[1].op = "qreq" /\ Stage(v, d.active) /\ Base(v, d.entry, m)
  BY Zenon DEF Refused, Ahead
<1>2. /\ v.state = "on" /\ v.plan[1].undone = {} /\ v.plan[1].otherwise = <<>> /\ v.granted = {} /\ Fits(v)
      /\ v.removing = {} /\ Counts(d.active, v.queues, "h2c", 0)
  BY <1>1, AskingIs, Zenon
<1>3. "qreq" # "hello" /\ "qreq" # "fmap"
  OBVIOUS
<1>4. /\ w.plan = <<>> /\ w.state = "on" /\ w.queues = v.queues \ {} /\ w.removing = {} /\ w.granted = {}
      /\ w.qbase = v.qbase /\ w.qmax = v.qmax /\ w.init_qrange = v.init_qrange
  BY <1>1, <1>2, <1>3, Zenon DEF ReturnedRight
<1>5. w.queues = v.queues
  BY <1>4
<1>6. Base(w, d.entry, m)
  BY <1>1, <1>4, BaseSame
<1>7. Fits(w)
  BY <1>2, <1>4, <1>5, Zenon DEF Fits
<1>8. "on" \in {"on", "leaving"}
  OBVIOUS
<1> QED
  BY <1>2, <1>4, <1>5, <1>6, <1>7, <1>8, Zenon DEF Between, Settled

LEMMA MappedGoes ==
  ASSUME NEW v \in Driver, NEW d, NEW m, NEW a, Mapped(v, d, m, a), NEW w, ReturnedRight(v, TRUE, a, w)
  PROVE  Between(w, d, m)
<1>1. /\ v.plan[1].op = "fmap" /\ v.qmax = d.entry.total_q /\ v.qbase = d.entry.qbase /\ m = d.entry
      /\ Stage(v, d.active)
  BY Zenon DEF Mapped
<1>2. PICK q \in v.queues : v.removing = {} /\ ToMap(v, d.active, q)
  BY <1>1, StagesDiffer, Zenon
<1>3. /\ v.plan[1].gone = {} /\ Counts(d.active, v.queues \ {q}, q.t, 0)
      /\ Len(v.plan) = 1 + (IF q.st THEN 2 ELSE 1)
      /\ Tells(v.plan[1 + 1], "add", v, q.t, q, {})
      /\ q.st => Tells(v.plan[1 + 2], "add", v, "cmpt", q, {})
  BY <1>2, Zenon DEF ToMap, Adds
<1>4. /\ Len(v.plan) = IF q.st THEN 3 ELSE 2
      /\ Tells(v.plan[2], "add", v, q.t, q, {})
      /\ q.st => Tells(v.plan[3], "add", v, "cmpt", q, {})
  BY <1>3
<1>5. Fits(v) /\ Works(v)
  BY <1>1, Zenon DEF Stage
<1>6. v.plan \in Seq(Step) /\ v.plan # <<>> /\ v.state \in {"on", "leaving"}
  BY <1>5, Zenon DEF Works
<1>7. "fmap" # "hello" /\ "fmap" # "qreq"
  OBVIOUS
<1>8. /\ w.plan = Tail(v.plan) /\ w.state = v.state /\ w.queues = v.queues \ {} /\ w.removing = v.removing
      /\ w.granted = v.granted /\ w.qbase = v.qbase /\ w.qmax = v.qmax /\ w.init_qrange = TRUE
  BY <1>1, <1>3, <1>7, Zenon DEF ReturnedRight
<1>9. w.queues = v.queues
  BY <1>8
<1>10. Fits(w)
  BY <1>5, <1>8, <1>9, Zenon DEF Fits
<1>11. v.qmax # 0
  <2>1. q.i < v.qmax /\ q \in Queue
    BY <1>5, DriverIs, Zenon DEF Fits
  <2> QED
    BY <2>1, QueueIs, DriverIs
<1>12. Base(w, d.entry, m)
  BY <1>1, <1>8, <1>11, Zenon DEF Base
<1>18. q.st \in BOOLEAN
  BY DriverIs, QueueIs
<1>13. /\ w.plan # <<>> /\ w.plan \in Seq(Step) /\ w.plan[1] = v.plan[2]
       /\ Len(w.plan) = IF q.st THEN 2 ELSE 1
       /\ q.st => w.plan[2] = v.plan[3]
  <2>1. CASE q.st
    <3>1. Len(v.plan) = 3
      BY <1>4, <2>1
    <3>2. w.plan # <<>> /\ w.plan \in Seq(Step) /\ w.plan[1] = v.plan[2] /\ w.plan[2] = v.plan[3] /\ Len(w.plan) = 2
      BY <1>6, <1>8, <3>1, TailIs, Zenon
    <3> QED
      BY <2>1, <3>2, Zenon
  <2>2. CASE ~q.st
    <3>1. Len(v.plan) = 2
      BY <1>4, <2>2
    <3>2. w.plan # <<>> /\ w.plan \in Seq(Step) /\ w.plan[1] = v.plan[2] /\ Len(w.plan) = 1
      BY <1>6, <1>8, <3>1, TailIs, Zenon
    <3> QED
      BY <2>2, <3>2, <1>18
  <2> QED
    BY <2>1, <2>2
<1>14. Works(w)
  BY <1>6, <1>8, <1>13, Zenon DEF Works
<1>15. Adds(w, q, 0)
  <2>1. PICK x, y : x = v.plan[2] /\ y = v.plan[3]
    OBVIOUS
  <2>2. /\ Tells(x, "add", v, q.t, q, {})
        /\ q.st => Tells(y, "add", v, "cmpt", q, {})
    BY <1>4, <2>1, Zenon
  <2>3. /\ Tells(x, "add", w, q.t, q, {})
        /\ q.st => Tells(y, "add", w, "cmpt", q, {})
    <3>1. w.qbase + q.i = v.qbase + q.i
      BY <1>8
    <3> QED
      BY <3>1, <2>2, Zenon DEF Tells
  <2>4. w.plan[1] = x /\ (q.st => w.plan[2] = y)
    BY <1>13, <2>1
  <2>5. /\ Tells(w.plan[1], "add", w, q.t, q, {})
        /\ q.st => Tells(w.plan[2], "add", w, "cmpt", q, {})
    BY <2>3, <2>4, Zenon
  <2>6. 0 + 1 = 1 /\ 0 + 2 = 2 /\ 0 + (IF q.st THEN 2 ELSE 1) = IF q.st THEN 2 ELSE 1
    BY <1>18
  <2> QED
    BY <1>13, <2>5, <2>6, Zenon DEF Adds
<1>16. ToAdd(w, d.active, q)
  BY <1>3, <1>8, <1>9, <1>15, Zenon DEF ToAdd
<1>17. Stage(w, d.active)
  BY <1>2, <1>8, <1>9, <1>10, <1>14, <1>16, Zenon DEF Stage, Adding
<1> QED
  BY <1>12, <1>13, <1>17, Zenon DEF Between, Ahead

LEMMA ToldGoes ==
  ASSUME NEW v \in Driver, NEW d, NEW m, NEW a, Told(v, d, m, a), NEW w, ReturnedRight(v, TRUE, a, w)
  PROVE  Between(w, d, m)
<1>1. PICK c \in [QType -> Nat] :
        /\ Stage(v, c)
        /\ d.active = [c EXCEPT ![v.plan[1].t] = IF v.plan[1].op = "add" THEN @ + 1 ELSE @ - 1]
  BY Zenon DEF Told
<1>2. v.plan[1].op \in {"add", "del"} /\ Base(v, d.entry, m)
  BY Zenon DEF Told
<1>3. w \in Driver /\ Carried(v, w)
  BY <1>2, CarriedIs
<1>4. Fits(v) /\ Works(v)
  BY <1>1, Zenon DEF Stage
<1>5. CASE v.plan[1].op = "add"
  <2>1. PICK q \in v.queues : v.removing = {} /\ (ToAdd(v, c, q) \/ ToAddCmpt(v, c, q))
    BY <1>1, <1>5, StagesDiffer, Zenon
  <2>2. d.active = [c EXCEPT ![v.plan[1].t] = @ + 1]
    BY <1>1, <1>5, Zenon
  <2>3. Follows(w, d.entry, d.active, m)
    <3>1. CASE ToAdd(v, c, q)
      BY <1>2, <1>3, <1>4, <2>1, <2>2, <3>1, AddToldIs
    <3>2. CASE ToAddCmpt(v, c, q)
      BY <1>2, <1>3, <1>4, <2>1, <2>2, <3>2, AddCmptToldIs
    <3> QED
      BY <2>1, <3>1, <3>2
  <2> QED
    BY <2>3, FollowsIs
<1>6. CASE v.plan[1].op = "del"
  <2>1. PICK q \in v.queues : q \notin v.removing /\ (ToDel(v, c, q) \/ ToDelCmpt(v, c, q))
    BY <1>1, <1>6, StagesDiffer, Zenon
  <2>2. d.active = [c EXCEPT ![v.plan[1].t] = @ - 1]
    <3>1. "del" # "add"
      OBVIOUS
    <3> QED
      BY <1>1, <1>6, <3>1, Zenon
  <2>3. Follows(w, d.entry, d.active, m)
    <3>1. CASE ToDel(v, c, q)
      BY <1>2, <1>3, <1>4, <2>1, <2>2, <3>1, DelToldIs
    <3>2. CASE ToDelCmpt(v, c, q)
      BY <1>2, <1>3, <1>4, <2>1, <2>2, <3>2, DelCmptToldIs
    <3> QED
      BY <2>1, <3>1, <3>2
  <2> QED
    BY <2>3, FollowsIs
<1> QED
  BY <1>2, <1>5, <1>6

LEMMA AfterGoes ==
  ASSUME NEW v \in Driver, NEW d, NEW m, NEW a, After(v, d, m, a), NEW ok \in BOOLEAN,
         a.status = 0 => ok, a.status = -1 => ~ok, NEW w, ReturnedRight(v, ok, a, w)
  PROVE  Between(w, d, m)
<1>1. CASE Opened(v, d, m, a)
  <2>1. ok = TRUE
    BY <1>1 DEF Opened
  <2> QED
    BY <1>1, <2>1, OpenedGoes, Zenon
<1>2. CASE Refit(v, d, m, a)
  <2>1. ok = TRUE
    BY <1>2 DEF Refit
  <2> QED
    BY <1>2, <2>1, RefitGoes, Zenon
<1>3. CASE Refused(v, d, m, a)
  <2>1. ok = FALSE
    BY <1>3 DEF Refused
  <2> QED
    BY <1>3, <2>1, RefusedGoes, Zenon
<1>4. CASE Mapped(v, d, m, a)
  <2>1. ok = TRUE
    BY <1>4 DEF Mapped
  <2> QED
    BY <1>4, <2>1, MappedGoes, Zenon
<1>5. CASE Told(v, d, m, a)
  <2>1. ok = TRUE
    BY <1>5 DEF Told
  <2> QED
    BY <1>5, <2>1, ToldGoes, Zenon
<1> QED
  BY <1>1, <1>2, <1>3, <1>4, <1>5, Zenon DEF After

LEMMA VfWakeAgreed ==
  ASSUME Types, Agreement, NEW f \in VF, VfWake(f)
  PROVE  Agreement'
<1>1. PICK ok, a : ok = (req[f].answer.status >= 0) /\ a = req[f].answer
  OBVIOUS
<1>2. req[f].place = "matched"
  BY Zenon DEF VfWake
<1>3. a \in Reply /\ req[f].msg.op # "bye" /\ req[f].place \in {"todo", "pend", "matched"}
  BY <1>1, <1>2, MatchedIs, Zenon
<1>4. a \in Reply \cup Packet /\ ok \in BOOLEAN /\ (a.status = 0 => ok) /\ (a.status = -1 => ~ok)
  BY <1>1, <1>3, StatusIs
<1>5. PICK v, u : v = Returned(f, ok, a) /\ u = vf[f]
  OBVIOUS
<1>6. v \in Driver /\ ReturnedRight(u, ok, a, v) /\ u \in Driver
  BY <1>3, <1>4, <1>5, EndedIs, CallerIs
<1>7. Proceed(f, v) /\ UNCHANGED <<pool, fmap, outV, answers, outP>> /\ late' = late /\ hasty' = hasty
  BY <1>1, <1>5, Zenon DEF VfWake
<1>8. ASSUME f \notin Strays
      PROVE  outV[f] = Empty /\ Known(f) /\ NoMail(answers, outP, f) /\ Between(v, Dev(f), fmap[f])
  <2>1. InStep(f, u, req[f], outV[f], Known(f), Dev(f), fmap[f], answers, outP, late # {})
    BY <1>5, <1>8, InStepOf, Zenon
  <2>2. NoMail(answers, outP, f) /\ outV[f] = Empty /\ Known(f) /\ After(u, Dev(f), fmap[f], a)
    BY <1>1, <1>2, <2>1, PlacesDiffer, Zenon DEF InStep
  <2>3. Between(v, Dev(f), fmap[f])
    BY <1>4, <1>6, <2>2, AfterGoes
  <2> QED
    BY <2>2, <2>3, Zenon
<1>9. late \subseteq late' /\ hasty \subseteq hasty' /\ (f \in Strays' \/ f \notin Strays)
  BY <1>7 DEF Strays
<1> QED
  BY <1>6, <1>7, <1>8, <1>9, ProceedAgreed

(* A caller that goes on too early with anything but a request for queues finds what the answer says: *)
(* nothing else is refused as long as the two sides agree.                                            *)
LEMMA EarlyWakeAgreed ==
  ASSUME Types, Agreement, NEW f \in VF, EarlyWake(f)
  PROVE  Agreement'
<1>1. PICK a, b, u : a = req[f].msg /\ b = req[f].answer /\ u = vf[f]
  OBVIOUS
<1>2. PICK v : v = Returned(f, TRUE, a)
  OBVIOUS
<1>3. /\ req[f].place = "matched" /\ req[f].place \in {"todo", "pend", "matched"} /\ v \in Driver
      /\ ReturnedRight(u, TRUE, a, v) /\ Proceed(f, v) /\ UNCHANGED <<pool, fmap, outV, answers, outP>> /\ late' = late
  BY <1>1, <1>2, EarlyWakeIs
<1>4. u \in Driver /\ a.op = u.plan[1].op
  BY <1>1, <1>3, WaitsIs, Zenon
<1>5. hasty' = IF a.op = "qreq" THEN hasty \cup {f} ELSE hasty
  BY <1>1, Zenon DEF EarlyWake
<1>6. late \subseteq late' /\ hasty \subseteq hasty' /\ (a.op = "qreq" => f \in Strays') /\ (f \in Strays => f \in Strays')
  BY <1>3, <1>5 DEF Strays
<1>7. ASSUME f \notin Strays'
      PROVE  outV[f] = Empty /\ Known(f) /\ NoMail(answers, outP, f) /\ Between(v, Dev(f), fmap[f])
  <2>1. f \notin Strays /\ u.plan[1].op # "qreq"
    BY <1>4, <1>6, <1>7
  <2>2. InStep(f, u, req[f], outV[f], Known(f), Dev(f), fmap[f], answers, outP, late # {})
    BY <1>1, <2>1, InStepOf, Zenon
  <2>3. NoMail(answers, outP, f) /\ outV[f] = Empty /\ Known(f) /\ After(u, Dev(f), fmap[f], b)
    BY <1>1, <1>3, <2>2, PlacesDiffer, Zenon DEF InStep
  <2>4. ReturnedRight(u, TRUE, b, v)
    BY <1>3, <2>1, Zenon DEF ReturnedRight
  <2>5. b.status = 0
    BY <2>1, <2>3, Zenon DEF After, Opened, Refit, Refused, Mapped, Told
  <2>6. b.status = -1 => ~TRUE
    BY <2>5
  <2>7. Between(v, Dev(f), fmap[f])
    BY <1>4, <2>3, <2>4, <2>6, AfterGoes
  <2> QED
    BY <2>3, <2>7, Zenon
<1> QED
  BY <1>3, <1>6, <1>7, ProceedAgreed

LEMMA ExpireAgreed ==
  ASSUME Types, Agreement, NEW f \in VF, Expire(f)
  PROVE  Agreement'
<1>1. PICK ok, a : ok = FALSE /\ a = req[f].msg
  OBVIOUS
<1>2. req[f].place \in {"todo", "pend", "matched"} /\ req[f].msg.op # "bye"
  BY DEF Expire
<1>3. a \in Reply \cup Packet /\ ok \in BOOLEAN
  BY <1>1, <1>2, WaitsIs
<1>4. PICK v : v = Returned(f, ok, a)
  OBVIOUS
<1>5. v \in Driver
  BY <1>2, <1>3, <1>4, EndedIs
<1>6. Proceed(f, v) /\ UNCHANGED <<pool, fmap, outV, answers, outP>> /\ late' = late \cup {f} /\ hasty' = hasty
  BY <1>1, <1>4, Zenon DEF Expire
<1>7. late \subseteq late' /\ hasty \subseteq hasty' /\ f \in Strays'
  BY <1>6 DEF Strays
<1> QED
  BY <1>5, <1>6, <1>7, ProceedAgreed

LEMMA VanishAgreed ==
  ASSUME Types, Agreement, NEW f \in VF, Vanish(f)
  PROVE  Agreement'
<1>1. Moves(f, Off, Nothing)
  BY VanishTypes
<1>2. UNCHANGED <<pool, fmap, answers>> /\ outV' = outV /\ outP' = outP /\ late' = late \cup {f} /\ hasty' = hasty
  BY Zenon DEF Vanish
<1>3. late \subseteq late' /\ hasty \subseteq hasty' /\ f \in Strays'
  BY <1>2 DEF Strays
<1>4. \A g \in VF : g # f => outV'[g] = outV[g]
  BY <1>2, Zenon
<1> QED
  BY <1>1, <1>2, <1>3, <1>4, AgreementMoved

LEMMA StoppedAgreed ==
  ASSUME Types, Agreement, NEW f \in VF, Stopped(f)
  PROVE  Agreement'
<1>1. Moves(f, Off, Nothing)
  BY StoppedTypes
<1>2. /\ UNCHANGED <<pool, fmap, answers>> /\ outV' = outV /\ outP' = outP /\ late' = late /\ hasty' = hasty
      /\ vf[f].state = "leaving" /\ req[f] = Nothing
  BY Zenon DEF Stopped
<1>3. ASSUME f \notin Strays
      PROVE  InStep(f, Off, Nothing, outV'[f], Known(f), DeviceOf(pool.dev, f), fmap[f], answers, outP', late # {})
  <2>1. req[f].place = "none" /\ Nothing.place = "none"
    BY <1>2 DEF Nothing
  <2>2. NoMail(answers, outP, f) /\ Calm(vf[f], outV[f], Known(f), Dev(f), fmap[f])
    BY <1>3, <2>1, RestAgreed
  <2>3. Left(Known(f), outV[f])
    <3>1. "leaving" # "on"
      OBVIOUS
    <3>2. ~Rests(vf[f])
      BY <1>2, <3>1, Zenon DEF Rests
    <3> QED
      BY <2>2, <3>2, Zenon DEF Calm, Ends
  <2> QED
    BY <1>2, <2>1, <2>2, <2>3, Zenon DEF InStep, Calm
<1>4. late \subseteq late' /\ hasty \subseteq hasty'
  BY <1>2
<1>5. f \in Strays' \/ f \notin Strays
  BY <1>2 DEF Strays
<1>6. \A g \in VF : g # f => outV'[g] = outV[g]
  BY <1>2, Zenon
<1> QED
  BY <1>1, <1>2, <1>3, <1>4, <1>5, <1>6, AgreementMoved

LEMMA VfTxMoves ==
  ASSUME Types, NEW f \in VF, VfTx(f), NEW o, o = req[f].msg, NEW v, v = vf[f]
  PROVE  \E r : /\ Moves(f, v, r)
                /\ o.op = "bye" => r = Nothing
                /\ o.op # "bye" => r.place = "pend" /\ r.msg = o
<1>1. CASE o.op = "bye"
  BY <1>1, VfTxTypes, Zenon
<1>2. CASE o.op # "bye"
  <2>1. PICK r : r = [req[f] EXCEPT !.place = "pend"]
    OBVIOUS
  <2>2. Moves(f, v, r) /\ req'[f].place = "pend" /\ req'[f].msg = o
    BY <1>2, <2>1, VfTxTypes, Zenon
  <2>3. req'[f] = r
    BY <2>2, Zenon DEF Moves
  <2> QED
    BY <1>2, <2>2, <2>3, Zenon
<1> QED
  BY <1>1, <1>2, Zenon

LEMMA VfTxAgreed ==
  ASSUME Types, Agreement, NEW f \in VF, VfTx(f)
  PROVE  Agreement'
<1>1. /\ req[f].place = "todo" /\ outV[f] = Empty /\ outV' = [outV EXCEPT ![f] = req[f].msg]
      /\ UNCHANGED <<pool, fmap, answers>> /\ outP' = outP /\ late' = late /\ hasty' = hasty
  BY Zenon DEF VfTx
<1>2. PICK o : o = req[f].msg
  OBVIOUS
<1>3. outV'[f] = o /\ \A g \in VF : g # f => outV'[g] = outV[g]
  BY <1>1, <1>2, Zenon DEF Types, Wires
<1>4. PICK r : /\ Moves(f, vf[f], r)
               /\ o.op = "bye" => r = Nothing
               /\ o.op # "bye" => r.place = "pend" /\ r.msg = o
  BY <1>2, VfTxMoves
<1>5. ASSUME f \notin Strays
      PROVE  InStep(f, vf[f], r, o, Known(f), Dev(f), fmap[f], answers, outP, late # {})
  <2>1. PICK v, k, d, m : v = vf[f] /\ k = Known(f) /\ d = Dev(f) /\ m = fmap[f]
    OBVIOUS
  <2>2. NoMail(answers, outP, f) /\ Ready(v, Empty, k, d, m)
    <3>1. InStep(f, v, req[f], outV[f], k, d, m, answers, outP, late # {})
      BY <1>5, <2>1, InStepOf, Zenon
    <3> QED
      BY <1>1, <3>1, PlacesDiffer, Zenon DEF InStep
  <2>3. (Begun(v) /\ ~k) \/ (k /\ (Leaves(v) \/ Ahead(v, d, m)))
    <3>1. Left(k, Empty) => ~k
      BY DEF Left, Empty
    <3> QED
      BY <2>2, <3>1, Zenon DEF Ready
  <2>4. /\ o = Composed(f, v)
        /\ Leaves(v) => o.op = "bye"
        /\ Starting(v) => o.op = "hello"
        /\ Works(v) => o.op \in Work
        /\ Starting(v) \/ Leaves(v) \/ Works(v)
    <3>1. req[f].place \in {"todo", "pend", "matched"}
      BY <1>1
    <3> QED
      BY <1>2, <2>1, <3>1, WaitsIs, Zenon
  <2>5. "hello" # "bye" /\ "bye" \notin Work
    BY DEF Work
  <2>7. CASE o.op = "bye"
    <3>1. k
      BY <2>3, <2>4, <2>5, <2>7, Zenon DEF Begun
    <3>2. Leaves(v)
      BY <2>4, <2>5, <2>7, Zenon
    <3>3. Left(k, o)
      BY <2>7, <3>1, Zenon DEF Left
    <3>4. r.place = "none"
      BY <1>4, <2>7 DEF Nothing
    <3> QED
      BY <2>1, <2>2, <3>2, <3>3, <3>4, Zenon DEF InStep, Calm
  <2>8. CASE o.op # "bye"
    <3>1. Sent(f, v, o, k, d, m)
      <4>1. ~Leaves(v)
        BY <2>4, <2>8, Zenon
      <4> QED
        BY <2>3, <2>4, <4>1, Zenon DEF Sent
    <3> QED
      BY <1>4, <2>1, <2>2, <2>8, <3>1, Zenon DEF InStep
  <2> QED
    BY <2>7, <2>8, Zenon
<1>6. late \subseteq late' /\ hasty \subseteq hasty' /\ (f \in Strays' \/ f \notin Strays)
  BY <1>1 DEF Strays
<1>7. f \in Strays' \/ InStep(f, vf[f], r, outV'[f], Known(f), DeviceOf(pool.dev, f), fmap[f], answers, outP', late # {})
  BY <1>1, <1>3, <1>5, <1>6, Zenon DEF Dev
<1> QED
  BY <1>1, <1>3, <1>4, <1>6, <1>7, AgreementMoved

LEMMA VfRxAgreed ==
  ASSUME Types, Agreement, NEW f \in VF, VfRx(f)
  PROVE  Agreement'
<1>1. /\ UNCHANGED <<pool, fmap, answers>> /\ outV' = outV /\ outP' = Empty /\ late' = late /\ hasty' = hasty
  BY Zenon DEF VfRx
<1>2. OutTo(outP, f) /\ outP \in Reply
  BY VfRxTypes, Zenon
<1>3. ASSUME f \notin Strays
      PROVE  \E a \in Reply : OneMail(answers, outP, f, a) /\ After(vf[f], Dev(f), fmap[f], a)
                              /\ req[f].place = "pend" /\ outV[f] = Empty /\ Known(f)
  <2>1. InStep(f, vf[f], req[f], outV[f], Known(f), Dev(f), fmap[f], answers, outP, late # {})
    BY <1>3, InStepOf, Zenon
  <2>2. ~NoMail(answers, outP, f)
    BY <1>2, MailTaken, Zenon
  <2> QED
    BY <2>1, <2>2, Zenon DEF InStep
<1>4. CASE f \in Strays
  <2>1. \E r : Moves(f, vf[f], r)
    BY VfRxTypes, Zenon
  <2>2. f \in Strays' /\ late \subseteq late' /\ hasty \subseteq hasty'
    BY <1>1, <1>4 DEF Strays
  <2>3. \A g \in VF : g # f => outV'[g] = outV[g]
    BY <1>1, Zenon
  <2> QED
    BY <1>1, <1>2, <2>1, <2>2, <2>3, AgreementMoved
<1>5. CASE f \notin Strays
  <2>1. PICK a \in Reply : OneMail(answers, outP, f, a) /\ After(vf[f], Dev(f), fmap[f], a)
                           /\ req[f].place = "pend" /\ outV[f] = Empty /\ Known(f)
    BY <1>3, <1>5
  <2>2. NoMail(answers, Empty, f) /\ Same(outP, a)
    BY <1>2, <2>1, MailTaken, Zenon
  <2>3. req[f].msg.op = outP.op
    <3>1. req[f].msg.op = vf[f].plan[1].op
      <4>1. req[f].place \in {"todo", "pend", "matched"}
        BY <2>1
      <4> QED
        BY <4>1, WaitsIs, Zenon
    <3>2. a.op = vf[f].plan[1].op
      BY <2>1, Zenon DEF After
    <3> QED
      BY <2>2, <3>1, <3>2, Zenon DEF Same
  <2>4. PICK r : Moves(f, vf[f], r) /\ r.place = "matched" /\ r.msg = req[f].msg /\ r.answer = outP
    BY <2>1, <2>3, VfRxTypes, Zenon
  <2>5. After(vf[f], Dev(f), fmap[f], r.answer)
    <3>1. PICK v, d, m, b : v = vf[f] /\ d = Dev(f) /\ m = fmap[f] /\ b = outP
      OBVIOUS
    <3>2. After(v, d, m, a) /\ Same(b, a)
      BY <2>1, <2>2, <3>1, Zenon
    <3>3. After(v, d, m, b)
      BY <3>2, AfterSame
    <3> QED
      BY <2>4, <3>1, <3>3, Zenon
  <2>6. InStep(f, vf[f], r, outV'[f], Known(f), DeviceOf(pool.dev, f), fmap[f], answers, outP', late # {})
    BY <1>1, <2>1, <2>2, <2>4, <2>5, Zenon DEF InStep, Dev
  <2>7. late \subseteq late' /\ hasty \subseteq hasty'
    BY <1>1
  <2>8. \A g \in VF : g # f => outV'[g] = outV[g]
    BY <1>1, Zenon
  <2> QED
    BY <1>1, <1>2, <2>4, <2>6, <2>7, <2>8, AgreementMoved
<1> QED
  BY <1>4, <1>5

-----------------------------------------------------------------------------
(* The PF's answer to a message agrees with what it has done. *)

LEMMA DevIs ==
  ASSUME Types, NEW f \in VF, Known(f)
  PROVE  Dev(f) = pool.dev[f] /\ Dev(f).entry \in Entry /\ Dev(f).active \in [QType -> Nat]
<1>1. AllDevices(pool)
  BY WiresAre, Zenon DEF PoolOk
<1>2. Dev(f) = pool.dev[f] /\ Dev(f) \in Device
  BY <1>1, DeviceOfIs, Zenon DEF Dev, Known
<1> QED
  BY <1>2, DeviceIs

LEMMA WithinIs ==
  ASSUME NEW k, NEW e, NEW m, m = NoMap \/ m = e
  PROVE  Within(k, e, m)
<1>1. CASE m = NoMap
  <2>1. m.qbase = 0 /\ m.total_q = 0
    BY <1>1 DEF NoMap
  <2> QED
    BY <2>1 DEF Within, End
<1>2. CASE m = e
  BY <1>2, Zenon DEF Within, In
<1> QED
  BY <1>1, <1>2

LEMMA BaseWithin ==
  ASSUME NEW v, NEW k, NEW e, NEW m, Base(v, e, m)
  PROVE  Within(k, e, m)
<1>1. m = NoMap \/ m = e
  BY Zenon DEF Base
<1> QED
  BY <1>1, WithinIs

(* A queue of the function lies in its range. *)
LEMMA InRange ==
  ASSUME Types, NEW f \in VF, Known(f), NEW v \in Driver, NEW m, Base(v, Dev(f).entry, m), Fits(v), NEW q \in v.queues
  PROVE  IsQueueInRange(pool, f, v.qbase + q.i)
<1>1. PICK e : e = Dev(f).entry
  OBVIOUS
<1>2. e \in Entry /\ pool.dev[f].entry = e /\ f \in DOMAIN pool.dev
  BY <1>1, DevIs, Zenon DEF Known
<1>3. e.qbase \in Int /\ e.total_q \in Nat
  BY <1>2 DEF Entry
<1>4. q \in Queue /\ q.i < v.qmax /\ q.i \in Nat /\ v.qmax \in Nat /\ v.qbase \in Int
  BY DriverIs, QueueIs DEF Fits
<1>5. v.qmax = e.total_q /\ (v.qmax # 0 => v.qbase = e.qbase)
  BY <1>1, Zenon DEF Base
<1>6. e.total_q # 0 /\ e.qbase <= v.qbase + q.i /\ v.qbase + q.i < e.qbase + e.total_q
  BY <1>3, <1>4, <1>5
<1> QED
  BY <1>2, <1>6, Zenon DEF IsQueueInRange, End

(* There is room for one more queue of a type. *)
LEMMA RoomFor ==
  ASSUME Types, NEW f \in VF, Known(f), NEW v \in Driver, NEW m, Base(v, Dev(f).entry, m), Fits(v), NEW q \in v.queues,
         NEW t \in QType, Marks(q, t), Dev(f).active[t] = Num(v.queues \ {q}, t)
  PROVE  CanIncrement(pool, f, t)
<1>1. v.queues \subseteq Queue /\ IsFiniteSet(v.queues) /\ v.qmax \in Nat
  BY DriverIs, Zenon DEF Fits
<1>2. Num(v.queues, t) <= v.qmax
  BY <1>1, NumBound, Zenon DEF Fits
<1>3. IsFiniteSet(v.queues \ {q}) /\ Num(v.queues, t) = Num(v.queues \ {q}, t) + 1
  BY <1>1, NumLess
<1>4. Num(v.queues \ {q}, t) \in Nat
  BY <1>3, NumIs
<1>5. PICK a, e : a = Num(v.queues \ {q}, t) /\ e = Dev(f).entry
  OBVIOUS
<1>6. pool.dev[f].active[t] = a /\ pool.dev[f].entry = e
  BY <1>5, DevIs, Zenon
<1>7. v.qmax = e.total_q
  BY <1>5, Zenon DEF Base
<1>8. e.total_q > a
  BY <1>1, <1>2, <1>3, <1>4, <1>5, <1>7
<1> QED
  BY <1>6, <1>8, Zenon DEF CanIncrement

(* What the PF keeps of f after r, and the answer a to f, are right for its driver v. *)
Answered(f, v, r, a) ==
  LET d == DeviceOf(r.pool.dev, f)
  IN  f \in DOMAIN r.pool.dev /\ After(v, d, r.fmap[f], a) /\ Within(TRUE, d.entry, r.fmap[f])

LEMMA AnsweredIs ==
  ASSUME NEW f, NEW v, NEW r, NEW a, NEW d, NEW m, d = DeviceOf(r.pool.dev, f), m = r.fmap[f],
         f \in DOMAIN r.pool.dev, After(v, d, m, a), Within(TRUE, d.entry, m)
  PROVE  Answered(f, v, r, a)
BY Zenon DEF Answered

LEMMA HelloAnswered ==
  ASSUME Types, NEW f \in VF, NEW v \in Driver, Begun(v), ~Known(f), NEW x \in Packet, x = Composed(f, v),
         NEW r, r = Handled(x), NEW a, AnswerRight(x, r, a)
  PROVE  Answered(f, v, r, a) /\ x.op = "hello"
<1>1. v.plan # <<>> /\ v.plan[1].op = "hello"
  <2>1. PICK y : y = Message("hello")
    OBVIOUS
  <2>2. y.op = "hello"
    BY <2>1, MessageIs DEF Ops
  <2>3. v.plan = <<y>>
    BY <2>1, Zenon DEF Begun, Starting
  <2> QED
    BY <2>2, <2>3
<1>2. x.src = f /\ x.op = "hello"
  BY <1>1, ComposedIs
<1>3. PICK d, m : d = DeviceOf(r.pool.dev, f) /\ m = r.fmap[f]
  OBVIOUS
<1>4. f \in DOMAIN r.pool.dev /\ m = NoMap /\ r.status = 0 /\ d.entry = NoQueues /\ \A t \in QType : d.active[t] = 0
  <2>1. f \in DOMAIN r.pool.dev /\ r.fmap[f] = NoMap /\ r.status = 0
    BY <1>2, HelloDone
  <2>2. DeviceOf(r.pool.dev, f).entry = NoQueues /\ \A t \in QType : DeviceOf(r.pool.dev, f).active[t] = 0
    BY <1>2, HelloDone
  <2> QED
    BY <1>3, <2>1, <2>2, Zenon
<1>5. Counts(d.active, {}, "h2c", 0)
  <2>1. \A t \in QType : d.active[t] = Num({}, t) + (IF t = "h2c" THEN 0 ELSE 0)
    BY <1>4, NumNone
  <2> QED
    BY <2>1, Zenon DEF Counts
<1>6. a.op = "hello" /\ a.status = 0
  BY <1>2, <1>4, Zenon DEF AnswerRight
<1>7. After(v, d, m, a)
  BY <1>1, <1>4, <1>5, <1>6, Zenon DEF After, Opened
<1>8. Within(TRUE, d.entry, m)
  BY <1>4, WithinIs
<1> QED
  BY <1>2, <1>3, <1>4, <1>7, <1>8, AnsweredIs

(* No queue of the function is counted, so it has none. *)
LEMMA NoneCounted ==
  ASSUME Types, NEW f \in VF, Known(f), ~Active(pool, f), NEW v \in Driver, Fits(v),
         Counts(Dev(f).active, v.queues, "h2c", 0)
  PROVE  v.queues = {}
<1>1. \A t \in QType : Dev(f).active[t] = 0
  BY DevIs, Zenon DEF Active
<1>2. v.queues \subseteq Queue /\ IsFiniteSet(v.queues)
  BY DriverIs, Zenon DEF Fits
<1>3. \A t \in QType : Num(v.queues, t) = 0
  <2>1. PICK c : c = Dev(f).active
    OBVIOUS
  <2>2. Counts(c, v.queues, "h2c", 0)
    BY <2>1, Zenon
  <2>3. \A t \in QType : c[t] = Num(v.queues, t)
    BY <1>2, <2>2, CountsAny
  <2> QED
    BY <1>1, <2>1, <2>3, Zenon
<1>4. ASSUME NEW q \in v.queues
      PROVE  FALSE
  <2>1. q.t \in QType /\ Marks(q, q.t)
    BY <1>2, MarksIs
  <2>2. Num(v.queues, q.t) > 0
    BY <1>2, <2>1, NumLess
  <2>3. Num(v.queues, q.t) = 0
    BY <1>3, <2>1, Zenon
  <2> QED
    BY <2>2, <2>3
<1> QED
  BY <1>4

LEMMA QreqAnswered ==
  ASSUME Types, NEW f \in VF, NEW v \in Driver, Known(f), Ahead(v, Dev(f), fmap[f]), v.plan[1].op = "qreq", v.plan # <<>>,
         NEW x \in Packet, x.src = f, x.op = "qreq", NEW r, r = Handled(x), NEW a, AnswerRight(x, r, a)
  PROVE  Answered(f, v, r, a)
<1>1. PICK d, m : d = DeviceOf(r.pool.dev, f) /\ m = r.fmap[f]
  OBVIOUS
<1>2. PICK d0, m0 : d0 = Dev(f) /\ m0 = fmap[f]
  OBVIOUS
<1>3. d0 = pool.dev[f] /\ f \in DOMAIN pool.dev
  BY <1>2, DevIs, Zenon DEF Known
<1>4. Base(v, d0.entry, m0) /\ Stage(v, d0.active)
  BY <1>2, Zenon DEF Ahead
<1>5. QreqRight(f, x, r)
  BY QreqDone
<1>6. f \in DOMAIN r.pool.dev
  BY <1>3, <1>5, Zenon DEF QreqRight
<1>7. d = r.pool.dev[f]
  BY <1>1, <1>6, Zenon DEF DeviceOf
<1>8. a.op = "qreq" /\ a.status = r.status
  BY Zenon DEF AnswerRight
<1>9. CASE r.status = -1 /\ r.pool = pool /\ r.fmap = fmap
  <2>1. d = d0 /\ m = m0
    BY <1>1, <1>2, <1>3, <1>7, <1>9, Zenon
  <2>2. After(v, d, m, a)
    BY <1>4, <1>8, <1>9, <2>1, Zenon DEF After, Refused, Ahead
  <2>3. Within(TRUE, d.entry, m)
    BY <1>4, <2>1, BaseWithin
  <2> QED
    BY <1>1, <1>6, <2>2, <2>3, AnsweredIs
<1>10. CASE /\ r.status = -1 /\ r.fmap = fmap /\ d.active = d0.active /\ d.entry.total_q = d0.entry.total_q
            /\ d0.entry.total_q # 0 => d.entry = d0.entry
  <2>1. m = m0
    BY <1>1, <1>2, <1>10, Zenon
  <2>2. Base(v, d.entry, m)
    BY <1>4, <1>10, <2>1, Zenon DEF Base
  <2>3. Stage(v, d.active)
    BY <1>4, <1>10, Zenon
  <2>4. After(v, d, m, a)
    BY <1>8, <1>10, <2>2, <2>3, Zenon DEF After, Refused, Ahead
  <2>5. Within(TRUE, d.entry, m)
    BY <2>2, BaseWithin
  <2> QED
    BY <1>1, <1>6, <2>4, <2>5, AnsweredIs
<1>11. CASE r.status = 0 /\ r.fmap[f] = NoMap /\ ~Active(pool, f) /\ d.active = d0.active
  <2>1. v.queues = {}
    <3>1. Fits(v) /\ Counts(d0.active, v.queues, "h2c", 0)
      BY <1>4, AskingIs, Zenon
    <3> QED
      BY <1>2, <1>11, <3>1, NoneCounted, Zenon
  <2>2. a.qbase = d.entry.qbase /\ a.qmax = d.entry.total_q
    BY <1>7, <1>11, Zenon DEF AnswerRight
  <2>3. m = NoMap
    BY <1>1, <1>11, Zenon
  <2>4. After(v, d, m, a)
    BY <1>4, <1>8, <1>11, <2>1, <2>2, <2>3, Zenon DEF After, Refit
  <2>5. Within(TRUE, d.entry, m)
    BY <2>3, WithinIs
  <2> QED
    BY <1>1, <1>6, <2>4, <2>5, AnsweredIs
<1> QED
  BY <1>3, <1>5, <1>7, <1>9, <1>10, <1>11, Zenon DEF QreqRight

LEMMA Below ==
  ASSUME NEW m \in Nat, NEW r \in Nat, m < r
  PROVE  m % r = m
OBVIOUS

(* The card's table has room for every range that the PF gives out. *)
LEMMA MapOfIs ==
  ASSUME Types, NEW f \in VF, Known(f), NEW e, e = Dev(f).entry, e.total_q # 0
  PROVE  MapOf(e.qbase, e.total_q) = e
<1>1. f \in DOMAIN pool.dev /\ pool.dev[f].entry = e /\ Shared(pool.free, pool.dev)
  BY DevIs, WiresAre, Zenon DEF PoolOk, Known
<1>2. Owned(e) /\ \A q \in Nat : In(e, q) => q < TotalQ
  BY <1>1, Zenon DEF Shared
<1>3. e \in Entry /\ e.qbase \in Int /\ e.total_q \in Nat /\ e.qbase >= 0
  BY <1>2, OwnedIs DEF Owned
<1>4. PICK b, n : b = e.qbase /\ n = e.total_q
  OBVIOUS
<1>5. b \in Nat /\ n \in Nat /\ n > 0 /\ End(e) = b + n
  BY <1>3, <1>4 DEF End
<1>6. In(e, b) /\ In(e, b + n - 1)
  BY <1>4, <1>5 DEF In
<1>7. b < TotalQ /\ b + n - 1 < TotalQ
  <2>1. b + n - 1 \in Nat
    BY <1>5
  <2> QED
    BY <1>2, <1>5, <1>6, <2>1, Zenon
<1>8. TotalQ \in Nat /\ TotalQ =< 2048
  BY PoolAssumption, MailboxAssumption
<1>9. b % 2048 = b /\ n % 4096 = n
  <2>1. b < 2048 /\ n < 4096 /\ 2048 \in Nat /\ 4096 \in Nat
    BY <1>5, <1>7, <1>8
  <2> QED
    BY <1>5, <2>1, Below
<1>10. MapOf(e.qbase, e.total_q) = [qbase |-> b, total_q |-> n]
  <2>1. PICK x, y : x = b % 2048 /\ y = n % 4096
    OBVIOUS
  <2>2. x = b /\ y = n
    BY <1>9, <2>1
  <2>3. MapOf(b, n) = [qbase |-> x, total_q |-> y]
    BY <1>5, <2>1 DEF MapOf
  <2> QED
    BY <1>4, <2>2, <2>3, Zenon
<1> QED
  BY <1>3, <1>4, <1>10 DEF Entry

LEMMA FmapAnswered ==
  ASSUME Types, NEW f \in VF, NEW v \in Driver, Known(f), Ahead(v, Dev(f), fmap[f]), v.plan[1].op = "fmap", v.plan # <<>>,
         NEW x \in Packet, x.src = f, x.op = "fmap", x.qbase = v.qbase, x.qmax = v.qmax,
         NEW r, r = Handled(x), NEW a, AnswerRight(x, r, a)
  PROVE  Answered(f, v, r, a)
<1>1. PICK d, m : d = DeviceOf(r.pool.dev, f) /\ m = r.fmap[f]
  OBVIOUS
<1>2. r.pool = pool /\ r.status = 0 /\ m = MapOf(v.qbase, v.qmax)
  <2>1. r.pool = pool /\ r.status = 0 /\ r.fmap[f] = MapOf(x.qbase, x.qmax)
    BY FmapDone
  <2> QED
    BY <1>1, <2>1, Zenon
<1>3. d = Dev(f) /\ f \in DOMAIN r.pool.dev
  BY <1>1, <1>2, Zenon DEF Dev, Known
<1>4. Base(v, d.entry, fmap[f]) /\ Stage(v, d.active)
  BY <1>3, Zenon DEF Ahead
<1>5. v.qmax # 0
  <2>1. PICK q \in v.queues : ToMap(v, d.active, q)
    BY <1>4, StagesDiffer, Zenon
  <2>2. q.i < v.qmax /\ q \in Queue
    BY <1>4, DriverIs, Zenon DEF Stage, Fits
  <2> QED
    BY <2>2, QueueIs, DriverIs
<1>6. v.qmax = d.entry.total_q /\ v.qbase = d.entry.qbase
  BY <1>4, <1>5, Zenon DEF Base
<1>7. m = d.entry
  <2>1. PICK e : e = d.entry
    OBVIOUS
  <2>2. e.total_q # 0 /\ e = Dev(f).entry
    BY <1>3, <1>5, <1>6, <2>1, Zenon
  <2>3. m = MapOf(e.qbase, e.total_q)
    BY <1>2, <1>6, <2>1, Zenon
  <2>4. m = e
    BY <2>2, <2>3, MapOfIs
  <2> QED
    BY <2>1, <2>4
<1>8. a.op = "fmap" /\ a.status = 0
  BY <1>2, Zenon DEF AnswerRight
<1>9. After(v, d, m, a)
  BY <1>4, <1>6, <1>7, <1>8, Zenon DEF After, Mapped
<1>10. Within(TRUE, d.entry, m)
  BY <1>7, WithinIs
<1> QED
  BY <1>1, <1>3, <1>9, <1>10, AnsweredIs

(* The PF has counted a queue that it was told of. *)
LEMMA ToldAnswered ==
  ASSUME Types, NEW f \in VF, NEW v \in Driver, Known(f), Ahead(v, Dev(f), fmap[f]), NEW op \in {"add", "del"},
         v.plan[1].op = op, v.plan # <<>>,
         NEW x \in Packet, x.src = f, x.op = op, x.t = v.plan[1].t, NEW r, NEW a, AnswerRight(x, r, a),
         NEW n, CountRight(f, x.t, r, n),
         n = IF op = "add" THEN pool.dev[f].active[x.t] + 1 ELSE pool.dev[f].active[x.t] - 1
  PROVE  Answered(f, v, r, a)
<1>1. PICK d, m : d = DeviceOf(r.pool.dev, f) /\ m = r.fmap[f]
  OBVIOUS
<1>2. PICK d0 : d0 = Dev(f)
  OBVIOUS
<1>3. d0 = pool.dev[f] /\ f \in DOMAIN pool.dev /\ d0.active \in [QType -> Nat]
  BY <1>2, DevIs, Zenon DEF Known
<1>4. f \in DOMAIN r.pool.dev
  BY <1>3, Zenon DEF CountRight
<1>5. d = r.pool.dev[f]
  BY <1>1, <1>4, Zenon DEF DeviceOf
<1>6. m = fmap[f] /\ r.status = 0 /\ d.entry = d0.entry /\ d.active = [d0.active EXCEPT ![x.t] = n]
  BY <1>1, <1>3, <1>5, Zenon DEF CountRight
<1>7. PICK c, t : c = d0.active /\ t = v.plan[1].t
  OBVIOUS
<1>8. d.active = [c EXCEPT ![t] = IF op = "add" THEN @ + 1 ELSE @ - 1]
  <2>1. n = IF op = "add" THEN c[t] + 1 ELSE c[t] - 1
    BY <1>3, <1>7, Zenon
  <2>2. d.active = [c EXCEPT ![t] = n]
    BY <1>6, <1>7, Zenon
  <2> QED
    BY <2>1, <2>2
<1>9. Base(v, d.entry, m) /\ Stage(v, c)
  BY <1>2, <1>6, <1>7, Zenon DEF Ahead
<1>10. a.op = op /\ a.status = 0
  BY <1>6, Zenon DEF AnswerRight
<1>11. Told(v, d, m, a)
  BY <1>3, <1>7, <1>8, <1>9, <1>10, Zenon DEF Told
<1>12. After(v, d, m, a)
  BY <1>10, <1>11, Zenon DEF After
<1>13. Within(TRUE, d.entry, m)
  <2>1. Base(v, d.entry, m)
    BY <1>9
  <2>2. \A k : Within(k, d.entry, m)
    BY <2>1, BaseWithin, Zenon
  <2> QED
    BY <2>2, Zenon
<1> QED
  BY <1>1, <1>4, <1>12, <1>13, AnsweredIs

LEMMA AddAnswered ==
  ASSUME Types, NEW f \in VF, NEW v \in Driver, Known(f), Ahead(v, Dev(f), fmap[f]), v.plan[1].op = "add", v.plan # <<>>,
         NEW x \in Packet, x.src = f, x.op = "add", x.t = v.plan[1].t, x.qid = v.plan[1].qid,
         NEW r, r = Handled(x), NEW a, AnswerRight(x, r, a)
  PROVE  Answered(f, v, r, a)
<1>1. PICK c : c = Dev(f).active
  OBVIOUS
<1>2. Base(v, Dev(f).entry, fmap[f]) /\ Stage(v, c) /\ Fits(v)
  BY <1>1, Zenon DEF Ahead, Stage
<1>3. v.queues \subseteq Queue /\ IsFiniteSet(v.queues)
  BY <1>2, DriverIs, Zenon DEF Fits
<1>4. PICK q \in v.queues : ToAdd(v, c, q) \/ ToAddCmpt(v, c, q)
  BY <1>2, StagesDiffer, Zenon
<1>5. q \in Queue /\ IsFiniteSet(v.queues \ {q})
  BY <1>3, FS_RemoveElement
<1>6. x.qid = v.qbase + q.i /\ x.t \in QType /\ Marks(q, x.t) /\ c[x.t] = Num(v.queues \ {q}, x.t)
  <2>1. CASE ToAdd(v, c, q)
    <3>1. Counts(c, v.queues \ {q}, q.t, 0) /\ Tells(v.plan[1], "add", v, q.t, q, {})
      BY <2>1 DEF ToAdd, Adds
    <3>2. x.qid = v.qbase + q.i /\ x.t = q.t
      BY <3>1, Zenon DEF Tells
    <3>3. q.t \in QType /\ Marks(q, q.t)
      BY <1>5, MarksIs
    <3>4. c[q.t] = Num(v.queues \ {q}, q.t)
      BY <1>5, <3>1, <3>3, CountsAny
    <3> QED
      BY <3>2, <3>3, <3>4, Zenon
  <2>2. CASE ToAddCmpt(v, c, q)
    <3>1. q.st /\ Counts(c, v.queues \ {q}, q.t, 1) /\ Tells(v.plan[1], "add", v, "cmpt", q, {})
      BY <2>2, Zenon DEF ToAddCmpt
    <3>2. x.qid = v.qbase + q.i /\ x.t = "cmpt"
      BY <3>1, Zenon DEF Tells
    <3>3. "cmpt" \in QType /\ Marks(q, "cmpt") /\ q.t # "cmpt"
      BY <1>5, <3>1, MarksIs DEF QType
    <3>4. PICK b, z : b = Num(v.queues \ {q}, "cmpt") /\ z = "cmpt"
      OBVIOUS
    <3>5. b \in Nat
      BY <1>5, <3>4, NumIs
    <3>6. c[z] = b + (IF z = q.t THEN 1 ELSE 0)
      BY <3>1, <3>3, <3>4, Zenon DEF Counts
    <3>7. c[z] = b
      BY <3>3, <3>4, <3>5, <3>6
    <3> QED
      BY <3>2, <3>3, <3>4, <3>7, Zenon
  <2> QED
    BY <1>4, <2>1, <2>2
<1>7. IsQueueInRange(pool, f, x.qid)
  BY <1>2, <1>6, InRange, Zenon
<1>8. CanIncrement(pool, f, x.t)
  BY <1>1, <1>2, <1>6, RoomFor, Zenon
<1>9. CountRight(f, x.t, r, pool.dev[f].active[x.t] + 1)
  BY <1>7, <1>8, AddDone, Zenon
<1>10. PICK n : n = pool.dev[f].active[x.t] + 1
  OBVIOUS
<1>11. PICK op : op = "add"
  OBVIOUS
<1>12. op \in {"add", "del"} /\ n = IF op = "add" THEN pool.dev[f].active[x.t] + 1 ELSE pool.dev[f].active[x.t] - 1
  BY <1>10, <1>11
<1>13. CountRight(f, x.t, r, n) /\ v.plan[1].op = op /\ x.op = op
  BY <1>9, <1>10, <1>11, Zenon
<1> QED
  BY <1>12, <1>13, ToldAnswered

LEMMA DelAnswered ==
  ASSUME Types, NEW f \in VF, NEW v \in Driver, Known(f), Ahead(v, Dev(f), fmap[f]), v.plan[1].op = "del", v.plan # <<>>,
         NEW x \in Packet, x.src = f, x.op = "del", x.t = v.plan[1].t, x.qid = v.plan[1].qid,
         NEW r, r = Handled(x), NEW a, AnswerRight(x, r, a)
  PROVE  Answered(f, v, r, a)
<1>1. PICK c : c = Dev(f).active
  OBVIOUS
<1>2. Base(v, Dev(f).entry, fmap[f]) /\ Stage(v, c) /\ Fits(v) /\ c \in [QType -> Nat] /\ c = pool.dev[f].active
  BY <1>1, DevIs, Zenon DEF Ahead, Stage
<1>3. v.queues \subseteq Queue /\ IsFiniteSet(v.queues)
  BY <1>2, DriverIs, Zenon DEF Fits
<1>4. PICK q \in v.queues : ToDel(v, c, q) \/ ToDelCmpt(v, c, q)
  BY <1>2, StagesDiffer, Zenon
<1>5. x.qid = v.qbase + q.i /\ c[x.t] > 0
  <2>1. CASE ToDel(v, c, q)
    <3>1. Counts(c, v.queues, q.t, 0) /\ \E G : Tells(v.plan[1], "del", v, q.t, q, G)
      BY <2>1, Zenon DEF ToDel
    <3>2. x.qid = v.qbase + q.i /\ x.t = q.t
      BY <3>1, Zenon DEF Tells
    <3>3. PICK c2 : c2 = [c EXCEPT ![q.t] = @ - 1]
      OBVIOUS
    <3>4. c[q.t] > 0
      BY <1>2, <1>3, <3>1, <3>3, RemovedCounts
    <3> QED
      BY <3>2, <3>4, Zenon
  <2>2. CASE ToDelCmpt(v, c, q)
    <3>1. q.st /\ Counts(c, v.queues, q.t, -1) /\ Tells(v.plan[1], "del", v, "cmpt", q, {q})
      BY <2>2, Zenon DEF ToDelCmpt
    <3>2. x.qid = v.qbase + q.i /\ x.t = "cmpt"
      BY <3>1, Zenon DEF Tells
    <3>3. PICK c2 : c2 = [c EXCEPT !["cmpt"] = @ - 1]
      OBVIOUS
    <3>4. c["cmpt"] > 0
      BY <1>2, <1>3, <3>1, <3>3, RemovedCmptCounts
    <3> QED
      BY <3>2, <3>4, Zenon
  <2> QED
    BY <1>4, <2>1, <2>2
<1>6. IsQueueInRange(pool, f, x.qid)
  BY <1>2, <1>5, InRange, Zenon
<1>7. CountRight(f, x.t, r, IF c[x.t] = 0 THEN 0 ELSE c[x.t] - 1)
  BY <1>2, <1>6, DelDone, Zenon
<1>8. PICK n : n = c[x.t] - 1
  OBVIOUS
<1>9. CountRight(f, x.t, r, n)
  <2>1. c[x.t] # 0
    BY <1>5
  <2> QED
    BY <1>7, <1>8, <2>1, Zenon
<1>10. PICK op : op = "del"
  OBVIOUS
<1>11. op \in {"add", "del"} /\ n = IF op = "add" THEN pool.dev[f].active[x.t] + 1 ELSE pool.dev[f].active[x.t] - 1
  BY <1>2, <1>8, <1>10
<1>12. v.plan[1].op = op /\ x.op = op
  BY <1>10
<1> QED
  BY <1>9, <1>11, <1>12, ToldAnswered

LEMMA SentAnswered ==
  ASSUME Types, NEW f \in VF, vf[f].plan # <<>>, NEW x \in Packet, Sent(f, vf[f], x, Known(f), Dev(f), fmap[f]),
         NEW r, r = Handled(x), NEW a, AnswerRight(x, r, a)
  PROVE  Answered(f, vf[f], r, a) /\ x.op # "bye"
<1>1. PICK v : v = vf[f]
  OBVIOUS
<1>2. v \in Driver
  BY <1>1, CallerIs
<1>3. x = Composed(f, v) /\ ((Begun(v) /\ ~Known(f)) \/ (Known(f) /\ Ahead(v, Dev(f), fmap[f])))
  BY <1>1, Zenon DEF Sent
<1>4. /\ x.src = f /\ x.op = v.plan[1].op /\ x.t = v.plan[1].t /\ x.qid = v.plan[1].qid
      /\ x.op = "fmap" => x.qbase = v.qbase /\ x.qmax = v.qmax
  BY <1>1, <1>2, <1>3, ComposedIs
<1>5. CASE Begun(v) /\ ~Known(f)
  <2>1. Answered(f, v, r, a) /\ x.op = "hello"
    BY <1>2, <1>3, <1>5, HelloAnswered
  <2>2. "hello" # "bye"
    OBVIOUS
  <2> QED
    BY <1>1, <2>1, <2>2, Zenon
<1>6. CASE Known(f) /\ Ahead(v, Dev(f), fmap[f])
  <2>1. v.plan \in Seq(Step) /\ v.plan # <<>>
    BY <1>6, Zenon DEF Ahead, Stage, Works
  <2>2. v.plan[1].op \in Work
    BY <2>1, ByeIsNoStep
  <2>3. x.op \in {"fmap", "qreq", "add", "del"}
    BY <1>4, <2>2, Zenon DEF Work
  <2>4. Answered(f, v, r, a)
    <3>1. CASE x.op = "fmap"
      BY <1>2, <1>4, <1>6, <2>1, <3>1, FmapAnswered
    <3>2. CASE x.op = "qreq"
      BY <1>2, <1>4, <1>6, <2>1, <3>2, QreqAnswered
    <3>3. CASE x.op = "add"
      BY <1>2, <1>4, <1>6, <2>1, <3>3, AddAnswered
    <3>4. CASE x.op = "del"
      BY <1>2, <1>4, <1>6, <2>1, <3>4, DelAnswered
    <3> QED
      BY <2>3, <3>1, <3>2, <3>3, <3>4
  <2>5. "bye" \notin {"fmap", "qreq", "add", "del"}
    OBVIOUS
  <2> QED
    BY <1>1, <2>3, <2>4, <2>5, Zenon
<1> QED
  BY <1>3, <1>5, <1>6

(* The step of the PF that takes a message of f: f itself. *)
LEMMA PfRxOwn ==
  ASSUME Types, Agreement, NEW f \in VF, f \notin Strays, PfRx(f)
  PROVE  AgreedNext(f)
<1>1. PICK x, r : x = outV[f] /\ r = Handled(x)
  OBVIOUS
<1>2. /\ x \in Packet /\ x.src = f /\ x # Empty /\ pool' = r.pool /\ fmap' = r.fmap /\ outV'[f] = Empty
      /\ x.op = "bye" => answers' = answers
      /\ x.op # "bye" => \E a : AnswerRight(x, r, a) /\ answers' = Append(answers, a)
      /\ UNCHANGED <<vf, req, outP, late, hasty>>
  BY <1>1, ReceivedIs
<1>3. PICK v, k, d, m, s : v = vf[f] /\ k = Known(f) /\ d = Dev(f) /\ m = fmap[f] /\ s = (late # {})
  OBVIOUS
<1>4. InStep(f, v, req[f], x, k, d, m, answers, outP, s)
  BY <1>1, <1>3, InStepOf, Zenon
<1>5. vf'[f] = v /\ req'[f] = req[f] /\ outP' = outP /\ s = (late' # {})
  BY <1>2, <1>3
<1>6. PICK D : D = DOMAIN pool'.dev
  OBVIOUS
<1>7. PICK d2, m2 : d2 = DeviceOf(pool'.dev, f) /\ m2 = fmap'[f]
  OBVIOUS
<1>8. CASE x.op = "bye"
  <2>1. f \notin D
    <3>1. f \notin DOMAIN r.pool.dev
      BY <1>1, <1>2, <1>8, ByeDone
    <3> QED
      BY <1>2, <1>6, <3>1, Zenon
  <2>2. Left(f \in D, Empty)
    BY <2>1, Zenon DEF Left
  <2>3. "bye" # "none" /\ ~(\E op \in Work : op = "bye")
    BY DEF Work
  <2>4. InStep(f, v, req[f], Empty, f \in D, d2, m2, answers, outP, s)
    <3>1. CASE req[f].place = "none" /\ NoMail(answers, outP, f) /\ Calm(v, x, k, d, m)
      BY <1>2, <2>2, <3>1, Zenon DEF InStep, Calm
    <3>2. CASE req[f].place = "todo" /\ NoMail(answers, outP, f) /\ Ready(v, x, k, d, m)
      BY <1>2, <2>2, <3>2, Zenon DEF InStep, Ready
    <3>3. CASE req[f].place = "pend" /\ NoMail(answers, outP, f) /\ Sent(f, v, x, k, d, m)
      <4>1. x.op # "bye"
        <5>1. vf[f].plan # <<>>
          <6>1. req[f].place \in {"todo", "pend", "matched"}
            BY <3>3
          <6> QED
            BY <6>1, WaitsIs, Zenon
        <5>2. Sent(f, vf[f], x, Known(f), Dev(f), fmap[f])
          BY <1>3, <3>3, Zenon
        <5>3. AnswerRight(x, r, Answer(x, r))
          BY <1>1, <1>2, AnswerIs
        <5> QED
          BY <1>1, <1>2, <5>1, <5>2, <5>3, SentAnswered
      <4> QED
        BY <1>8, <4>1
    <3> QED
      BY <1>2, <1>4, <3>1, <3>2, <3>3, Zenon DEF InStep
  <2>5. Within(f \in D, d2.entry, m2)
    BY <2>1, Zenon DEF Within
  <2>6. answers' = answers
    BY <1>2, <1>8, Zenon
  <2>7. AgreedNext(f)
    <3>1. InStep(f, v, req[f], Empty, f \in D, d2, m2, answers', outP, s) /\ Within(f \in D, d2.entry, m2)
      BY <2>4, <2>5, <2>6, Zenon
    <3> QED
      BY <1>2, <1>5, <1>7, <1>6, <3>1, Zenon DEF AgreedNext
  <2> QED
    BY <2>7
<1>9. CASE x.op # "bye"
  <2>1. PICK a : AnswerRight(x, r, a) /\ answers' = Append(answers, a)
    BY <1>2, <1>9, Zenon
  <2>2. req[f].place = "pend" /\ NoMail(answers, outP, f) /\ Sent(f, v, x, k, d, m)
    <3>1. ~Left(k, x)
      BY <1>2, <1>9, Zenon DEF Left
    <3> QED
      BY <1>2, <1>4, <3>1, Zenon DEF InStep, Calm, Ready
  <2>3. Answered(f, v, r, a)
    <3>1. vf[f].plan # <<>>
      <4>1. req[f].place \in {"todo", "pend", "matched"}
        BY <2>2
      <4> QED
        BY <4>1, WaitsIs, Zenon
    <3>2. Sent(f, vf[f], x, Known(f), Dev(f), fmap[f])
      BY <1>3, <2>2, Zenon
    <3>3. Answered(f, vf[f], r, a)
      BY <1>1, <1>2, <2>1, <3>1, <3>2, SentAnswered
    <3> QED
      BY <1>3, <3>3, Zenon
  <2>4. f \in DOMAIN pool'.dev /\ After(v, d2, m2, a) /\ Within(TRUE, d2.entry, m2)
    BY <1>2, <1>7, <2>3, Zenon DEF Answered
  <2>5. f \in D
    BY <1>6, <2>4, Zenon
  <2>6. OneMail(answers', outP, f, a) /\ a \in Reply
    <3>1. a \in Reply /\ a.to = f /\ answers \in Seq(Reply)
      BY <1>2, <2>1, WiresAre, Zenon DEF AnswerRight
    <3>2. PICK ans2 : ans2 = answers'
      OBVIOUS
    <3>3. OneMail(ans2, outP, f, a)
      BY <2>1, <2>2, <3>1, <3>2, MailAdded
    <3> QED
      BY <3>1, <3>2, <3>3, Zenon
  <2>7. InStep(f, v, req[f], Empty, f \in D, d2, m2, answers', outP, s) /\ Within(f \in D, d2.entry, m2)
    BY <2>2, <2>4, <2>5, <2>6, Zenon DEF InStep
  <2> QED
    BY <1>2, <1>5, <1>7, <1>6, <2>7, Zenon DEF AgreedNext
<1> QED
  BY <1>8, <1>9

LEMMA ReceivedUntouched ==
  ASSUME Types, NEW f \in VF, PfRx(f), NEW g \in VF, g # f
  PROVE  Untouched(g)
<1>1. PICK x, r : x = outV[f] /\ r = Handled(x)
  OBVIOUS
<1>2. /\ x \in Packet /\ x.src = f /\ pool' = r.pool /\ fmap' = r.fmap
      /\ Elsewhere(f, r.pool, r.fmap) /\ outV'[g] = outV[g]
      /\ x.op = "bye" => answers' = answers
      /\ x.op # "bye" => \E a : AnswerRight(x, r, a) /\ answers' = Append(answers, a)
      /\ UNCHANGED <<vf, req, outP>>
  BY <1>1, ReceivedIs
<1>3. MailKept(answers, outP, answers', outP', g, late' # {})
  <2>1. PICK s, ans2 : s = (late' # {}) /\ ans2 = answers'
    OBVIOUS
  <2>2. MailKept(answers, outP, ans2, outP, g, s)
    <3>1. CASE x.op = "bye"
      BY <1>2, <2>1, <3>1, MailSame, Zenon
    <3>2. CASE x.op # "bye"
      <4>1. PICK a : AnswerRight(x, r, a) /\ answers' = Append(answers, a)
        BY <1>2, <3>2, Zenon
      <4>2. a \in Reply /\ a.to # g /\ answers \in Seq(Reply) /\ ans2 = Append(answers, a)
        BY <1>2, <2>1, <4>1, WiresAre, Zenon DEF AnswerRight
      <4> QED
        BY <4>2, MailAdded
    <3> QED
      BY <3>1, <3>2
  <2> QED
    BY <1>2, <2>1, <2>2, Zenon
<1>4. /\ g \in DOMAIN pool'.dev <=> g \in DOMAIN pool.dev
      /\ DeviceOf(pool'.dev, g) = DeviceOf(pool.dev, g)
      /\ fmap'[g] = fmap[g]
  BY <1>2, Zenon DEF Elsewhere
<1> QED
  BY <1>2, <1>3, <1>4, Zenon DEF Untouched

LEMMA PfRxAgreed ==
  ASSUME Types, Agreement, NEW f \in VF, PfRx(f)
  PROVE  Agreement'
<1>2. UNCHANGED <<late, hasty>>
  BY ReceivedIs
<1>3. ASSUME NEW g \in VF, g # f
      PROVE  Untouched(g)
  BY <1>3, ReceivedUntouched
<1>4. late' = late /\ hasty' = hasty /\ late \subseteq late' /\ hasty \subseteq hasty'
  BY <1>2
<1>5. f \in VF \ Strays' => AgreedNext(f)
  BY <1>4, PfRxOwn DEF Strays
<1> QED
  BY <1>3, <1>4, <1>5, AgreementOf

LEMMA SentKept ==
  ASSUME Types, PfSend, NEW g \in VF
  PROVE  MailKept(answers, outP, answers', outP', g, late' # {})
<1>1. /\ answers # <<>> /\ outP = Empty /\ answers' = Tail(answers) /\ outP' \in Reply /\ Same(outP', answers[1])
      /\ outP'.to = answers[1].to
  BY SendIs, Zenon
<1>2. PICK s, ans2, out2 : s = (late' # {}) /\ ans2 = answers' /\ out2 = outP'
  OBVIOUS
<1>3. answers \in Seq(Reply) /\ ans2 = Tail(answers) /\ out2 \in Reply /\ Same(out2, answers[1]) /\ out2.to = answers[1].to
  BY <1>1, <1>2, WiresAre, Zenon
<1>4. MailKept(answers, Empty, ans2, out2, g, s)
  BY <1>1, <1>3, MailSent
<1> QED
  BY <1>1, <1>2, <1>4, Zenon

LEMMA PfSendAgreed ==
  ASSUME Types, Agreement, PfSend
  PROVE  Agreement'
<1>1. UNCHANGED <<pool, fmap, vf, req, outV, late, hasty>>
  BY SendIs, Zenon
<1> QED
  BY <1>1, SentKept, AgreementSent

-----------------------------------------------------------------------------
(* The places of the messages, while nobody is late, whoever went on too early. *)

LEMMA MailedKept ==
  ASSUME NEW g, NEW v, NEW r, NEW o, NEW k, NEW ans, NEW out, NEW ans2, NEW out2, NEW s, ~s,
         Mailed(g, v, r, o, k, ans, out), MailKept(ans, out, ans2, out2, g, s)
  PROVE  Mailed(g, v, r, o, k, ans2, out2)
<1>1. NoMail(ans, out, g) => NoMail(ans2, out2, g)
  BY Zenon DEF MailKept
<1>2. \A a \in Reply : OneMail(ans, out, g, a) => OneMail(ans2, out2, g, a)
  BY Zenon DEF MailKept
<1> QED
  BY <1>1, <1>2, Zenon DEF Mailed

LEMMA DeliveredKept ==
  ASSUME NEW g, Delivered(g), Untouched(g), late' = {}
  PROVE  DeliveredNext(g)
<1>1. PICK s, k, k2 : s = (late' # {}) /\ k = Known(g) /\ k2 = (g \in DOMAIN pool'.dev)
  OBVIOUS
<1>2. ~s
  BY <1>1
<1>3. MailKept(answers, outP, answers', outP', g, s)
  BY <1>1, Zenon DEF Untouched
<1>4. Mailed(g, vf[g], req[g], outV[g], k, answers', outP')
  BY <1>1, <1>2, <1>3, MailedKept DEF Delivered
<1>5. k2 = k
  <2>1. (g \in DOMAIN pool'.dev) <=> (g \in DOMAIN pool.dev)
    BY Zenon DEF Untouched
  <2> QED
    BY <1>1, <2>1 DEF Known
<1> QED
  BY <1>1, <1>4, <1>5, Zenon DEF DeliveredNext, Untouched

LEMMA DeliveryOf ==
  ASSUME Delivery, late \subseteq late', hasty' \subseteq VF, NEW f \in VF,
         late' = {} => DeliveredNext(f), \A g \in VF : g # f => Untouched(g)
  PROVE  Delivery'
<1>1. ASSUME late' = {}, NEW g \in VF
      PROVE  DeliveredNext(g)
  <2>1. late = {}
    BY <1>1
  <2>2. Delivered(g)
    BY <1>1, <2>1, Zenon DEF Delivery
  <2> QED
    BY <1>1, <2>2, DeliveredKept, Zenon
<1> QED
  BY <1>1, Zenon DEF Delivery, Delivered, DeliveredNext, Known

LEMMA DeliverySent ==
  ASSUME Delivery, UNCHANGED <<pool, fmap, vf, req, outV, late, hasty>>,
         \A g \in VF : MailKept(answers, outP, answers', outP', g, late' # {})
  PROVE  Delivery'
<1>1. \A g \in VF : Untouched(g)
  BY Zenon DEF Untouched
<1>2. ASSUME late' = {}, NEW g \in VF
      PROVE  DeliveredNext(g)
  <2>1. late = {}
    BY <1>2
  <2>2. Delivered(g)
    BY <1>2, <2>1, Zenon DEF Delivery
  <2> QED
    BY <1>1, <1>2, <2>2, DeliveredKept, Zenon
<1>3. hasty' \subseteq VF
  BY DEF Delivery
<1> QED
  BY <1>2, <1>3, Zenon DEF Delivery, Delivered, DeliveredNext, Known

LEMMA DeliveryMoved ==
  ASSUME Delivery, late \subseteq late', hasty' \subseteq VF, NEW f \in VF, NEW w, NEW r, Moves(f, w, r),
         UNCHANGED <<pool, fmap, answers>>, \A g \in VF : g # f => outV'[g] = outV[g],
         outP' = outP \/ (outP' = Empty /\ OutTo(outP, f)),
         late' = {} => Mailed(f, w, r, outV'[f], Known(f), answers, outP')
  PROVE  Delivery'
<1>1. \A g \in VF : g # f => Untouched(g)
  BY OthersUntouched
<1>2. ASSUME late' = {}
      PROVE  DeliveredNext(f)
  BY <1>2, Zenon DEF DeliveredNext, Moves, Known
<1> QED
  BY <1>1, <1>2, DeliveryOf

(* A request that waits is one that is answered. *)
LEMMA PendIs ==
  ASSUME Types, NEW f \in VF, req[f].place = "pend"
  PROVE  /\ req[f].msg.op = "hello" \/ req[f].msg.op \in Work
         /\ req[f].msg.op # "bye"
         /\ Starting(vf[f]) \/ Works(vf[f])
<1>1. req[f].place \in {"todo", "pend", "matched"} /\ req[f].place # "todo"
  OBVIOUS
<1>2. Starting(vf[f]) \/ Works(vf[f])
  BY <1>1, WaitsIs, Zenon
<1>3. req[f].msg.op = "hello" \/ req[f].msg.op \in Work
  BY <1>1, <1>2, WaitsIs, Zenon
<1>4. "bye" # "hello" /\ "bye" \notin Work
  BY DEF Work
<1> QED
  BY <1>2, <1>3, <1>4, Zenon

LEMMA DeliveredIs ==
  ASSUME Delivery, late = {}, NEW f \in VF
  PROVE  /\ req[f].place = "none" => NoMail(answers, outP, f) /\ Resting(vf[f], outV[f], Known(f))
         /\ req[f].place = "todo" => NoMail(answers, outP, f) /\ Sending(vf[f], outV[f], Known(f))
         /\ req[f].place = "matched" => NoMail(answers, outP, f) /\ outV[f] = Empty /\ Known(f)
         /\ OutTo(outP, f) => req[f].place = "pend" /\ outV[f] = Empty /\ Known(f)
                              /\ \E a \in Reply : OneMail(answers, outP, f, a) /\ a.op = req[f].msg.op
<1>1. Mailed(f, vf[f], req[f], outV[f], Known(f), answers, outP)
  BY Zenon DEF Delivery, Delivered
<1>2. req[f].place = "none" => NoMail(answers, outP, f) /\ Resting(vf[f], outV[f], Known(f))
  BY <1>1, PlacesDiffer, Zenon DEF Mailed
<1>3. req[f].place = "todo" => NoMail(answers, outP, f) /\ Sending(vf[f], outV[f], Known(f))
  BY <1>1, PlacesDiffer, Zenon DEF Mailed
<1>4. req[f].place = "matched" => NoMail(answers, outP, f) /\ outV[f] = Empty /\ Known(f)
  BY <1>1, PlacesDiffer, Zenon DEF Mailed
<1>5. OutTo(outP, f) => ~NoMail(answers, outP, f)
  BY Zenon DEF NoMail
<1> QED
  BY <1>1, <1>2, <1>3, <1>4, <1>5, Zenon DEF Mailed

(* A call that goes on, of a function that the PF knows. *)
LEMMA ProceedDelivered ==
  ASSUME Types, Delivery, NEW f \in VF, Called(f), UNCHANGED <<pool, fmap, answers>>, outV' = outV, outP' = outP,
         late \subseteq late', hasty' \subseteq VF,
         late' = {} => outV[f] = Empty /\ Known(f) /\ NoMail(answers, outP, f)
  PROVE  Delivery'
<1>1. PICK v \in Driver : Goes(v) /\ v.state \in {"on", "leaving"} /\ Proceed(f, v)
  BY Zenon DEF Called
<1>2. PICK w : w = Onward(v)
  OBVIOUS
<1>3. PICK r : r = Next1(f, w)
  OBVIOUS
<1>4. Moves(f, w, r)
  BY <1>1, <1>2, <1>3, ProceedIs, Zenon DEF Types
<1>5. w.state \in {"on", "leaving"} /\ (Starting(w) \/ Works(w) \/ Leaves(w) \/ Rests(w))
  BY <1>1, <1>2, OnwardTypes, Zenon
<1>6. "starting" \notin {"on", "leaving"}
  OBVIOUS
<1>7. (r.place = "none" /\ w.state = "on") \/ (r.place = "todo" /\ w.state # "starting")
  <2>1. CASE w.plan = <<>>
    <3>1. <<Message("bye")>> # <<>>
      BY MessageIs, OneOf DEF Ops
    <3>2. w.state = "on"
      BY <1>5, <1>6, <2>1, <3>1, Zenon DEF Starting, Works, Leaves, Rests
    <3> QED
      BY <1>3, <2>1, <3>2, NextIs, Zenon
  <2>2. CASE w.plan # <<>>
    BY <1>3, <1>5, <1>6, <2>2, NextIs, Zenon
  <2> QED
    BY <2>1, <2>2
<1>8. ASSUME late' = {}
      PROVE  Mailed(f, w, r, outV'[f], Known(f), answers, outP')
  <2>1. outV[f] = Empty /\ Known(f) /\ NoMail(answers, outP, f)
    BY <1>8
  <2>2. Mailed(f, w, r, outV[f], Known(f), answers, outP)
    BY <1>7, <2>1, Zenon DEF Mailed, Resting, Sending
  <2> QED
    BY <2>2, Zenon
<1>9. \A g \in VF : g # f => outV'[g] = outV[g]
  BY Zenon
<1> QED
  BY <1>4, <1>8, <1>9, DeliveryMoved

LEMMA IdleDelivered ==
  ASSUME Types, Delivery, NEW f \in VF, Idle(f), Called(f),
         UNCHANGED <<pool, fmap, answers>>, outV' = outV, outP' = outP, late' = late, hasty' = hasty
  PROVE  Delivery'
<1>1. req[f].place = "none" /\ vf[f].state = "on"
  BY IdleIs, Zenon DEF Rests
<1>2. late' = {} => outV[f] = Empty /\ Known(f) /\ NoMail(answers, outP, f)
  BY <1>1, DeliveredIs, Zenon DEF Resting
<1>3. hasty' \subseteq VF /\ late \subseteq late'
  BY DEF Delivery
<1> QED
  BY <1>2, <1>3, ProceedDelivered

LEMMA WakeDelivered ==
  ASSUME Types, Delivery, NEW f \in VF, EarlyWake(f) \/ VfWake(f)
  PROVE  Delivery'
<1>1. Called(f)
  BY EarlyWakeTypes, VfWakeTypes
<1>2. /\ req[f].place = "matched" /\ UNCHANGED <<pool, fmap, answers>> /\ outV' = outV /\ outP' = outP /\ late' = late
      /\ hasty' = hasty \/ hasty' = hasty \cup {f}
  BY Zenon DEF EarlyWake, VfWake
<1>3. late' = {} => outV[f] = Empty /\ Known(f) /\ NoMail(answers, outP, f)
  BY <1>2, DeliveredIs, Zenon
<1>4. hasty' \subseteq VF /\ late \subseteq late'
  BY <1>2 DEF Delivery
<1> QED
  BY <1>1, <1>2, <1>3, <1>4, ProceedDelivered

(* A function that is not used has no request. *)
LEMMA OffWaits ==
  ASSUME Types, NEW f \in VF, vf[f].state = "off"
  PROVE  req[f].place = "none"
<1>1. ~Starting(vf[f]) /\ ~Leaves(vf[f]) /\ ~Works(vf[f])
  <2>1. "off" # "starting" /\ "off" # "leaving" /\ "off" # "on" /\ "off" \notin {"on", "leaving"}
    OBVIOUS
  <2> QED
    BY <2>1, Zenon DEF Starting, Leaves, Works
<1>2. req[f] = Nothing
  BY <1>1, CallerIs, Zenon DEF CallerRight
<1> QED
  BY <1>2 DEF Nothing

LEMMA LoadDelivered ==
  ASSUME Types, Delivery, NEW f \in VF, Load(f)
  PROVE  Delivery'
<1>1. PICK v : v = [Off EXCEPT !.state = "starting", !.plan = <<Message("hello")>>]
  OBVIOUS
<1>2. v \in Driver /\ Begun(v) /\ v.plan # <<>>
  BY <1>1, Opening
<1>3. /\ Proceed(f, v) /\ vf[f].state = "off" /\ UNCHANGED <<pool, fmap, answers>> /\ outV' = outV
      /\ late' = late /\ hasty' = hasty
      /\ outP' = IF outP # Empty /\ outP.to = f THEN Empty ELSE outP
  BY <1>1, Zenon DEF Load
<1>4. PICK w : w = Onward(v)
  OBVIOUS
<1>5. PICK r : r = Next1(f, w)
  OBVIOUS
<1>6. Moves(f, w, r)
  BY <1>3, <1>4, <1>5, ProceedIs, Zenon DEF Types
<1>7. OnwardRight(v, w)
  BY <1>2, <1>4, OnwardIs
<1>8. w.state = "starting" /\ r.place = "todo"
  BY <1>2, <1>5, <1>7, NextIs, Zenon DEF OnwardRight, Begun, Starting
<1>9. outP' = outP \/ (outP' = Empty /\ OutTo(outP, f))
  BY <1>3, Zenon DEF OutTo
<1>10. ASSUME late' = {}
       PROVE  Mailed(f, w, r, outV'[f], Known(f), answers, outP')
  <2>1. req[f].place = "none" /\ late = {} /\ "off" # "on"
    BY <1>3, <1>10, OffWaits
  <2>2. NoMail(answers, outP, f) /\ Left(Known(f), outV[f])
    BY <1>3, <2>1, DeliveredIs, Zenon DEF Resting
  <2>3. outP' = outP
    BY <1>9, <2>2, Zenon DEF NoMail
  <2> QED
    BY <1>3, <1>8, <2>2, <2>3, Zenon DEF Mailed, Sending
<1>11. late \subseteq late' /\ hasty' \subseteq VF
  BY <1>3 DEF Delivery
<1>12. \A g \in VF : g # f => outV'[g] = outV[g]
  BY <1>3, Zenon
<1> QED
  BY <1>3, <1>6, <1>9, <1>10, <1>11, <1>12, DeliveryMoved

LEMMA StoppedDelivered ==
  ASSUME Types, Delivery, NEW f \in VF, Stopped(f)
  PROVE  Delivery'
<1>1. Moves(f, Off, Nothing)
  BY StoppedTypes
<1>2. /\ UNCHANGED <<pool, fmap, answers>> /\ outV' = outV /\ outP' = outP /\ late' = late /\ hasty' = hasty
      /\ vf[f].state = "leaving" /\ req[f] = Nothing
  BY Zenon DEF Stopped
<1>3. ASSUME late' = {}
      PROVE  Mailed(f, Off, Nothing, outV'[f], Known(f), answers, outP')
  <2>1. req[f].place = "none" /\ Nothing.place = "none" /\ late = {}
    BY <1>2, <1>3 DEF Nothing
  <2>2. "leaving" # "on" /\ Off.state # "on"
    <3>1. "off" # "on" /\ "leaving" # "on"
      OBVIOUS
    <3> QED
      BY <3>1, OffIs, Zenon DEF Has
  <2>3. NoMail(answers, outP, f) /\ Left(Known(f), outV[f])
    BY <1>2, <2>1, <2>2, DeliveredIs, Zenon DEF Resting
  <2> QED
    BY <1>2, <2>1, <2>2, <2>3, Zenon DEF Mailed, Resting
<1>4. late \subseteq late' /\ hasty' \subseteq VF
  BY <1>2 DEF Delivery
<1>5. \A g \in VF : g # f => outV'[g] = outV[g]
  BY <1>2, Zenon
<1> QED
  BY <1>1, <1>2, <1>3, <1>4, <1>5, DeliveryMoved

(* As soon as somebody is late, nothing is claimed any more. *)
LEMMA LateDelivered ==
  ASSUME Delivery, NEW f \in VF, Expire(f) \/ Vanish(f)
  PROVE  Delivery'
<1>1. late' = late \cup {f} /\ hasty' = hasty
  BY Zenon DEF Expire, Vanish
<1>2. late' # {} /\ hasty' \subseteq VF
  BY <1>1 DEF Delivery
<1> QED
  BY <1>2, Zenon DEF Delivery

LEMMA VfTxDelivered ==
  ASSUME Types, Delivery, NEW f \in VF, VfTx(f)
  PROVE  Delivery'
<1>1. /\ req[f].place = "todo" /\ outV[f] = Empty /\ outV' = [outV EXCEPT ![f] = req[f].msg]
      /\ UNCHANGED <<pool, fmap, answers>> /\ outP' = outP /\ late' = late /\ hasty' = hasty
  BY Zenon DEF VfTx
<1>2. PICK o, v, k : o = req[f].msg /\ v = vf[f] /\ k = Known(f)
  OBVIOUS
<1>3. outV'[f] = o /\ \A g \in VF : g # f => outV'[g] = outV[g]
  BY <1>1, <1>2, Zenon DEF Types, Wires
<1>4. PICK r : /\ Moves(f, v, r)
               /\ o.op = "bye" => r = Nothing
               /\ o.op # "bye" => r.place = "pend" /\ r.msg = o
  BY <1>2, VfTxMoves
<1>5. /\ Leaves(v) => o.op = "bye"
      /\ Starting(v) => o.op = "hello"
      /\ Works(v) => o.op \in Work
      /\ Starting(v) \/ Leaves(v) \/ Works(v)
  <2>1. req[f].place \in {"todo", "pend", "matched"}
    BY <1>1
  <2> QED
    BY <1>2, <2>1, WaitsIs, Zenon
<1>6. /\ "hello" # "bye" /\ "bye" \notin Work /\ "hello" \notin Work
      /\ "starting" \notin {"on", "leaving"} /\ "leaving" # "on" /\ "leaving" # "starting"
  BY DEF Work
<1>7. ASSUME late' = {}
      PROVE  Mailed(f, v, r, o, k, answers, outP)
  <2>1. NoMail(answers, outP, f) /\ Sending(v, Empty, k)
    BY <1>1, <1>2, <1>7, DeliveredIs, Zenon
  <2>2. Left(k, Empty) => ~k
    BY DEF Left, Empty
  <2>3. CASE o.op = "bye"
    <3>1. Leaves(v)
      BY <1>5, <1>6, <2>3, Zenon
    <3>2. v.state = "leaving" /\ k
      BY <1>6, <2>1, <3>1, Zenon DEF Leaves, Sending
    <3>3. r.place = "none"
      BY <1>4, <2>3 DEF Nothing
    <3> QED
      BY <1>6, <2>1, <2>3, <3>2, <3>3, Zenon DEF Mailed, Resting, Left
  <2>4. CASE o.op # "bye"
    <3>1. k <=> o.op # "hello"
      <4>1. CASE Starting(v)
        BY <1>5, <2>1, <2>2, <4>1, Zenon DEF Starting, Sending
      <4>2. CASE Works(v)
        <5>1. v.state # "starting" /\ o.op # "hello"
          BY <1>5, <1>6, <4>2, Zenon DEF Works
        <5> QED
          BY <2>1, <5>1, Zenon DEF Sending
      <4> QED
        BY <1>5, <2>4, <4>1, <4>2
    <3> QED
      BY <1>4, <2>1, <2>4, <3>1, Zenon DEF Mailed
  <2> QED
    BY <2>3, <2>4
<1>8. late' = {} => Mailed(f, v, r, outV'[f], Known(f), answers, outP')
  BY <1>1, <1>2, <1>3, <1>7, Zenon
<1>9. late \subseteq late' /\ hasty' \subseteq VF
  BY <1>1 DEF Delivery
<1> QED
  BY <1>1, <1>3, <1>4, <1>8, <1>9, DeliveryMoved

LEMMA VfRxDelivered ==
  ASSUME Types, Delivery, NEW f \in VF, VfRx(f)
  PROVE  Delivery'
<1>1. /\ UNCHANGED <<pool, fmap, answers>> /\ outV' = outV /\ outP' = Empty /\ late' = late /\ hasty' = hasty
  BY Zenon DEF VfRx
<1>2. OutTo(outP, f) /\ outP \in Reply
  BY VfRxTypes, Zenon
<1>3. late \subseteq late' /\ hasty' \subseteq VF
  BY <1>1 DEF Delivery
<1>4. \A g \in VF : g # f => outV'[g] = outV[g]
  BY <1>1, Zenon
<1>5. CASE late' # {}
  <2>1. \E r : Moves(f, vf[f], r)
    BY VfRxTypes, Zenon
  <2> QED
    BY <1>1, <1>2, <1>3, <1>4, <1>5, <2>1, DeliveryMoved
<1>6. CASE late' = {}
  <2>1. late = {}
    BY <1>1, <1>6
  <2>2. /\ req[f].place = "pend" /\ outV[f] = Empty /\ Known(f)
        /\ \E a \in Reply : OneMail(answers, outP, f, a) /\ a.op = req[f].msg.op
    BY <1>2, <2>1, DeliveredIs, Zenon
  <2>3. PICK a \in Reply : OneMail(answers, outP, f, a) /\ a.op = req[f].msg.op
    BY <2>2, Zenon
  <2>4. NoMail(answers, Empty, f) /\ Same(outP, a)
    BY <1>2, <2>3, MailTaken, Zenon
  <2>5. req[f].msg.op = outP.op
    BY <2>3, <2>4, Zenon DEF Same
  <2>6. PICK r : Moves(f, vf[f], r) /\ r.place = "matched"
    BY <2>2, <2>5, VfRxTypes, Zenon
  <2>7. Mailed(f, vf[f], r, outV'[f], Known(f), answers, outP')
    BY <1>1, <2>2, <2>4, <2>6, Zenon DEF Mailed
  <2> QED
    BY <1>1, <1>2, <1>3, <1>4, <2>6, <2>7, DeliveryMoved
<1> QED
  BY <1>5, <1>6

(* The step of the PF that takes a message of f: f itself. *)
LEMMA PfRxMailed ==
  ASSUME Types, Delivery, late = {}, NEW f \in VF, PfRx(f)
  PROVE  DeliveredNext(f)
<1>1. PICK x, r, k : x = outV[f] /\ r = Handled(x) /\ k = Known(f)
  OBVIOUS
<1>2. /\ x \in Packet /\ x.src = f /\ x # Empty /\ pool' = r.pool /\ outV'[f] = Empty
      /\ x.op = "bye" => answers' = answers
      /\ x.op # "bye" => \E a : AnswerRight(x, r, a) /\ answers' = Append(answers, a)
      /\ UNCHANGED <<vf, req, outP>>
  BY <1>1, ReceivedIs
<1>3. Mailed(f, vf[f], req[f], x, k, answers, outP)
  BY <1>1, Zenon DEF Delivery, Delivered
<1>4. PICK D : D = DOMAIN pool'.dev
  OBVIOUS
<1>5. ASSUME Mailed(f, vf[f], req[f], Empty, f \in D, answers', outP)
      PROVE  DeliveredNext(f)
  BY <1>2, <1>4, <1>5, Zenon DEF DeliveredNext
<1>6. CASE x.op = "bye"
  <2>1. f \notin D
    <3>1. f \notin DOMAIN r.pool.dev
      BY <1>1, <1>2, <1>6, ByeDone
    <3> QED
      BY <1>2, <1>4, <3>1, Zenon
  <2>2. ~(req[f].place = "pend" /\ x = req[f].msg)
    BY <1>6, PendIs, Zenon
  <2>3. Left(f \in D, Empty)
    BY <2>1, Zenon DEF Left
  <2>4. /\ NoMail(answers, outP, f)
        /\ \/ req[f].place = "none" /\ vf[f].state # "on"
           \/ req[f].place = "todo" /\ vf[f].state = "starting"
    BY <1>2, <1>3, <2>2, Zenon DEF Mailed, Resting, Sending
  <2>5. Mailed(f, vf[f], req[f], Empty, f \in D, answers, outP)
    BY <2>3, <2>4, Zenon DEF Mailed, Resting, Sending
  <2> QED
    BY <1>2, <1>5, <1>6, <2>5, Zenon
<1>7. CASE x.op # "bye"
  <2>1. PICK a : AnswerRight(x, r, a) /\ answers' = Append(answers, a)
    BY <1>2, <1>7, Zenon
  <2>2. req[f].place = "pend" /\ NoMail(answers, outP, f) /\ x = req[f].msg /\ (k <=> x.op # "hello")
    <3>1. ~Left(k, x)
      BY <1>2, <1>7, Zenon DEF Left
    <3> QED
      BY <1>2, <1>3, <3>1, Zenon DEF Mailed, Resting, Sending
  <2>3. f \in D
    <3>1. x.op = "hello" \/ x.op \in Work
      BY <2>2, PendIs, Zenon
    <3>2. CASE x.op = "hello"
      <4>1. f \in DOMAIN r.pool.dev
        BY <1>1, <1>2, <3>2, HelloDone
      <4> QED
        BY <1>2, <1>4, <4>1, Zenon
    <3>3. CASE x.op # "hello"
      <4>1. DOMAIN r.pool.dev = DOMAIN pool.dev
        BY <1>1, <1>2, <3>1, <3>3, HandledIs
      <4>2. f \in DOMAIN pool.dev
        BY <1>1, <2>2, <3>3, Zenon DEF Known
      <4> QED
        BY <1>2, <1>4, <4>1, <4>2, Zenon
    <3> QED
      BY <3>2, <3>3
  <2>4. OneMail(answers', outP, f, a) /\ a \in Reply /\ a.op = req[f].msg.op
    <3>1. a \in Reply /\ a.to = f /\ a.op = x.op /\ answers \in Seq(Reply)
      BY <1>2, <2>1, WiresAre, Zenon DEF AnswerRight
    <3>2. PICK ans2 : ans2 = answers'
      OBVIOUS
    <3>3. OneMail(ans2, outP, f, a)
      BY <2>1, <2>2, <3>1, <3>2, MailAdded
    <3> QED
      BY <2>2, <3>1, <3>2, <3>3, Zenon
  <2>5. Mailed(f, vf[f], req[f], Empty, f \in D, answers', outP)
    BY <2>2, <2>3, <2>4, Zenon DEF Mailed
  <2> QED
    BY <1>5, <2>5
<1> QED
  BY <1>6, <1>7

LEMMA PfRxDelivered ==
  ASSUME Types, Delivery, NEW f \in VF, PfRx(f)
  PROVE  Delivery'
<1>1. late' = late /\ hasty' = hasty
  BY ReceivedIs
<1>2. late \subseteq late' /\ hasty' \subseteq VF /\ (late' = {} => late = {})
  BY <1>1 DEF Delivery
<1>3. late' = {} => DeliveredNext(f)
  BY <1>2, PfRxMailed
<1>4. \A g \in VF : g # f => Untouched(g)
  BY ReceivedUntouched
<1> QED
  BY <1>2, <1>3, <1>4, DeliveryOf

(* An answer in the register is to a function that runs. *)
LEMMA Awaited ==
  ASSUME Types, Delivery, late = {}, outP # Empty
  PROVE  vf[outP.to].state # "off"
<1>1. PICK f : f = outP.to
  OBVIOUS
<1>2. outP \in Reply /\ f \in VF
  BY <1>1, WiresAre, ReplyIs
<1>3. OutTo(outP, f)
  BY <1>1, Zenon DEF OutTo
<1>4. req[f].place = "pend"
  BY <1>2, <1>3, DeliveredIs, Zenon
<1>5. Starting(vf[f]) \/ Works(vf[f])
  BY <1>2, <1>4, PendIs, Zenon
<1>6. "off" # "starting" /\ "off" \notin {"on", "leaving"}
  OBVIOUS
<1> QED
  BY <1>1, <1>5, <1>6, Zenon DEF Starting, Works

(* As long as nobody is late, no answer is given up. *)
LEMMA NotDropped ==
  ASSUME Types, Delivery, Punctual, PfRetry, late = {}
  PROVE  answers[1].retry # 1 /\ outP.retry < Lag
<1>1. /\ answers # <<>> /\ outP \in Reply
      /\ vf[outP.to].state # "off" => outP.retry < Lag
  BY RetryIs
<1>2. outP # Empty
  BY <1>1, ReplyIs
<1>3. outP.retry < Lag
  BY <1>1, <1>2, Awaited
<1>4. answers[1].retry + outP.retry = RetryCnt /\ outP.retry \in 0..Lag /\ answers[1].retry \in (RetryCnt - Lag)..RetryCnt
  BY <1>1, <1>2 DEF Punctual, Paced
<1> QED
  BY <1>3, <1>4, MailboxAssumption

LEMMA RetriedKept ==
  ASSUME Types, Delivery, Punctual, PfRetry, NEW g \in VF
  PROVE  MailKept(answers, outP, answers', outP', g, late' # {})
<1>1. /\ answers # <<>> /\ outP \in Reply /\ outP' \in Reply /\ Same(outP', outP) /\ outP'.to = outP.to
      /\ answers[1].retry = 1 => answers' = Tail(answers)
      /\ answers[1].retry # 1 =>
           /\ Len(answers') = Len(answers) /\ answers'[1] \in Reply /\ Same(answers'[1], answers[1])
           /\ answers'[1].to = answers[1].to
           /\ \A i \in 2..Len(answers) : answers'[i] = answers[i]
      /\ UNCHANGED <<pool, fmap, sriov, vf, req, outV, late, hasty>>
  BY RetryIs, Zenon
<1>2. PICK s, ans2, out2 : s = (late' # {}) /\ ans2 = answers' /\ out2 = outP'
  OBVIOUS
<1>3. answers \in Seq(Reply) /\ ans2 \in Seq(Reply)
  <2>1. Types'
    BY RetryIs, Zenon
  <2>2. answers' \in Seq(Reply)
    BY <2>1, Zenon DEF Types, Wires
  <2> QED
    BY <1>2, <2>2, WiresAre, Zenon
<1>4. MailKept(answers, outP, ans2, out2, g, s)
  <2>1. CASE answers[1].retry = 1
    <3>1. s
      BY <1>1, <1>2, <2>1, NotDropped
    <3>2. ans2 = Tail(answers) /\ out2 \in Reply /\ Same(out2, outP) /\ out2.to = outP.to
      BY <1>1, <1>2, <2>1, Zenon
    <3> QED
      BY <1>1, <1>3, <3>1, <3>2, MailDropped
  <2>2. CASE answers[1].retry # 1
    <3>1. /\ Len(ans2) = Len(answers) /\ Same(ans2[1], answers[1]) /\ ans2[1].to = answers[1].to
          /\ \A i \in 2..Len(answers) : ans2[i] = answers[i]
      BY <1>1, <1>2, <2>2, Zenon
    <3>2. Len(answers) \in Nat
      BY <1>3
    <3>3. \A i \in 1..Len(answers) : ans2[i].to = answers[i].to /\ Same(ans2[i], answers[i])
      <4> TAKE i \in 1..Len(answers)
      <4>1. i = 1 \/ i \in 2..Len(answers)
        BY <3>2
      <4> QED
        BY <3>1, <4>1, SameIs, Zenon
    <3>4. out2 \in Reply /\ Same(out2, outP) /\ out2.to = outP.to
      BY <1>1, <1>2, Zenon
    <3> QED
      BY <1>1, <1>3, <3>1, <3>3, <3>4, MailCounted
  <2> QED
    BY <2>1, <2>2
<1> QED
  BY <1>2, <1>4, Zenon

LEMMA PfRetryAgreed ==
  ASSUME Types, Agreement, Delivery, Punctual, PfRetry
  PROVE  Agreement'
<1>1. UNCHANGED <<pool, fmap, vf, req, outV, late, hasty>>
  BY RetryIs, Zenon
<1> QED
  BY <1>1, RetriedKept, AgreementSent

LEMMA PfTxDelivered ==
  ASSUME Types, Delivery, Punctual, PfTx
  PROVE  Delivery'
<1>1. CASE PfSend
  <2>1. UNCHANGED <<pool, fmap, vf, req, outV, late, hasty>>
    BY <1>1, SendIs, Zenon
  <2> QED
    BY <1>1, <2>1, SentKept, DeliverySent
<1>2. CASE PfRetry
  <2>1. UNCHANGED <<pool, fmap, vf, req, outV, late, hasty>>
    BY <1>2, RetryIs, Zenon
  <2> QED
    BY <1>2, <2>1, RetriedKept, DeliverySent
<1> QED
  BY <1>1, <1>2, Zenon DEF PfTx

LEMMA DeliveryNext ==
  ASSUME Types, Delivery, Punctual, [MailNext]_mailVars
  PROVE  Delivery'
<1>1. CASE PfTx
  BY <1>1, PfTxDelivered
<1>2. ASSUME NEW f \in VF, Caller(f)
      PROVE  Delivery'
  <2>1. CASE (\E n \in QMaxs : SetQmax(f, n)) \/ (\E k \in Kinds, i \in 0..(TotalQ - 1) : AddQueue(f, k, i))
             \/ (\E q \in vf[f].queues : RemoveQueue(f, q)) \/ Unload(f)
    <3>1. Called(f)
      BY <2>1, SetQmaxTypes, AddQueueTypes, RemoveQueueTypes, UnloadTypes
    <3>2. Idle(f) /\ UNCHANGED <<pool, fmap, answers>> /\ outV' = outV /\ outP' = outP /\ late' = late /\ hasty' = hasty
      BY <2>1, Zenon DEF SetQmax, AddQueue, RemoveQueue, Unload
    <3> QED
      BY <3>1, <3>2, IdleDelivered
  <2> QED
    BY <1>2, <2>1, LoadDelivered, StoppedDelivered, LateDelivered, WakeDelivered, Zenon DEF Caller
<1>3. ASSUME NEW f \in VF, VfWork(f)
      PROVE  Delivery'
  BY <1>3, VfTxDelivered, VfRxDelivered, WakeDelivered DEF VfWork
<1>4. ASSUME NEW f \in VF, PfRx(f)
      PROVE  Delivery'
  BY <1>4, PfRxDelivered
<1>5. CASE UNCHANGED mailVars
  BY <1>5 DEF mailVars, Delivery, Delivered, Known
<1> QED
  BY <1>1, <1>2, <1>3, <1>4, <1>5, Zenon DEF MailNext

LEMMA NoneFirst ==
  ASSUME MailInit, NEW f \in VF
  PROVE  NoMail(answers, outP, f) /\ ~Known(f)
<1>1. pool = MasterCreate /\ answers = <<>> /\ outP = Empty
  BY Zenon DEF MailInit
<1>2. DOMAIN pool.dev = {}
  BY <1>1, PoolFirst
<1>3. ~Known(f)
  BY <1>2 DEF Known
<1>4. Queued(<<>>, f) = {}
  BY DEF Queued
<1>5. ~OutTo(Empty, f)
  BY Zenon DEF OutTo
<1> QED
  BY <1>1, <1>3, <1>4, <1>5, Zenon DEF NoMail

LEMMA DeliveryFirst ==
  ASSUME MailInit
  PROVE  Delivery
<1>1. ASSUME NEW f \in VF
      PROVE  Delivered(f)
  <2>1. vf[f] = Off /\ req[f] = Nothing /\ outV[f] = Empty
    BY <1>1, Zenon DEF MailInit
  <2>2. NoMail(answers, outP, f) /\ ~Known(f)
    BY <1>1, NoneFirst
  <2>3. Left(FALSE, Empty) /\ Nothing.place = "none" /\ "off" # "on"
    BY DEF Left, Nothing
  <2>4. Off.state # "on"
    BY <2>3, OffIs, Zenon DEF Has
  <2> QED
    BY <2>1, <2>2, <2>3, <2>4, Zenon DEF Delivered, Mailed, Resting, Left
<1>2. hasty \subseteq VF
  <2>1. hasty = {}
    BY Zenon DEF MailInit
  <2> QED
    BY <2>1
<1> QED
  BY <1>1, <1>2, Zenon DEF Delivery

LEMMA AgreementNext ==
  ASSUME Types, Agreement, Delivery, Punctual, [MailNext]_mailVars
  PROVE  Agreement'
<1>1. CASE PfTx
  BY <1>1, PfSendAgreed, PfRetryAgreed DEF PfTx
<1>2. ASSUME NEW f \in VF, Caller(f)
      PROVE  Agreement'
  BY <1>2, LoadAgreed, SetQmaxAgreed, AddQueueAgreed, RemoveQueueAgreed, UnloadAgreed, StoppedAgreed,
     ExpireAgreed, EarlyWakeAgreed, VanishAgreed, Zenon DEF Caller
<1>3. ASSUME NEW f \in VF, VfWork(f)
      PROVE  Agreement'
  BY <1>3, VfTxAgreed, VfRxAgreed, VfWakeAgreed DEF VfWork
<1>4. ASSUME NEW f \in VF, PfRx(f)
      PROVE  Agreement'
  BY <1>4, PfRxAgreed
<1>5. CASE UNCHANGED mailVars
  BY <1>5 DEF mailVars, Agreement, Agreed, Known, Strays
<1> QED
  BY <1>1, <1>2, <1>3, <1>4, <1>5, Zenon DEF MailNext

LEMMA AgreementFirst ==
  ASSUME MailInit
  PROVE  Agreement
<1>1. ASSUME NEW f \in VF
      PROVE  Agreed(f)
  <2>1. /\ pool = MasterCreate /\ vf[f] = Off /\ req[f] = Nothing /\ outV[f] = Empty /\ answers = <<>> /\ outP = Empty
    BY <1>1, Zenon DEF MailInit
  <2>2. PICK k : k = Known(f)
    OBVIOUS
  <2>3. k = FALSE
    <3>1. ~Known(f)
      BY <1>1, NoneFirst
    <3> QED
      BY <2>2, <3>1
  <2>4. NoMail(answers, outP, f)
    BY <1>1, NoneFirst
  <2>5. Left(FALSE, Empty) /\ Nothing.place = "none"
    BY DEF Left, Nothing
  <2>6. Within(FALSE, DeviceOf(pool.dev, f).entry, fmap[f])
    BY Zenon DEF Within
  <2> QED
    BY <2>1, <2>2, <2>3, <2>4, <2>5, <2>6, Zenon DEF Agreed, InStep, Calm
<1> QED
  BY <1>1, Zenon DEF Agreement
-----------------------------------------------------------------------------
(* The PF's slots. *)
LEMMA VfCount ==
  ASSUME NEW D, D \subseteq VF
  PROVE  /\ IsFiniteSet(D) /\ Cardinality(D) \in Nat /\ Cardinality(VF) \in Nat
         /\ Cardinality(D) <= Cardinality(VF) /\ Cardinality(VF) < 256 /\ NoVf \notin VF
         /\ \A f \in VF \ D : Cardinality(D) < Cardinality(VF)
<1>1. IsFiniteSet(VF) /\ Cardinality(VF) < 256 /\ NoVf \notin VF
  BY MailboxAssumption
<1>2. /\ IsFiniteSet(D) /\ Cardinality(D) <= Cardinality(VF)
      /\ Cardinality(VF) = Cardinality(D) => VF = D
  <2>1. D \in SUBSET VF
    OBVIOUS
  <2> QED
    BY <1>1, <2>1, FS_Subset
<1>3. Cardinality(D) \in Nat /\ Cardinality(VF) \in Nat
  BY <1>1, <1>2, FS_CardinalityType
<1>4. ASSUME NEW f \in VF \ D
      PROVE  Cardinality(D) < Cardinality(VF)
  <2>1. VF # D
    OBVIOUS
  <2> QED
    BY <1>2, <1>3, <2>1
<1> QED
  BY <1>1, <1>2, <1>3, <1>4

(* A function without a slot finds one that is free. *)
LEMMA SlotFree ==
  ASSUME NEW D, D \subseteq VF, NEW slot, Seated(slot, D), NEW f \in VF \ D,
         NEW N, N = Cardinality(VF)
  PROVE  \E i \in 1..N : slot[i] = NoVf /\ \A j \in 1..N : slot[j] = NoVf => i <= j
<1>1. N \in Nat /\ IsFiniteSet(D) /\ Cardinality(D) < N
  BY VfCount
<1>2. IsFiniteSet(1..N) /\ Cardinality(1..N) = N
  <2>1. 1 \in Int /\ N \in Int
    BY <1>1
  <2>2. IsFiniteSet(1..N) /\ Cardinality(1..N) = IF 1 > N THEN 0 ELSE N - 1 + 1
    BY <2>1, FS_Interval
  <2> QED
    BY <1>1, <2>2
<1>3. \E i \in 1..N : slot[i] = NoVf
  <2>1. SUFFICES ASSUME \A i \in 1..N : slot[i] # NoVf
                 PROVE  FALSE
    OBVIOUS
  <2>2. slot \in [1..N -> D]
    <3>1. \A i \in 1..N : slot[i] \in D
      BY <2>1 DEF Seated
    <3>2. slot \in [1..N -> VF \cup {NoVf}]
      BY DEF Seated
    <3> QED
      BY <3>1, <3>2
  <2>3. PICK x, y \in 1..N : x # y /\ slot[x] = slot[y]
    <3>1. Cardinality(D) < Cardinality(1..N)
      BY <1>1, <1>2
    <3> QED
      BY <1>1, <1>2, <2>2, <3>1, FS_PigeonHole
  <2>4. PICK i \in 1..N : \A j \in 1..N : slot[j] = slot[x] <=> j = i
    <3>1. slot[x] \in D
      BY <2>2
    <3> QED
      BY <3>1, Zenon DEF Seated
  <2> QED
    BY <2>3, <2>4
<1>4. PICK F : F = {i \in 1..N : slot[i] = NoVf}
  OBVIOUS
<1>5. F \subseteq Nat /\ F # {}
  BY <1>3, <1>4
<1>6. PICK i \in F : \A j \in F : i <= j
  BY <1>5, LeastNat
<1> QED
  BY <1>4, <1>6

LEMMA SeatTaken ==
  ASSUME NEW D, D \subseteq VF, NEW s, Seats(s, D), NEW f \in VF \ D, NEW N, N = Cardinality(VF),
         NEW free, free = {i \in DOMAIN s.slot : s.slot[i] = NoVf},
         NEW s2, s2 = [online |-> (s.online + 1) % 256,
                       slot   |-> [i \in DOMAIN s.slot |->
                                     IF i \in free /\ \A j \in free : i <= j THEN f ELSE s.slot[i]]]
  PROVE  Seats(s2, D \cup {f})
<1>1. PICK slot, slot2 : slot = s.slot /\ slot2 = s2.slot
  OBVIOUS
<1>2. Seated(slot, D) /\ s.online = Cardinality(D)
  BY <1>1 DEF Seats
<1>3. /\ N \in Nat /\ IsFiniteSet(D) /\ Cardinality(D) < N /\ Cardinality(D) \in Nat
      /\ N < 256 /\ NoVf \notin VF
  BY VfCount
<1>4. PICK i0 \in 1..N : slot[i0] = NoVf /\ \A j \in 1..N : slot[j] = NoVf => i0 <= j
  BY <1>2, SlotFree
<1>5. DOMAIN slot = 1..N /\ slot \in [1..N -> VF \cup {NoVf}]
  BY <1>2 DEF Seated
<1>6. slot2 = [i \in 1..N |-> IF i \in free /\ \A j \in free : i <= j THEN f ELSE slot[i]]
  BY <1>1, <1>5
<1>7. \A i \in 1..N : (i \in free /\ \A j \in free : i <= j) <=> i = i0
  <2>1. \A i : i \in free <=> i \in 1..N /\ slot[i] = NoVf
    BY <1>1, <1>5
  <2>2. i0 \in free /\ \A j \in free : i0 <= j
    BY <1>4, <2>1
  <2>3. ASSUME NEW i \in 1..N, i \in free, \A j \in free : i <= j
        PROVE  i = i0
    <3>1. i <= i0 /\ i0 <= i
      BY <2>2, <2>3
    <3> QED
      BY <3>1
  <2> QED
    BY <2>2, <2>3
<1>8. \A i \in 1..N : slot2[i] = IF i = i0 THEN f ELSE slot[i]
  BY <1>6, <1>7
<1>9. Seated(slot2, D \cup {f})
  <2>1. slot2 \in [1..N -> VF \cup {NoVf}]
    <3>1. \A i \in 1..N : slot2[i] \in VF \cup {NoVf}
      BY <1>5, <1>8
    <3>2. DOMAIN slot2 = 1..N /\ slot2 = [i \in DOMAIN slot2 |-> slot2[i]]
      BY <1>6
    <3> QED
      BY <3>1, <3>2
  <2>2. \A i \in 1..N : slot2[i] \in D \cup {f} \cup {NoVf}
    <3>1. \A i \in 1..N : slot[i] \in D \cup {NoVf}
      BY <1>2, Zenon DEF Seated
    <3> QED
      BY <1>8, <3>1
  <2>3. ASSUME NEW g \in D
        PROVE  \E i \in 1..N : \A j \in 1..N : slot2[j] = g <=> j = i
    <3>1. PICK i \in 1..N : \A j \in 1..N : slot[j] = g <=> j = i
      BY <1>2, <2>3, Zenon DEF Seated
    <3>2. g # NoVf /\ g # f
      BY <1>3
    <3>3. i # i0
      BY <1>4, <3>1, <3>2
    <3> QED
      BY <1>8, <3>1, <3>2, <3>3
  <2>4. \A j \in 1..N : slot2[j] = f <=> j = i0
    <3>1. \A i \in 1..N : slot[i] \in D \cup {NoVf}
      BY <1>2, Zenon DEF Seated
    <3>2. f # NoVf
      BY <1>3
    <3> QED
      BY <1>8, <3>1, <3>2
  <2>5. \A g \in D \cup {f} : \E i \in 1..N : \A j \in 1..N : slot2[j] = g <=> j = i
    BY <1>4, <2>3, <2>4
  <2> QED
    BY <2>1, <2>2, <2>5, Zenon DEF Seated
<1>10. s2.online = Cardinality(D \cup {f})
  <2>1. Cardinality(D \cup {f}) = Cardinality(D) + 1
    BY <1>3, FS_AddElement
  <2>2. s2.online = (s.online + 1) % 256
    OBVIOUS
  <2>3. PICK n : n = Cardinality(D)
    OBVIOUS
  <2>4. n \in Nat /\ n + 1 < 256
    BY <1>3, <2>3
  <2>5. (n + 1) % 256 = n + 1
    BY <2>4
  <2> QED
    BY <1>2, <2>1, <2>2, <2>3, <2>5
<1>11. s2 = [online |-> s2.online, slot |-> s2.slot]
  OBVIOUS
<1> QED
  BY <1>1, <1>9, <1>10, <1>11, Zenon DEF Seats

LEMMA SeatLeft ==
  ASSUME NEW D, D \subseteq VF, NEW s, Seats(s, D), NEW f \in D, NEW N, N = Cardinality(VF),
         NEW s2, s2 = [online |-> (s.online - 1) % 256,
                       slot   |-> [i \in DOMAIN s.slot |-> IF s.slot[i] = f THEN NoVf ELSE s.slot[i]]]
  PROVE  Seats(s2, D \ {f})
<1>1. PICK slot, slot2 : slot = s.slot /\ slot2 = s2.slot
  OBVIOUS
<1>2. Seated(slot, D) /\ s.online = Cardinality(D)
  BY <1>1 DEF Seats
<1>3. /\ N \in Nat /\ IsFiniteSet(D) /\ Cardinality(D) <= N /\ Cardinality(D) \in Nat
      /\ N < 256 /\ NoVf \notin VF
  BY VfCount
<1>4. slot2 = [i \in 1..N |-> IF slot[i] = f THEN NoVf ELSE slot[i]]
  <2>1. DOMAIN slot = 1..N
    BY <1>2 DEF Seated
  <2> QED
    BY <1>1, <2>1
<1>5. Seated(slot2, D \ {f})
  <2>1. slot2 \in [1..N -> VF \cup {NoVf}]
    <3>1. slot \in [1..N -> VF \cup {NoVf}]
      BY <1>2 DEF Seated
    <3> QED
      BY <1>4, <3>1
  <2>2. \A i \in 1..N : slot2[i] \in (D \ {f}) \cup {NoVf}
    <3>1. \A i \in 1..N : slot[i] \in D \cup {NoVf}
      BY <1>2, Zenon DEF Seated
    <3> QED
      BY <1>4, <3>1
  <2>3. ASSUME NEW g \in D \ {f}
        PROVE  \E i \in 1..N : \A j \in 1..N : slot2[j] = g <=> j = i
    <3>1. PICK i \in 1..N : \A j \in 1..N : slot[j] = g <=> j = i
      BY <1>2, <2>3, Zenon DEF Seated
    <3>2. g # NoVf /\ g # f
      BY <1>3
    <3> QED
      BY <1>4, <3>1, <3>2
  <2> QED
    BY <2>1, <2>2, <2>3, Zenon DEF Seated
<1>6. s2.online = Cardinality(D \ {f})
  <2>1. Cardinality(D \ {f}) = Cardinality(D) - 1 /\ IsFiniteSet(D \ {f})
    BY <1>3, FS_RemoveElement
  <2>2. Cardinality(D \ {f}) \in Nat
    BY <2>1, FS_CardinalityType
  <2>3. s2.online = (s.online - 1) % 256
    OBVIOUS
  <2>4. PICK n : n = Cardinality(D \ {f})
    OBVIOUS
  <2>5. n \in Nat /\ n < 256 /\ s.online - 1 = n
    BY <1>2, <1>3, <2>1, <2>2, <2>4
  <2>6. n % 256 = n
    BY <2>5
  <2> QED
    BY <2>3, <2>4, <2>5, <2>6
<1>7. s2 = [online |-> s2.online, slot |-> s2.slot]
  OBVIOUS
<1> QED
  BY <1>1, <1>5, <1>6, <1>7, Zenon DEF Seats

-----------------------------------------------------------------------------
(* The pace of the PF's register. *)
LEMMA PacedTaken ==
  ASSUME NEW ans, NEW out, NEW run, Paced(ans, out, run)
  PROVE  Paced(ans, Empty, run)
BY Zenon DEF Paced

LEMMA PacedAnswer ==
  ASSUME NEW ans \in Seq(Reply), NEW out, NEW run, Paced(ans, out, run),
         NEW b \in Reply, b.retry = RetryCnt, NEW ans2, ans2 = Append(ans, b)
  PROVE  Paced(ans2, out, TRUE)
<1>1. /\ ans2 \in Seq(Reply) /\ Len(ans2) = Len(ans) + 1 /\ Len(ans) \in Nat /\ ans2[Len(ans) + 1] = b
      /\ ans2 # <<>> /\ \A i \in 1..Len(ans) : ans2[i] = ans[i]
  BY AppendIs
<1>2. RetryCnt \in Nat /\ Lag \in Nat
  BY MailboxAssumption
<1>3. ans2[1].retry = IF ans = <<>> THEN RetryCnt ELSE ans[1].retry
  <2>1. CASE ans = <<>>
    <3>1. Len(ans) = 0
      BY <2>1
    <3> QED
      BY <1>1, <2>1, <3>1
  <2>2. CASE ans # <<>>
    <3>1. 1 \in 1..Len(ans)
      BY <2>2
    <3> QED
      BY <1>1, <2>2, <3>1
  <2> QED
    BY <2>1, <2>2
<1>4. ans2[1].retry \in (RetryCnt - Lag)..RetryCnt
  BY <1>2, <1>3 DEF Paced
<1>5. \A i \in 2..Len(ans2) : ans2[i].retry = RetryCnt
  <2>1. \A i \in 2..Len(ans) : ans[i].retry = RetryCnt
    BY Zenon DEF Paced
  <2> QED
    BY <1>1, <2>1
<1>6. out # Empty => out.retry \in 0..Lag /\ ans2[1].retry + out.retry = RetryCnt
  BY <1>2, <1>3 DEF Paced
<1> QED
  BY <1>1, <1>4, <1>5, <1>6, Zenon DEF Paced

LEMMA PacedSend ==
  ASSUME NEW ans \in Seq(Reply), ans # <<>>, NEW out, NEW run, Paced(ans, out, run),
         NEW ans2, ans2 = Tail(ans), NEW out2, out2.retry = 0, NEW run2, run2 = (ans2 # <<>>)
  PROVE  Paced(ans2, out2, run2)
<1>1. /\ Len(ans) \in Nat /\ Len(ans) > 0 /\ ans2 \in Seq(Reply) /\ Len(ans2) = Len(ans) - 1
      /\ \A i \in 1..(Len(ans) - 1) : ans2[i] = ans[i + 1]
  BY PlanHead
<1>2. RetryCnt \in Nat /\ Lag \in Nat
  BY MailboxAssumption
<1>3. \A i \in 2..Len(ans) : ans[i].retry = RetryCnt
  BY Zenon DEF Paced
<1>4. \A i \in 1..Len(ans2) : ans2[i].retry = RetryCnt
  <2>1. ASSUME NEW i \in 1..Len(ans2)
        PROVE  ans2[i].retry = RetryCnt
    <3>1. i \in 1..(Len(ans) - 1) /\ i + 1 \in 2..Len(ans)
      BY <1>1, <2>1
    <3> QED
      BY <1>1, <1>3, <3>1
  <2> QED
    BY <2>1
<1>5. ans2 # <<>> => 1 \in 1..Len(ans2) /\ ans2[1].retry = RetryCnt
  <2>1. ans2 # <<>> => 1 \in 1..Len(ans2)
    BY <1>1
  <2> QED
    BY <1>4, <2>1
<1>6. ans2 # <<>> => run2 /\ ans2[1].retry \in (RetryCnt - Lag)..RetryCnt
  <2>1. RetryCnt \in (RetryCnt - Lag)..RetryCnt
    <3>1. PICK r, l : r = RetryCnt /\ l = Lag
      OBVIOUS
    <3>2. r \in Nat /\ l \in Nat
      BY <1>2, <3>1
    <3>3. r \in (r - l)..r
      BY <3>2
    <3> QED
      BY <3>1, <3>3, Zenon
  <2> QED
    BY <1>5, <2>1, Zenon
<1>7. \A i \in 2..Len(ans2) : ans2[i].retry = RetryCnt
  BY <1>1, <1>4
<1>8. out2.retry \in 0..Lag /\ IF ans2 = <<>> THEN out2.retry = 0 ELSE ans2[1].retry + out2.retry = RetryCnt
  BY <1>2, <1>5
<1> QED
  BY <1>6, <1>7, <1>8, Zenon DEF Paced

LEMMA PacedRetry ==
  ASSUME NEW ans \in Seq(Reply), ans # <<>>, NEW out, out # Empty, NEW run, Paced(ans, out, run), out.retry < Lag,
         NEW ans2 \in Seq(Reply), Len(ans2) = Len(ans), ans2[1].retry = ans[1].retry - 1,
         \A i \in 2..Len(ans) : ans2[i] = ans[i],
         NEW out2, out2.retry = (out.retry + 1) % RetryCnt
  PROVE  Paced(ans2, out2, run)
<1>1. PICK r, l : r = RetryCnt /\ l = Lag
  OBVIOUS
<1>2. r \in Nat /\ l \in Nat /\ l < r
  BY <1>1, MailboxAssumption
<1>3. PICK n, k : n = out.retry /\ k = ans[1].retry
  OBVIOUS
<1>4. n \in 0..l /\ k + n = r /\ k \in (r - l)..r /\ run
  BY <1>1, <1>3, Zenon DEF Paced
<1>5. n < l
  BY <1>1, <1>3, Zenon
<1>6. n + 1 \in 0..l /\ (n + 1) % r = n + 1 /\ k - 1 \in (r - l)..r /\ (k - 1) + (n + 1) = r
  <2>1. n + 1 \in 0..l /\ n + 1 < r /\ n + 1 \in Nat
    BY <1>2, <1>4, <1>5
  <2>2. (n + 1) % r = n + 1
    BY <1>2, <2>1, Below, Zenon
  <2>3. k - 1 \in (r - l)..r /\ (k - 1) + (n + 1) = r
    BY <1>2, <1>4, <1>5
  <2> QED
    BY <2>1, <2>2, <2>3
<1>7. out2.retry = n + 1 /\ ans2[1].retry = k - 1
  <2>1. out2.retry = (n + 1) % r /\ ans2[1].retry = k - 1
    BY <1>1, <1>3, Zenon
  <2> QED
    BY <1>6, <2>1, Zenon
<1>8. ans2 # <<>>
  BY ans2 \in Seq(Reply), ans \in Seq(Reply), ans # <<>>, Len(ans2) = Len(ans)
<1>9. out2.retry \in 0..Lag /\ ans2[1].retry + out2.retry = RetryCnt /\ ans2[1].retry \in (RetryCnt - Lag)..RetryCnt
  BY <1>1, <1>6, <1>7, Zenon
<1>10. \A i \in 2..Len(ans2) : ans2[i].retry = RetryCnt
  <2>1. \A i \in 2..Len(ans) : ans[i].retry = RetryCnt
    BY Zenon DEF Paced
  <2> QED
    BY <2>1
<1> QED
  BY <1>4, <1>8, <1>9, <1>10, Zenon DEF Paced

-----------
(* Only a function that was known says BYE, and one that was not says HELLO, as long as nobody is late. *)
LEMMA ByeKnown ==
  ASSUME Types, Delivery, late = {}, NEW f \in VF, outV[f].op = "bye"
  PROVE  Known(f)
<1>1. PICK x, k : x = outV[f] /\ k = Known(f)
  OBVIOUS
<1>2. x # Empty /\ x.op = "bye"
  <2>1. Empty.op = "none" /\ "none" # "bye"
    BY DEF Empty
  <2> QED
    BY <1>1, <2>1
<1>3. Mailed(f, vf[f], req[f], x, k, answers, outP)
  BY <1>1, Zenon DEF Delivery, Delivered
<1>4. CASE req[f].place = "pend" /\ x = req[f].msg
  BY <1>2, <1>4, PendIs, Zenon
<1>5. CASE Left(k, x)
  BY <1>1, <1>2, <1>5, Zenon DEF Left
<1> QED
  BY <1>2, <1>3, <1>4, <1>5, Zenon DEF Mailed, Resting, Sending

LEMMA HelloUnknown ==
  ASSUME Types, Delivery, late = {}, NEW f \in VF, outV[f].op = "hello"
  PROVE  ~Known(f)
<1>1. PICK x, k : x = outV[f] /\ k = Known(f)
  OBVIOUS
<1>2. x # Empty /\ x.op = "hello" /\ x.op # "bye"
  <2>1. Empty.op = "none" /\ "none" # "hello" /\ "bye" # "hello"
    BY DEF Empty
  <2> QED
    BY <1>1, <2>1
<1>3. Mailed(f, vf[f], req[f], x, k, answers, outP)
  BY <1>1, Zenon DEF Delivery, Delivered
<1>4. ~k
  BY <1>2, <1>3, Zenon DEF Mailed, Resting, Sending, Left
<1> QED
  BY <1>1, <1>4, Zenon

-----------------------------------------------------------------------------
(* The PF's pace and its slots are kept. *)
LEMMA PunctualSame ==
  ASSUME Punctual, late' = {} => late = {}, DOMAIN pool'.dev = DOMAIN pool.dev, sriov' = sriov,
         answers' = answers, txrun' = txrun, outP' = outP \/ outP' = Empty
  PROVE  Punctual'
<1>1. ASSUME late' = {}
      PROVE  Paced(answers, outP, txrun)' /\ Seats(sriov, DOMAIN pool.dev)'
  <2>1. Paced(answers, outP, txrun) /\ Seats(sriov, DOMAIN pool.dev)
    BY <1>1 DEF Punctual
  <2>2. Paced(answers, outP', txrun)
    BY <2>1, PacedTaken, Zenon
  <2>3. Paced(answers', outP', txrun')
    BY <2>2, Zenon
  <2>4. Seats(sriov', DOMAIN pool'.dev)
    BY <2>1, Zenon
  <2> QED
    BY <2>3, <2>4
<1> QED
  BY <1>1 DEF Punctual

LEMMA CallerPunctual ==
  ASSUME Punctual, NEW f \in VF, Caller(f)
  PROVE  Punctual'
<1>1. /\ late' = {} => late = {}
      /\ UNCHANGED <<pool, sriov, answers, txrun>> /\ (outP' = outP \/ outP' = Empty)
  <2>1. CASE Load(f)
    BY <2>1 DEF Load
  <2>2. CASE \E n \in QMaxs : SetQmax(f, n)
    BY <2>2, Zenon DEF SetQmax
  <2>3. CASE \E k \in Kinds, i \in 0..(TotalQ - 1) : AddQueue(f, k, i)
    BY <2>3, Zenon DEF AddQueue
  <2>4. CASE \E q \in vf[f].queues : RemoveQueue(f, q)
    BY <2>4, Zenon DEF RemoveQueue
  <2>5. CASE Unload(f)
    BY <2>5, Zenon DEF Unload
  <2>6. CASE Stopped(f)
    BY <2>6, Zenon DEF Stopped
  <2>7. CASE Expire(f) \/ Vanish(f)
    <3>1. late' = late \cup {f} /\ hasty' = hasty /\ UNCHANGED <<pool, sriov, answers, outP, txrun>>
      BY <2>7, Zenon DEF Expire, Vanish
    <3> QED
      BY <3>1
  <2>8. CASE EarlyWake(f)
    BY <2>8, Zenon DEF EarlyWake
  <2> QED
    BY <2>1, <2>2, <2>3, <2>4, <2>5, <2>6, <2>7, <2>8, Zenon DEF Caller
<1>2. DOMAIN pool'.dev = DOMAIN pool.dev
  BY <1>1
<1> QED
  BY <1>1, <1>2, PunctualSame, Zenon

LEMMA VfWorkPunctual ==
  ASSUME Punctual, NEW f \in VF, VfWork(f)
  PROVE  Punctual'
<1>1. UNCHANGED <<pool, sriov, answers, txrun, late, hasty>> /\ (outP' = outP \/ outP' = Empty)
  BY Zenon DEF VfWork, VfTx, VfRx, VfWake
<1>2. DOMAIN pool'.dev = DOMAIN pool.dev
  BY <1>1
<1> QED
  BY <1>1, <1>2, PunctualSame, Zenon

LEMMA PfSendPunctual ==
  ASSUME Types, Punctual, PfSend
  PROVE  Punctual'
<1>1. /\ answers # <<>> /\ txrun' = (Tail(answers) # <<>>) /\ answers' = Tail(answers) /\ outP'.retry = 0
      /\ UNCHANGED <<pool, sriov, late, hasty>>
  BY SendIs
<1>2. PICK ans2, out2, run2 : ans2 = answers' /\ out2 = outP' /\ run2 = txrun'
  OBVIOUS
<1>3. answers \in Seq(Reply)
  BY WiresAre
<1>4. ASSUME late' = {}
      PROVE  Paced(answers, outP, txrun)' /\ Seats(sriov, DOMAIN pool.dev)'
  <2>1. Paced(answers, outP, txrun) /\ Seats(sriov, DOMAIN pool.dev)
    BY <1>1, <1>4 DEF Punctual
  <2>2. ans2 = Tail(answers) /\ out2.retry = 0 /\ run2 = (ans2 # <<>>)
    BY <1>1, <1>2, Zenon
  <2>3. Paced(ans2, out2, run2)
    BY <1>1, <1>3, <2>1, <2>2, PacedSend
  <2>4. Seats(sriov', DOMAIN pool'.dev)
    BY <1>1, <2>1, Zenon
  <2> QED
    BY <1>2, <2>3, <2>4, Zenon
<1> QED
  BY <1>4 DEF Punctual

LEMMA PfRetryPunctual ==
  ASSUME Types, Delivery, Punctual, PfRetry
  PROVE  Punctual'
<1>1. /\ answers # <<>> /\ outP \in Reply /\ outP'.retry = (outP.retry + 1) % RetryCnt
      /\ answers[1].retry # 1 =>
           /\ Len(answers') = Len(answers) /\ answers'[1].retry = answers[1].retry - 1 /\ txrun' = txrun
           /\ \A i \in 2..Len(answers) : answers'[i] = answers[i]
      /\ UNCHANGED <<pool, sriov, late, hasty>> /\ Types'
  BY RetryIs
<1>2. outP # Empty
  BY <1>1, ReplyIs
<1>3. answers \in Seq(Reply) /\ answers' \in Seq(Reply)
  BY <1>1, WiresAre DEF Types, Wires
<1>4. PICK ans2, out2 : ans2 = answers' /\ out2 = outP'
  OBVIOUS
<1>5. ASSUME late' = {}
      PROVE  Paced(answers, outP, txrun)' /\ Seats(sriov, DOMAIN pool.dev)'
  <2>1. late = {} /\ Paced(answers, outP, txrun) /\ Seats(sriov, DOMAIN pool.dev)
    BY <1>1, <1>5 DEF Punctual
  <2>2. answers[1].retry # 1 /\ outP.retry < Lag
    BY <2>1, NotDropped
  <2>3. /\ ans2 \in Seq(Reply) /\ Len(ans2) = Len(answers) /\ ans2[1].retry = answers[1].retry - 1
        /\ \A i \in 2..Len(answers) : ans2[i] = answers[i]
        /\ out2.retry = (outP.retry + 1) % RetryCnt /\ txrun' = txrun
    BY <1>1, <1>3, <1>4, <2>2, Zenon
  <2>4. Paced(ans2, out2, txrun)
    BY <1>1, <1>2, <1>3, <2>1, <2>2, <2>3, PacedRetry
  <2>5. Seats(sriov', DOMAIN pool'.dev)
    BY <1>1, <2>1, Zenon
  <2> QED
    BY <1>4, <2>3, <2>4, <2>5, Zenon
<1> QED
  BY <1>5 DEF Punctual

LEMMA PfRxPunctual ==
  ASSUME Types, Delivery, Punctual, NEW f \in VF, PfRx(f)
  PROVE  Punctual'
<1>1. PICK x, r : x = outV[f] /\ r = Handled(x)
  OBVIOUS
<1>2. /\ x \in Packet /\ x.src = f /\ pool' = r.pool
      /\ x.op = "bye" => answers' = answers
      /\ x.op # "bye" => \E a : AnswerRight(x, r, a) /\ answers' = Append(answers, a)
      /\ txrun' = (txrun \/ x.op # "bye")
      /\ UNCHANGED <<outP, late, hasty>>
  BY <1>1, ReceivedIs
<1>3. sriov' = CASE x.op = "hello" -> Online(f) [] x.op = "bye" -> Offline(f) [] OTHER -> sriov
  BY <1>1, Zenon DEF PfRx
<1>4. PICK D : D = DOMAIN pool.dev
  OBVIOUS
<1>5. D \subseteq VF
  BY <1>4, WiresAre DEF PoolOk
<1>6. "hello" # "bye" /\ "hello" \notin Work /\ "bye" \notin Work
  BY DEF Work
<1>7. ASSUME late' = {}
      PROVE  Paced(answers, outP, txrun)'
  <2>1. Paced(answers, outP, txrun)
    BY <1>2, <1>7 DEF Punctual
  <2>2. CASE x.op = "bye"
    <3>1. txrun' = txrun
      <4>1. txrun \in BOOLEAN
        BY WiresAre
      <4> QED
        BY <1>2, <2>2, <4>1
    <3> QED
      BY <1>2, <2>1, <2>2, <3>1, Zenon
  <2>3. CASE x.op # "bye"
    <3>1. PICK a : AnswerRight(x, r, a) /\ answers' = Append(answers, a)
      BY <1>2, <2>3, Zenon
    <3>2. PICK ans2 : ans2 = answers'
      OBVIOUS
    <3>3. a \in Reply /\ a.retry = RetryCnt /\ answers \in Seq(Reply)
      BY <3>1, WiresAre, Zenon DEF AnswerRight
    <3>4. Paced(ans2, outP, TRUE)
      BY <2>1, <3>1, <3>2, <3>3, PacedAnswer
    <3>5. txrun' = TRUE
      BY <1>2, <2>3
    <3> QED
      BY <1>2, <3>2, <3>4, <3>5, Zenon
  <2> QED
    BY <2>2, <2>3
<1>8. ASSUME late' = {}
      PROVE  Seats(sriov', DOMAIN pool'.dev)
  <2>1. late = {} /\ Seats(sriov, D)
    BY <1>2, <1>4, <1>7, <1>8 DEF Punctual
  <2>2. CASE x.op = "hello"
    <3>1. f \notin D
      BY <1>1, <1>4, <2>1, <2>2, HelloUnknown, Zenon DEF Known
    <3>2. DOMAIN pool'.dev = D \cup {f}
      BY <1>1, <1>2, <1>4, <2>2, HelloDone
    <3>3. sriov' = Online(f)
      BY <1>3, <2>2, Zenon
    <3>4. PICK N, free, s2 :
            /\ N = Cardinality(VF) /\ free = {i \in DOMAIN sriov.slot : sriov.slot[i] = NoVf}
            /\ s2 = [online |-> (sriov.online + 1) % 256,
                     slot   |-> [i \in DOMAIN sriov.slot |->
                                   IF i \in free /\ \A j \in free : i <= j THEN f ELSE sriov.slot[i]]]
      OBVIOUS
    <3>5. sriov' = s2
      BY <3>3, <3>4, Zenon DEF Online
    <3>6. f \in VF \ D
      BY <3>1
    <3>7. Seats(s2, D \cup {f})
      BY <1>5, <2>1, <3>4, <3>6, SeatTaken
    <3> QED
      BY <3>2, <3>5, <3>7, Zenon
  <2>3. CASE x.op = "bye"
    <3>1. f \in D
      BY <1>1, <1>4, <2>1, <2>3, ByeKnown, Zenon DEF Known
    <3>2. DOMAIN pool'.dev = D \ {f}
      <4>1. Elsewhere(f, r.pool, r.fmap) /\ f \notin DOMAIN r.pool.dev
        BY <1>1, <1>2, <2>3, ByeDone
      <4>2. DOMAIN r.pool.dev \subseteq VF /\ \A g \in VF : g # f => (g \in DOMAIN r.pool.dev <=> g \in D)
        BY <1>4, <4>1, Zenon DEF Elsewhere, PoolOk
      <4>3. DOMAIN r.pool.dev = D \ {f}
        BY <1>5, <4>1, <4>2
      <4> QED
        BY <1>2, <4>3, Zenon
    <3>3. sriov' = Offline(f)
      BY <1>3, <1>6, <2>3, Zenon
    <3>4. PICK N, s2 :
            /\ N = Cardinality(VF)
            /\ s2 = [online |-> (sriov.online - 1) % 256,
                     slot   |-> [i \in DOMAIN sriov.slot |-> IF sriov.slot[i] = f THEN NoVf ELSE sriov.slot[i]]]
      OBVIOUS
    <3>5. sriov' = s2
      BY <3>3, <3>4, Zenon DEF Offline
    <3>6. Seats(s2, D \ {f})
      BY <1>5, <2>1, <3>1, <3>4, SeatLeft
    <3> QED
      BY <3>2, <3>5, <3>6, Zenon
  <2>4. CASE x.op # "hello" /\ x.op # "bye"
    <3>1. x.op \in Work
      BY <1>2, <2>4 DEF Packet, Ops
    <3>2. DOMAIN r.pool.dev = D
      BY <1>1, <1>2, <1>4, <3>1, HandledIs
    <3>3. sriov' = sriov
      BY <1>3, <2>4, Zenon
    <3> QED
      BY <1>2, <2>1, <3>2, <3>3, Zenon
  <2> QED
    BY <2>2, <2>3, <2>4
<1> QED
  BY <1>7, <1>8 DEF Punctual

LEMMA PunctualNext ==
  ASSUME Types, Delivery, Punctual, [MailNext]_mailVars
  PROVE  Punctual'
<1>1. CASE PfTx
  BY <1>1, PfSendPunctual, PfRetryPunctual DEF PfTx
<1>2. ASSUME NEW f \in VF, Caller(f) \/ VfWork(f) \/ PfRx(f)
      PROVE  Punctual'
  BY <1>2, CallerPunctual, VfWorkPunctual, PfRxPunctual
<1>3. CASE UNCHANGED mailVars
  BY <1>3 DEF mailVars, Punctual
<1> QED
  BY <1>1, <1>2, <1>3, Zenon DEF MailNext

LEMMA PunctualFirst ==
  ASSUME MailInit
  PROVE  Punctual
<1>1. /\ answers = <<>> /\ outP = Empty /\ sriov = [online |-> 0, slot |-> [i \in 1..Cardinality(VF) |-> NoVf]]
      /\ pool = MasterCreate
  BY Zenon DEF MailInit
<1>2. Paced(<<>>, Empty, txrun)
  BY DEF Paced
<1>3. DOMAIN pool.dev = {}
  BY <1>1, PoolFirst
<1>4. PICK N : N = Cardinality(VF)
  OBVIOUS
<1>5. PICK slot : slot = [i \in 1..N |-> NoVf]
  OBVIOUS
<1>6. Seated(slot, {})
  <2>1. slot \in [1..N -> VF \cup {NoVf}] /\ \A i \in 1..N : slot[i] \in {} \cup {NoVf}
    BY <1>5
  <2>2. \A f \in {} : \E i \in 1..N : \A j \in 1..N : slot[j] = f <=> j = i
    OBVIOUS
  <2> QED
    BY <1>4, <2>1, <2>2, Zenon DEF Seated
<1>7. sriov = [online |-> sriov.online, slot |-> sriov.slot] /\ sriov.slot = slot /\ sriov.online = 0
  BY <1>1, <1>4, <1>5
<1>8. Cardinality({}) = 0
  BY FS_EmptySet
<1>9. Seats(sriov, {})
  BY <1>6, <1>7, <1>8, Zenon DEF Seats
<1> QED
  BY <1>1, <1>2, <1>3, <1>9, Zenon DEF Punctual

-----------------------------------------------------------------------------
(* What a user of the mailbox sees of this. *)
LEMMA TypesOK ==
  ASSUME Types, hasty \subseteq VF
  PROVE  TypeOK
<1>1. DOMAIN pool.dev \subseteq VF /\ late \subseteq VF
  BY WiresAre, Zenon DEF PoolOk
<1>2. outP = Empty \/ outP.to \in VF
  BY WiresAre, ReplyIs
<1>3. ASSUME NEW f \in VF
      PROVE  req[f].place \in {"none", "todo", "pend", "matched"} /\ vf[f].state \in {"off", "starting", "on", "leaving"}
  <2>1. CallerRight(f, vf[f], req[f]) /\ vf[f] \in Driver
    BY <1>3, CallerIs
  <2>2. vf[f].state \in {"off", "starting", "on", "leaving"}
    BY <2>1, DriverIs
  <2>3. req[f] = Nothing \/ req[f].place \in {"todo", "pend", "matched"}
    BY <2>1, Zenon DEF CallerRight
  <2>4. Nothing.place = "none"
    BY DEF Nothing
  <2> QED
    BY <2>2, <2>3, <2>4
<1> QED
  BY <1>1, <1>2, <1>3, Zenon DEF TypeOK

LEMMA IdleAgrees ==
  ASSUME Types, Agreement, NEW f \in VF, f \notin Strays, Idle(f)
  PROVE  Known(f) /\ Agrees(f)
<1>1. PICK v, d : v = vf[f] /\ d = Dev(f)
  OBVIOUS
<1>2. Known(f) /\ Base(v, d.entry, fmap[f]) /\ Ends(v, d.active)
  BY <1>1, IdleAgreed, Zenon
<1>3. d = pool.dev[f] /\ d.active \in [QType -> Nat]
  BY <1>1, <1>2, DevIs
<1>4. IsFiniteSet(v.queues) /\ Counts(d.active, v.queues, "h2c", 0)
  BY <1>2, Zenon DEF Ends, Fits
<1>5. \A t \in QType : d.active[t] = Num(v.queues, t)
  <2>1. PICK c : c = d.active
    OBVIOUS
  <2>2. Counts(c, v.queues, "h2c", 0)
    BY <1>4, <2>1, Zenon
  <2> QED
    BY <1>4, <2>1, <2>2, CountsAny
<1>6. d.active = [t \in QType |-> Num(v.queues, t)]
  BY <1>3, <1>5
<1>7. /\ v.qmax = d.entry.total_q /\ (v.qmax # 0 => v.qbase = d.entry.qbase)
      /\ fmap[f] = IF v.init_qrange THEN d.entry ELSE NoMap
  BY <1>2, Zenon DEF Base
<1>8. d.active = [t \in QType |-> Cardinality({q \in v.queues : q.t = t \/ (t = "cmpt" /\ q.st)})]
  BY <1>6, Zenon DEF Num
<1> QED
  BY <1>1, <1>2, <1>3, <1>7, <1>8, Zenon DEF Agrees

LEMMA SlotsAgree ==
  ASSUME Seats(sriov, DOMAIN pool.dev)
  PROVE  SlotsMatch
<1>1. PICK slot, N, D : slot = sriov.slot /\ N = Cardinality(VF) /\ D = DOMAIN pool.dev
  OBVIOUS
<1>2. Seated(slot, D) /\ sriov.online = Cardinality(D)
  BY <1>1, Zenon DEF Seats
<1>3. DOMAIN slot = 1..N
  BY <1>1, <1>2 DEF Seated
<1>4. ASSUME NEW f \in D
      PROVE  Cardinality({i \in DOMAIN slot : slot[i] = f}) = 1
  <2>1. PICK i \in 1..N : \A j \in 1..N : slot[j] = f <=> j = i
    BY <1>1, <1>2, <1>4, Zenon DEF Seated
  <2>2. {j \in DOMAIN slot : slot[j] = f} = {i}
    BY <1>3, <2>1
  <2>3. Cardinality({i}) = 1
    BY FS_Singleton
  <2> QED
    BY <2>2, <2>3
<1> QED
  BY <1>1, <1>2, <1>4, Zenon DEF SlotsMatch

LEMMA AtMostOne ==
  ASSUME NEW S, \A x, y \in S : x = y
  PROVE  Cardinality(S) <= 1
<1>1. CASE S = {}
  <2>1. Cardinality(S) = 0
    BY <1>1, FS_EmptySet
  <2> QED
    BY <2>1
<1>2. CASE S # {}
  <2>1. PICK x : x \in S
    BY <1>2
  <2>2. S = {x}
    BY <2>1
  <2>3. Cardinality({x}) = 1
    BY FS_Singleton
  <2> QED
    BY <2>2, <2>3
<1> QED
  BY <1>1, <1>2

LEMMA CoveredOnce ==
  ASSUME Types, Enrolment, Agreement, NEW q \in 0..(TotalQ - 1)
  PROVE  Cardinality({f \in VF \ Strays : Covers(f, q)}) <= 1
<1>1. q \in Nat
  OBVIOUS
<1>2. ASSUME NEW f \in VF, f \notin Strays, Covers(f, q)
      PROVE  f \in DOMAIN pool.dev /\ In(pool.dev[f].entry, q)
  <2>1. PICK m : m = fmap[f]
    OBVIOUS
  <2>2. m.qbase <= q /\ q < End(m)
    BY <1>2, <2>1, Zenon DEF Covers
  <2>3. m # NoMap
    <3>1. CASE m = NoMap
      <4>1. m.qbase = 0 /\ m.total_q = 0
        BY <3>1 DEF NoMap
      <4>2. End(m) = 0
        BY <4>1 DEF End
      <4> QED
        BY <1>1, <2>2, <4>2
    <3> QED
      BY <3>1
  <2>4. Known(f)
    BY <1>2, <2>1, <2>3, Zenon DEF Enrolment, Enrolled
  <2>5. Within(Known(f), Dev(f).entry, m)
    BY <1>2, <2>1, InStepOf, Zenon
  <2>6. In(Dev(f).entry, q)
    BY <1>1, <2>2, <2>4, <2>5, Zenon DEF Within
  <2>7. Dev(f) = pool.dev[f]
    BY <1>2, <2>4, DevIs
  <2> QED
    BY <2>4, <2>6, <2>7, Zenon DEF Known
<1>3. \A f, g \in DOMAIN pool.dev : In(pool.dev[f].entry, q) /\ In(pool.dev[g].entry, q) => f = g
  BY <1>1, WiresAre, Zenon DEF PoolOk, Shared
<1>4. \A f, g \in {h \in VF \ Strays : Covers(h, q)} : f = g
  BY <1>2, <1>3
<1> QED
  BY <1>4, AtMostOne

LEMMA OnePlace ==
  ASSUME Types, Delivery, late = {}, NEW f \in VF,
         NEW c, c = (IF outV[f].op \in {"none", "bye"} THEN 0 ELSE 1) + Cardinality(Queued(answers, f))
                    + (IF OutTo(outP, f) THEN 1 ELSE 0)
  PROVE  c = IF req[f].place = "pend" THEN 1 ELSE 0
<1>1. PICK o, p, Q : o = outV[f].op /\ p = req[f].place /\ Q = Queued(answers, f)
  OBVIOUS
<1>2. Empty.op = "none" /\ Cardinality({}) = 0 /\ \A i : Cardinality({i}) = 1
  BY FS_EmptySet, FS_Singleton DEF Empty
<1>4. Mailed(f, vf[f], req[f], outV[f], Known(f), answers, outP)
  BY Zenon DEF Delivery, Delivered
<1>5. NoMail(answers, outP, f) => c = IF o \in {"none", "bye"} THEN 0 ELSE 1
  <2>1. ASSUME NoMail(answers, outP, f)
        PROVE  c = IF o \in {"none", "bye"} THEN 0 ELSE 1
    <3>1. Q = {} /\ ~OutTo(outP, f)
      BY <1>1, <2>1, Zenon DEF NoMail
    <3>2. Cardinality(Q) = 0
      BY <1>2, <3>1, Zenon
    <3>3. c = (IF o \in {"none", "bye"} THEN 0 ELSE 1) + 0 + 0
      BY <1>1, <3>1, <3>2, Zenon
    <3> QED
      BY <3>3
  <2> QED
    BY <2>1
<1>6. ASSUME NEW a, OneMail(answers, outP, f, a)
      PROVE  c = (IF o \in {"none", "bye"} THEN 0 ELSE 1) + 1
  <2>1. CASE Q = {} /\ OutTo(outP, f)
    <3>1. Cardinality(Q) = 0
      BY <1>2, <2>1, Zenon
    <3>2. c = (IF o \in {"none", "bye"} THEN 0 ELSE 1) + 0 + 1
      BY <1>1, <2>1, <3>1, Zenon
    <3> QED
      BY <3>2
  <2>2. ASSUME NEW i, Q = {i}, ~OutTo(outP, f)
        PROVE  c = (IF o \in {"none", "bye"} THEN 0 ELSE 1) + 1
    <3>1. Cardinality(Q) = 1
      BY <1>2, <2>2, Zenon
    <3>2. c = (IF o \in {"none", "bye"} THEN 0 ELSE 1) + 1 + 0
      BY <1>1, <2>2, <3>1, Zenon
    <3> QED
      BY <3>2
  <2> QED
    BY <1>1, <1>6, <2>1, <2>2, Zenon DEF OneMail
<1>7. CASE (p = "none" \/ p = "todo" \/ p = "matched") /\ NoMail(answers, outP, f) /\ (outV[f] = Empty \/ Left(Known(f), outV[f]))
  <2>1. o \in {"none", "bye"}
    <3>1. outV[f] = Empty \/ o = "bye"
      BY <1>1, <1>7, Zenon DEF Left
    <3> QED
      BY <1>1, <1>2, <3>1
  <2> QED
    BY <1>1, <1>5, <1>7, <2>1
<1>8. CASE p = "pend" /\ NoMail(answers, outP, f) /\ outV[f] = req[f].msg
  <2>1. o = "hello" \/ o \in Work
    BY <1>1, <1>8, PendIs, Zenon
  <2>2. o \notin {"none", "bye"}
    BY <2>1 DEF Work
  <2> QED
    BY <1>1, <1>5, <1>8, <2>2
<1>9. CASE p = "pend" /\ outV[f] = Empty /\ \E a \in Reply : OneMail(answers, outP, f, a)
  <2>1. PICK a \in Reply : OneMail(answers, outP, f, a)
    BY <1>9
  <2>2. c = (IF o \in {"none", "bye"} THEN 0 ELSE 1) + 1
    BY <1>6, <2>1
  <2>3. o = "none"
    BY <1>1, <1>2, <1>9, Zenon
  <2> QED
    BY <1>1, <1>9, <2>2, <2>3
<1> QED
  BY <1>1, <1>4, <1>7, <1>8, <1>9, Zenon DEF Mailed, Resting, Sending

LEMMA AllInOnePlace ==
  ASSUME Types, Delivery, Punctual
  PROVE  InFlight
<1>1. SUFFICES ASSUME late = {}
               PROVE  /\ answers # <<>> => txrun
                      /\ \A f \in VF :
                           (IF outV[f].op \in {"none", "bye"} THEN 0 ELSE 1)
                             + Cardinality({i \in DOMAIN answers : answers[i].to = f})
                             + (IF outP # Empty /\ outP.to = f THEN 1 ELSE 0)
                           = (IF req[f].place = "pend" THEN 1 ELSE 0)
  BY Zenon DEF InFlight
<1>2. answers # <<>> => txrun
  BY <1>1, Zenon DEF Punctual, Paced
<1>3. ASSUME NEW f \in VF
      PROVE  (IF outV[f].op \in {"none", "bye"} THEN 0 ELSE 1)
               + Cardinality({i \in DOMAIN answers : answers[i].to = f})
               + (IF outP # Empty /\ outP.to = f THEN 1 ELSE 0)
             = (IF req[f].place = "pend" THEN 1 ELSE 0)
  <2>1. PICK c : c = (IF outV[f].op \in {"none", "bye"} THEN 0 ELSE 1) + Cardinality(Queued(answers, f))
                     + (IF OutTo(outP, f) THEN 1 ELSE 0)
    OBVIOUS
  <2>2. c = IF req[f].place = "pend" THEN 1 ELSE 0
    BY <1>1, <1>3, <2>1, OnePlace
  <2> QED
    BY <2>1, <2>2, Zenon DEF Queued, OutTo
<1> QED
  BY <1>2, <1>3, Zenon

-----------------------------------------------------------------------------
(* The inductive invariant holds of every reachable state. *)
LEMMA MailInvKept == MailSpec => []MailInv
<1>1. MailInit => MailInv
  BY TypesFirst, EnrolmentFirst, AgreementFirst, DeliveryFirst, PunctualFirst, Zenon DEF MailInv
<1>2. MailInv /\ [MailNext]_mailVars => MailInv'
  BY TypesNext, EnrolmentNext, AgreementNext, DeliveryNext, PunctualNext, Zenon DEF MailInv
<1> QED
  BY <1>1, <1>2, PTL DEF MailSpec

(* Between calls, what a function believes of its queues is what the PF has given it, its map is that  *)
(* range or empty, and each of its queues is counted once, for any number of functions, of queues and  *)
(* of calls under way, also when a caller goes on before its answer has been copied (qdma_mbox.c:167,   *)
(* :214): only a function that took its own request for queues for the answer, one that gave up and one *)
(* that vanished may disagree, and no other function suffers from them. While none has given up or      *)
(* vanished, the PF's slots are those of the functions it knows (qdma_device.c, qdma_mbox.c and         *)
(* qdma_sriov.c against qdma_mbox_pf_rcv_msg_handler).                                                  *)
THEOREM ConfigsAgree == MailSpec => []ConfigAgrees
<1>1. MailInv => ConfigAgrees
  <2>1. SUFFICES ASSUME MailInv
                 PROVE  ConfigAgrees
    OBVIOUS
  <2>2. Types /\ Agreement /\ hasty \subseteq VF /\ (late = {} => Seats(sriov, DOMAIN pool.dev))
    BY <2>1, Zenon DEF MailInv, Delivery, Punctual
  <2>3. \A f \in VF \ Strays : Idle(f) => Known(f) /\ Agrees(f)
    BY <2>2, IdleAgrees
  <2> QED
    BY <2>2, <2>3, TypesOK, SlotsAgree, Zenon DEF ConfigAgrees
<1> QED
  BY <1>1, MailInvKept, PTL

(* The card maps queues only to functions that the PF knows, whoever has given up on what or gone on  *)
(* too early; and each queue to at most one of the functions that agree with the PF (the maps of      *)
(* qdma_mbox_pf_rcv_msg_handler against the account of qdma_resource_mgmt.c).                         *)
THEOREM MapsAreOwned == MailSpec => []MapsOwned
<1>1. MailInv => MapsOwned
  <2>1. SUFFICES ASSUME MailInv
                 PROVE  MapsOwned
    OBVIOUS
  <2>2. Types /\ Enrolment /\ Agreement
    BY <2>1, Zenon DEF MailInv
  <2>3. \A f \in VF : fmap[f] # NoMap => Known(f)
    BY <2>2, Zenon DEF Enrolment, Enrolled
  <2>4. ASSUME NEW q \in 0..(TotalQ - 1)
        PROVE  Cardinality({f \in VF \ Strays : Covers(f, q)}) <= 1
    BY <2>2, <2>4, CoveredOnce
  <2> QED
    BY <2>3, <2>4, Zenon DEF MapsOwned
<1> QED
  BY <1>1, MailInvKept, PTL

(* As long as nobody gives up, and whoever goes on too early, a request that waits is in one place, the register of its function, the *)
(* PF's list or the PF's register, and the PF works on its list while anything is in it, however many  *)
(* functions share that one register (mbox_tx_work and mbox_rx_work of qdma_mbox.c).                   *)
THEOREM RequestsAreInFlight == MailSpec => []InFlight
<1>1. MailInv => InFlight
  BY AllInOnePlace, Zenon DEF MailInv
<1> QED
  BY <1>1, MailInvKept, PTL

=============================================================================
