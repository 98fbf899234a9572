----------------------------- MODULE VfMailbox ------------------------------
(***************************************************************************)
(* Virtual functions ask the physical function for everything that is      *)
(* shared, through the mailbox of the card (qdma_mbox.c,                   *)
(* qdma_mbox_protocol.c, the VF parts of qdma_device.c, libqdma_export.c   *)
(* and qdma_sriov.c).  A VF has one register for the message it sends; the *)
(* PF has one for the message it sends to any VF.  A VF's caller queues a  *)
(* request, waits, and gives up after a time; the mailbox's work queue     *)
(* sends, receives, and pairs an answer with the request by its operation  *)
(* alone.  The PF never waits: it acts on each message and queues the      *)
(* answer, which it drops when the register stays busy.  Requests that     *)
(* only read or write registers are left out, as is the PF's own reset.    *)
(***************************************************************************)
EXTENDS QueueResources

CONSTANTS VF,           \* the virtual functions
          NoVf,         \* QDMA_FUNC_ID_INVALID
          QMaxs,        \* numbers of queues that are asked for
          RetryCnt,     \* attempts at a message nobody waits for (timeout_ms / 1000 + 1)
          Lag,          \* attempts made, at most, before a running receiver takes a message
          RxPoll,       \* the PF's mailbox is polled (rx_poll), not interrupt driven
          MaxQueues,    \* bound of the exploration: queues of a function
          MaxStrays     \* bound of the exploration: functions that give up, vanish or are hasty

\* The count of the functions online is a byte (u8 vf_count_online); a queue's number has 11 bits
\* in the card's function map.
ASSUME MailboxAssumption ==
  /\ Lag \in Nat /\ RetryCnt \in Nat /\ Lag < RetryCnt
  /\ NoVf \notin VF /\ IsFiniteSet(VF) /\ Cardinality(VF) < 256
  /\ QMaxs \subseteq Nat /\ RxPoll \in BOOLEAN
  /\ TotalQ =< 2048

VARIABLES pool,         \* the PF's account of the queues
          fmap,         \* the card's function map
          sriov,        \* the PF's slots of its VFs and its count of those online
          vf,           \* what the driver of each VF keeps, and what its caller has still to do
          req,          \* the message of the VF's caller: which list it is in
          outV,         \* the VFs' outgoing registers
          answers,      \* the PF's tx_todo_list
          outP,         \* the PF's outgoing register, with the attempts made on it
          txrun,        \* the PF's tx_work will run again
          late,         \* history: the functions that gave up on an answer or vanished
          hasty         \* history: those that took their own request for queues for the answer

mailVars == <<pool, fmap, sriov, vf, req, outV, answers, outP, txrun, late, hasty>>

NoMap == [qbase |-> 0, total_q |-> 0]
Empty == [op |-> "none"]
Nothing == [place |-> "none"]
Off == [state |-> "off", qbase |-> -1, qmax |-> 0, init_qrange |-> FALSE, queues |-> {},
        plan |-> <<>>, removing |-> {}, granted |-> {}]
Kinds == {[t |-> "h2c", st |-> FALSE], [t |-> "c2h", st |-> TRUE]}

MailInit ==
  /\ pool = MasterCreate
  /\ fmap = [f \in VF |-> NoMap]
  /\ sriov = [online |-> 0, slot |-> [i \in 1..Cardinality(VF) |-> NoVf]]
  /\ vf = [f \in VF |-> Off]
  /\ req = [f \in VF |-> Nothing]
  /\ outV = [f \in VF |-> Empty]
  /\ answers = <<>>
  /\ outP = Empty
  /\ txrun = FALSE
  /\ late = {} /\ hasty = {}

-----------------------------------------------------------------------------
(* What a caller does: a sequence of messages, each with what its success   *)
(* removes, what its failure removes, and what is done after its failure;   *)
(* then one by one the queues that are to be removed; at last it uses the   *)
(* queues it was granted, or says BYE.                                      *)

Message(op) == [op |-> op, t |-> "h2c", qid |-> 0, n |-> 0, gone |-> {}, undone |-> {}, otherwise |-> <<>>]
Notify(v, op, t, q) == [Message(op) EXCEPT !.t = t, !.qid = v.qbase + q.i]

\* qdma_queue_add: the function map once, then a notice for the queue and one for the
\* completion queue of a streaming C2H queue, whose failure takes the first back.
AddPlan(v, q) ==
  (IF v.init_qrange THEN <<>> ELSE <<[Message("fmap") EXCEPT !.undone = {q}]>>)
  \o <<Notify(v, "add", q.t, q)>>
  \o (IF q.st THEN <<[Notify(v, "add", "cmpt", q) EXCEPT !.otherwise = <<Notify(v, "del", q.t, q)>>]>>
      ELSE <<>>)

\* As if the completion queue of a streaming queue were never taken back.
BadRemovePlan(v, q) == <<[Notify(v, "del", q.t, q) EXCEPT !.gone = {q}]>>

\* qdma_queue_remove
RemovePlan(v, q) ==
  IF q.st
  THEN <<Notify(v, "del", q.t, q),
         [Notify(v, "del", "cmpt", q) EXCEPT !.gone = {q}, !.otherwise = <<Notify(v, "add", q.t, q)>>]>>
  ELSE <<[Notify(v, "del", q.t, q) EXCEPT !.gone = {q}]>>

\* qdma_device_init: the function's queues are those it was granted, none of them in use.
Refitted(v) ==
  LET got == CHOOSE a \in v.granted : TRUE
  IN  IF v.granted = {} THEN v
      ELSE [v EXCEPT !.qbase = got.qbase, !.qmax = got.qmax, !.init_qrange = FALSE,
                     !.queues = {}, !.granted = {}]

\* The caller with its next message at the head of its plan. qdma_device_cleanup removes
\* every queue, whatever became of the one before.
Onward(v) ==
  LET q == CHOOSE p \in v.removing : TRUE
  IN  CASE v.plan # <<>> -> v
        [] v.plan = <<>> /\ v.removing # {} ->
             [v EXCEPT !.plan = RemovePlan(v, q), !.removing = @ \ {q}]
        [] v.plan = <<>> /\ v.removing = {} /\ v.state = "leaving" ->
             [v EXCEPT !.plan = <<Message("bye")>>]
        [] OTHER -> Refitted(v)

\* The messages' payloads: a function asks for any base, and maps what it believes to own.
Composed(f, v) ==
  LET s == Head(v.plan)
  IN  [op |-> s.op, src |-> f, t |-> s.t, qid |-> s.qid,
       qbase |-> IF s.op = "fmap" THEN v.qbase ELSE -1,
       qmax  |-> IF s.op = "fmap" THEN v.qmax ELSE s.n]

\* The caller goes on from v: its next message is queued, or it has none.
Proceed(f, v) ==
  \E w \in {Onward(v)} :
    /\ vf' = [vf EXCEPT ![f] = w]
    /\ req' = [req EXCEPT ![f] = IF w.plan = <<>> THEN Nothing
                                 ELSE [place |-> "todo", msg |-> Composed(f, w)]]

\* The caller's wait is over: ok, with the answer a, or not.
Returned(f, ok, a) ==
  LET v == vf[f]
      s == Head(v.plan)
      next == IF ok THEN [v EXCEPT !.plan = Tail(@), !.queues = @ \ s.gone]
              ELSE [v EXCEPT !.plan = s.otherwise, !.queues = @ \ s.undone]
  IN  CASE s.op = "hello" -> [next EXCEPT !.state = IF ok THEN "on" ELSE "leaving"]
        [] s.op = "fmap"  -> [next EXCEPT !.init_qrange = ok]
        [] s.op = "qreq" /\ ok -> [next EXCEPT !.removing = v.queues, !.granted = {a}]
        [] OTHER -> next

Idle(f) == vf[f].state = "on" /\ req[f] = Nothing

\* qdma_device_online: whatever the incoming register holds is discarded, then HELLO.
Load(f) ==
  /\ vf[f].state = "off"
  /\ outP' = IF outP # Empty /\ outP.to = f THEN Empty ELSE outP
  /\ Proceed(f, [Off EXCEPT !.state = "starting",
                            !.plan = <<Message("hello")>>])
  /\ UNCHANGED <<pool, fmap, sriov, outV, answers, txrun, late, hasty>>

\* qdma_vf_qconf
SetQmax(f, n) ==
  /\ Idle(f)
  /\ Proceed(f, [vf[f] EXCEPT !.plan = <<[Message("qreq") EXCEPT !.n = n]>>])
  /\ UNCHANGED <<pool, fmap, sriov, outV, answers, outP, txrun, late, hasty>>

AddQueue(f, kind, i) ==
  LET q == [t |-> kind.t, st |-> kind.st, i |-> i]
  IN  /\ Idle(f)
      /\ i < vf[f].qmax
      /\ q \notin vf[f].queues
      /\ Cardinality(vf[f].queues) < MaxQueues
      /\ \A p \in vf[f].queues : p.i = i => p.st = q.st
      /\ Proceed(f, [vf[f] EXCEPT !.queues = @ \cup {q}, !.plan = AddPlan(vf[f], q)])
      /\ UNCHANGED <<pool, fmap, sriov, outV, answers, outP, txrun, late, hasty>>

RemoveQueue(f, q) ==
  /\ Idle(f)
  /\ Proceed(f, [vf[f] EXCEPT !.removing = {q}])
  /\ UNCHANGED <<pool, fmap, sriov, outV, answers, outP, txrun, late, hasty>>

\* qdma_device_offline: the queues are removed, then BYE, which nobody answers.
Unload(f) ==
  /\ Idle(f)
  /\ Proceed(f, [vf[f] EXCEPT !.state = "leaving", !.removing = vf[f].queues])
  /\ UNCHANGED <<pool, fmap, sriov, outV, answers, outP, txrun, late, hasty>>

\* qdma_mbox_stop: BYE has left the list.
Stopped(f) ==
  /\ vf[f].state = "leaving" /\ req[f] = Nothing
  /\ vf' = [vf EXCEPT ![f] = Off]
  /\ UNCHANGED <<pool, fmap, sriov, req, outV, answers, outP, txrun, late, hasty>>

\* The functions whose drivers need not believe what the PF has done for them.
Strays == late \cup hasty

MayStray(f) == f \notin Strays /\ Cardinality(Strays) < MaxStrays

\* The time is over or a signal has come, and no answer has been paired: the request leaves the
\* list it is in, wherever its message is by now.
Expire(f) ==
  /\ MayStray(f)
  /\ req[f].place \in {"todo", "pend"} /\ req[f].msg.op # "bye"
  /\ Proceed(f, Returned(f, FALSE, req[f].msg))
  /\ late' = late \cup {f}
  /\ UNCHANGED <<pool, fmap, sriov, outV, answers, outP, txrun, hasty>>

\* The wait's condition is set when the answer is paired, before it is copied over the request.  A
\* caller that tests it in between, on its way into the wait, by a signal or at the end of its time,
\* succeeds with the words of its own request.  If it reads them during the copy, it has one or the
\* other: a refusal is copied first and read last, and what is granted differs in the base alone.
EarlyWake(f) ==
  /\ req[f].place = "matched"
  /\ req[f].msg.op = "qreq" => f \in hasty \/ MayStray(f)
  /\ Proceed(f, Returned(f, TRUE, req[f].msg))
  /\ hasty' = IF req[f].msg.op = "qreq" THEN hasty \cup {f} ELSE hasty
  /\ UNCHANGED <<pool, fmap, sriov, outV, answers, outP, txrun, late>>

\* The machine that uses the function stops without BYE.
Vanish(f) ==
  /\ MayStray(f)
  /\ vf[f].state # "off"
  /\ vf' = [vf EXCEPT ![f] = Off]
  /\ req' = [req EXCEPT ![f] = Nothing]
  /\ late' = late \cup {f}
  /\ UNCHANGED <<pool, fmap, sriov, outV, answers, outP, txrun, hasty>>

-----------------------------------------------------------------------------
(* The mailbox of a VF. *)

\* mbox_tx_work: a busy register is tried again; a message that is answered waits in rx_pend_list.
VfTx(f) ==
  /\ req[f].place = "todo"
  /\ outV[f] = Empty
  /\ outV' = [outV EXCEPT ![f] = req[f].msg]
  /\ req' = [req EXCEPT ![f] = IF @.msg.op = "bye" THEN Nothing ELSE [@ EXCEPT !.place = "pend"]]
  /\ UNCHANGED <<pool, fmap, sriov, vf, answers, outP, txrun, late, hasty>>

\* mbox_rx_work: an answer that no pending request has asked for is dropped.
VfRx(f) ==
  /\ vf[f].state # "off"
  /\ outP # Empty /\ outP.to = f
  /\ outP' = Empty
  /\ req' = IF req[f].place = "pend" /\ req[f].msg.op = outP.op
            THEN [req EXCEPT ![f] = [place |-> "matched", msg |-> @.msg, answer |-> outP]]
            ELSE req
  /\ UNCHANGED <<pool, fmap, sriov, vf, outV, answers, txrun, late, hasty>>

\* The answer has been copied and the caller is woken; a refusal is an error of the call.
VfWake(f) ==
  /\ req[f].place = "matched"
  /\ Proceed(f, Returned(f, req[f].answer.status >= 0, req[f].answer))
  /\ UNCHANGED <<pool, fmap, sriov, outV, answers, outP, txrun, late, hasty>>

-----------------------------------------------------------------------------
(* The PF. *)

Known(f) == f \in DOMAIN pool.dev

\* xdev_sriov_vf_online, xdev_sriov_vf_offline
Online(f) ==
  LET free == {i \in DOMAIN sriov.slot : sriov.slot[i] = NoVf}
  IN  [online |-> (sriov.online + 1) % 256,
       slot   |-> [i \in DOMAIN sriov.slot |->
                     IF i \in free /\ \A j \in free : i <= j THEN f ELSE sriov.slot[i]]]
Offline(f) ==
  [online |-> (sriov.online - 1) % 256,
   slot   |-> [i \in DOMAIN sriov.slot |-> IF sriov.slot[i] = f THEN NoVf ELSE sriov.slot[i]]]

Result(rv, p, map) == [status |-> rv, pool |-> p, fmap |-> map]

\* As if the map of a function survived.
BadUnmapped(f) == fmap

Unmapped(f) == [fmap EXCEPT ![f] = NoMap]

\* What the card's table has room for; a driver's base of -1, by way of 16 bits, is its last queue.
MapOf(base, n) == [qbase |-> base % 2048, total_q |-> n % 4096]

\* A request for queues that is granted, by the result of qdma_dev_update.
Granted(f, r) == Result(r.rv, r.pool, IF r.rv < 0 THEN fmap ELSE Unmapped(f))

\* qdma_mbox_pf_rcv_msg_handler: what the message does to the account and to the map.
Handled(m) ==
  LET f == m.src
      inRange == IsQueueInRange(pool, f, m.qid)
  IN  CASE m.op = "bye"   -> Result(0, IF Known(f) THEN DevEntryDestroy(pool, f) ELSE pool, Unmapped(f))
        [] m.op = "hello" -> Result(0, IF Known(f) THEN pool ELSE DevEntryCreate(pool, f), Unmapped(f))
        [] m.op = "fmap"  -> Result(0, pool, [fmap EXCEPT ![f] = MapOf(m.qbase, m.qmax)])
        [] m.op = "qreq" /\ Known(f) /\ ~Active(pool, f) ->
             Granted(f, DevUpdate(pool, f, m.qmax, m.qbase))
        [] m.op = "add" /\ inRange /\ CanIncrement(pool, f, m.t) ->
             Result(0, IncrementActiveQueue(pool, f, m.t), fmap)
        [] m.op = "del" /\ inRange -> Result(0, DecrementActiveQueue(pool, f, m.t), fmap)
        [] OTHER -> Result(-1, pool, fmap)

\* The answer goes to the end of the PF's list and starts its tx_work.
Answer(m, r) ==
  LET e == IF m.op = "qreq" /\ r.status >= 0 THEN r.pool.dev[m.src].entry ELSE NoMap
  IN  [op |-> m.op, to |-> m.src, status |-> r.status,
       qbase |-> e.qbase, qmax |-> e.total_q, retry |-> RetryCnt]

\* mbox_rcv_one_msg of the PF: BYE is not answered.
PfRx(f) ==
  /\ outV[f] # Empty
  /\ outV' = [outV EXCEPT ![f] = Empty]
  /\ \E r \in {Handled(outV[f])} :
       /\ pool' = r.pool
       /\ fmap' = r.fmap
       /\ answers' = IF outV[f].op = "bye" THEN answers ELSE Append(answers, Answer(outV[f], r))
  /\ sriov' = CASE outV[f].op = "hello" -> Online(f)
                [] outV[f].op = "bye"   -> Offline(f)
                [] OTHER                -> sriov
  /\ txrun' = (txrun \/ outV[f].op # "bye")
  /\ UNCHANGED <<vf, req, outP, late, hasty>>

\* mbox_tx_work of the PF, the register free.
PfSend ==
  /\ txrun /\ answers # <<>> /\ outP = Empty
  /\ outP' = [Head(answers) EXCEPT !.retry = 0]
  /\ answers' = Tail(answers)
  /\ txrun' = (Tail(answers) # <<>>)
  /\ UNCHANGED <<pool, fmap, sriov, vf, req, outV, late, hasty>>

\* As if an answer were given up at the first busy register.
BadPfRetry ==
  /\ txrun /\ answers # <<>> /\ outP # Empty
  /\ vf[outP.to].state # "off" => outP.retry < Lag
  /\ outP' = [outP EXCEPT !.retry = (@ + 1) % RetryCnt]
  /\ answers' = Tail(answers)
  /\ txrun' = RxPoll
  /\ UNCHANGED <<pool, fmap, sriov, vf, req, outV, late, hasty>>

\* The register busy: a VF that runs takes its message within Lag attempts; an answer is dropped
\* after RetryCnt, and then no timer is started for the ones behind it.
PfRetry ==
  /\ txrun /\ answers # <<>> /\ outP # Empty
  /\ vf[outP.to].state # "off" => outP.retry < Lag
  /\ outP' = [outP EXCEPT !.retry = (@ + 1) % RetryCnt]
  /\ IF Head(answers).retry = 1
     THEN answers' = Tail(answers) /\ txrun' = RxPoll
     ELSE answers' = [answers EXCEPT ![1].retry = @ - 1] /\ UNCHANGED txrun
  /\ UNCHANGED <<pool, fmap, sriov, vf, req, outV, late, hasty>>

-----------------------------------------------------------------------------
Caller(f) ==
  \/ Load(f)
  \/ \E n \in QMaxs : SetQmax(f, n)
  \/ \E k \in Kinds, i \in 0..(TotalQ - 1) : AddQueue(f, k, i)
  \/ \E q \in vf[f].queues : RemoveQueue(f, q)
  \/ Unload(f)
  \/ Stopped(f)
  \/ Expire(f)
  \/ EarlyWake(f)
  \/ Vanish(f)

VfWork(f) == VfTx(f) \/ VfRx(f) \/ VfWake(f)
PfTx == PfSend \/ PfRetry

MailNext == PfTx \/ \E f \in VF : Caller(f) \/ VfWork(f) \/ PfRx(f)

MailSpec == MailInit /\ [][MailNext]_mailVars

-----------------------------------------------------------------------------
TypeOK ==
  /\ DOMAIN pool.dev \subseteq VF
  /\ \A f \in VF : req[f].place \in {"none", "todo", "pend", "matched"}
  /\ \A f \in VF : vf[f].state \in {"off", "starting", "on", "leaving"}
  /\ outP = Empty \/ outP.to \in VF
  /\ late \subseteq VF /\ hasty \subseteq VF

\* Between calls, what a VF believes to own is what the PF has given it, its map is empty or
\* that range, a map that it counts on is there, and each of its queues is counted once.
Agrees(f) ==
  LET v == vf[f]
      e == pool.dev[f].entry
      number(t) == Cardinality({q \in v.queues : q.t = t \/ (t = "cmpt" /\ q.st)})
  IN  /\ v.qmax = e.total_q /\ (v.qmax # 0 => v.qbase = e.qbase)
      /\ fmap[f] = IF v.init_qrange THEN e ELSE NoMap
      /\ pool.dev[f].active = [t \in QType |-> number(t)]

\* The PF's slots and count are those of the functions it knows.
SlotsMatch ==
  /\ sriov.online = Cardinality(DOMAIN pool.dev)
  /\ \A f \in DOMAIN pool.dev : Cardinality({i \in DOMAIN sriov.slot : sriov.slot[i] = f}) = 1

(* The two sides' accounts of a function's queues agree between its calls, whatever the other
   functions and the mailboxes are doing, though answers carry no number and are paired with
   requests by their operation.  Excepted are the functions that gave up on an answer or vanished,
   and those that took the words of their own request for queues for the PF's answer to it; a
   caller that goes on too early with any other request does no harm.  And while no function has
   given up or vanished, the PF's slots are those of the functions it knows. *)
ConfigAgrees ==
  /\ TypeOK
  /\ \A f \in VF \ Strays : Idle(f) => Known(f) /\ Agrees(f)
  /\ late = {} => SlotsMatch

Covers(f, q) == fmap[f].qbase <= q /\ q < End(fmap[f])

(* The card never lets a function that has said BYE, or that was never seen, use a queue, also
   when its requests are executed after it has given up on them; and no queue is mapped to two of
   the functions that have neither given up, nor vanished, nor believed their own request. *)
MapsOwned ==
  /\ \A f \in VF : fmap[f] # NoMap => Known(f)
  /\ \A q \in 0..(TotalQ - 1) : Cardinality({f \in VF \ Strays : Covers(f, q)}) <= 1

(* As long as no caller gives up and no machine vanishes, a request that waits is in exactly one
   place, as itself or as its answer, and nothing is left over from an earlier one, also after a
   caller that went on too early: no answer is lost to the PF's one busy register, whichever VF
   has to empty it, and none is left in a list that nobody works on. *)
InFlight ==
  late = {} =>
    /\ answers # <<>> => txrun
    /\ \A f \in VF :
         LET queued == {i \in DOMAIN answers : answers[i].to = f}
             copies == (IF outV[f].op \in {"none", "bye"} THEN 0 ELSE 1) + Cardinality(queued)
                       + (IF outP # Empty /\ outP.to = f THEN 1 ELSE 0)
         IN  copies = (IF req[f].place = "pend" THEN 1 ELSE 0)
=============================================================================
