----------------------------- MODULE DescQueue -----------------------------
(***************************************************************************)
(* One memory-mapped queue of the QDMA driver: the callers that submit     *)
(* requests (the character device's blocking reads and writes, and its     *)
(* asynchronous vectors), the descriptor ring they share with the card,    *)
(* the worker thread or interrupt that notices completions, and the stop   *)
(* and restart of the queue (qdma_descq.c, thread.c, qdma_thread.c,        *)
(* libqdma_export.c, cdev.c).                                              *)
(*                                                                         *)
(* Data is counted in descriptors: a request's scatter list takes held[r]  *)
(* of them.  What one holder of the queue's lock does is one step; the     *)
(* card moves between such steps, so the several reads of its status page  *)
(* under one lock see one value.                                           *)
(***************************************************************************)
EXTENDS Integers, Sequences, FiniteSets, SequencesExt

CONSTANTS
  Blocking,      \* requests of read and write calls: the caller waits
  Vector,        \* the requests of one asynchronous vector, in order
  Sizes,         \* the lengths the requests may have: functions to Nat
  RingSize,      \* conf.rngsz
  Modes,         \* qdma_drv_mode: "poll", "auto" or "intr"
  MaxStarts      \* bound: how often the queue is started

Batched == Range(Vector)
Requests == Blocking \cup Batched

ASSUME DescQueueAssumption ==
  /\ Blocking \cap Batched = {} /\ IsInjective(Vector)
  /\ RingSize \in Nat /\ RingSize > 1 /\ MaxStarts \in Nat \ {0}
  /\ Sizes \subseteq [Requests -> Nat \ {0}]
  /\ Modes \subseteq {"poll", "auto", "intr"}

VARIABLES
  mode,      \* xdev->conf.qdma_drv_mode
  held,      \* the descriptors each request's scatter list takes
  descq,     \* the queue: its lists, counters, flags and descriptor memory
  cb,        \* the requests' control blocks
  pc,        \* where the callers are
  fate,      \* what the callers have been told
  caio,      \* the vector's counters
  hw,        \* the card: doorbell, next descriptor, status page, interrupt
  thread,    \* the completion thread
  stopper,   \* where the call that stops the queue is
  starts,    \* how often the queue was started
  moved,     \* history: descriptors the card has carried out per request
  expired,   \* history: a wait ended with descriptors still out
  cut        \* history: a stop ended waits of requests still listed

requestVars == <<cb, pc, fate, caio>>
ghosts == <<expired, cut>>
queueVars == <<mode, held, descq, requestVars, hw, thread, stopper, starts, moved, ghosts>>

NoRequest == "none"
Fresh == [offset |-> 0, desc_nr |-> 0, done |-> FALSE, status |-> 0]
Idle == [pidx |-> 0, idx |-> 0, status |-> 0, irq |-> FALSE]

\* The size a request claims. cdev_aio_write gives every request of a vector
\* the length of the vector's first element.
Asked(r) == IF r \in Batched THEN held[Vector[1]] ELSE held[r]

\* What qdma_descq_config_complete sets when a queue is started; the lists are
\* left as they are.
Configured(d) ==
  [d EXCEPT !.avail = RingSize - 1, !.pend_list_empty = TRUE, !.pidx = 0,
            !.cidx = 0, !.credit = 0, !.work_req_pend = 0]

\* qdma_descq_alloc_resource: the ring and the status page behind it
Allocated(d) ==
  [d EXCEPT !.allocated = TRUE, !.desc = [i \in 0 .. RingSize - 1 |-> NoRequest]]

\* qdma_descq_free_resource
Freed(d) == [d EXCEPT !.allocated = FALSE]

\* qdma_thread_add_work: only polled mode has a thread.
WithThread(t) == [t EXCEPT !.has = (mode = "poll"), !.cmplthp = (mode = "poll")]

\* qdma_descq_init: the lists are initialised here only.
DescqInit ==
  [Allocated([q_state |-> "enabled", q_stop_wait |-> FALSE, allocated |-> FALSE,
              work_list |-> <<>>, pend_list |-> <<>>, avail |-> 0,
              pend_list_empty |-> TRUE, pidx |-> 0, cidx |-> 0, credit |-> 0,
              work_req_pend |-> 0, endless |-> FALSE, desc |-> <<>>])
     EXCEPT !.allocated = FALSE]

Init ==
  /\ mode \in Modes /\ held \in Sizes
  /\ descq = DescqInit
  /\ cb = [r \in Requests |-> Fresh]
  /\ pc = [r \in Requests |-> "new"]
  /\ fate = [r \in Requests |-> "none"]
  /\ caio = [cmpl_count |-> 0, err_cnt |-> 0, failed |-> FALSE]
  /\ hw = Idle
  /\ thread = [pc |-> "look", schedule |-> FALSE, has |-> FALSE, cmplthp |-> FALSE]
  /\ stopper = "idle" /\ starts = 0
  /\ moved = [r \in Requests |-> 0]
  /\ expired = FALSE /\ cut = FALSE

(***************************************************************************)
(* The driver's work under the queue's lock: functions of what it may      *)
(* change, s = [d |-> descq, c |-> cb, f |-> fate, a |-> caio].            *)
(***************************************************************************)
Now == [d |-> descq, c |-> cb, f |-> fate, a |-> caio]

\* Op(e), for an e that is worked out once however often Op mentions it.
Once(Op(_), e) == CHOOSE v \in {Op(x) : x \in {e}} : TRUE

\* As if only an error after the first were counted.
BadCount(a, error) ==
  [failed |-> a.failed \/ error, cmpl_count |-> a.cmpl_count + 1,
   err_cnt |-> a.err_cnt + (IF a.failed THEN 1 ELSE 0)]

\* qdma_req_completed: an element of the vector is over; the counter of
\* errors counts every element after the first that failed.
Count(a, error) ==
  LET failed == a.failed \/ error
  IN  [failed |-> failed, cmpl_count |-> a.cmpl_count + 1,
       err_cnt |-> a.err_cnt + (IF failed THEN 1 ELSE 0)]

\* The caller is told: through fp_done, or by waking it (it then reads cb).
Tell(s, r, error) ==
  IF r \in Batched THEN [s EXCEPT !.f[r] = IF error THEN "error" ELSE "ok",
                                  !.a = Count(@, error)]
                   ELSE s

\* qdma_sgt_req_done
ReqDone(s, r) ==
  LET t == [s EXCEPT !.d.pend_list = Tail(@), !.c[r].done = TRUE, !.c[r].status = 0,
                     !.d.pend_list_empty = (s.d.avail = RingSize - 1)]
  IN  Tell(t, r, s.c[r].offset # Asked(r))

\* As if a request were over with the first of its descriptors.
BadSettle(s, r) ==
  IF s.d.credit = 0 THEN s ELSE ReqDone([s EXCEPT !.d.credit = 0], r)

\* As if what a request has had were forgotten.
ForgetfulSettle(s, r) ==
  IF s.d.credit >= s.c[r].desc_nr
  THEN ReqDone([s EXCEPT !.d.credit = @ - s.c[r].desc_nr], r)
  ELSE [s EXCEPT !.d.credit = 0]

\* One turn of the loop over pend_list in descq_mm_n_h2c_cmpl_status.
Settle(before, r) ==
  LET Turn(s) ==
        LET cr == s.d.credit
            nr == s.c[r].desc_nr
        IN  CASE cr = 0 -> s
              [] cr > 0 /\ cr >= nr -> ReqDone([s EXCEPT !.d.credit = cr - nr], r)
              [] OTHER -> [s EXCEPT !.d.credit = 0, !.c[r].desc_nr = nr - cr]
  IN  Once(Turn, before)

\* descq_mm_n_h2c_cmpl_status: what the status page says has been done since
\* the last look becomes free descriptors and credit for the oldest requests.
Complete(s) ==
  LET cr == (hw.status - s.d.cidx) % RingSize
      t  == [s EXCEPT !.d.cidx = hw.status, !.d.avail = @ + cr, !.d.credit = @ + cr]
  IN  IF s.d.pidx = s.d.cidx \/ cr = 0 THEN s ELSE FoldLeft(Settle, t, s.d.pend_list)

\* qdma_sgl_find_offset: what of the scatter list is not yet described
Rest(s, r) == held[r] - s.c[r].offset

\* As if a request had to be longer than its count.
BadShort(s, r, n) == s.c[r].offset + n <= Asked(r)

\* With n more descriptors, its count is still not reached.
Short(s, r, n) == s.c[r].offset + n < Asked(r)

\* qdma_update_request: n more descriptors; with its count reached, the
\* request at the head of work_list has only to be waited for.
UpdateRequest(s, r, n) ==
  LET t == [s EXCEPT !.c[r].offset = @ + n, !.c[r].desc_nr = @ + n]
  IN  IF Short(s, r, n) THEN t
      ELSE [t EXCEPT !.d.work_list = Tail(@), !.d.work_req_pend = @ - 1,
                     !.d.pend_list = Append(@, r)]

\* One turn of the loop over work_list in descq_mm_proc_request: descriptors
\* for as much of the scatter list as the ring has room for. A request whose
\* list is used up before its count is reached stays at the head, and the
\* loop takes it again for ever.
Describe(before, r) ==
  LET Turn(s) ==
        LET n == IF Rest(s, r) < s.d.avail THEN Rest(s, r) ELSE s.d.avail
            slots == {(s.d.pidx + i) % RingSize : i \in 0 .. n - 1}
            t == [s EXCEPT !.d.desc = [i \in DOMAIN @ |-> IF i \in slots THEN r ELSE @[i]],
                           !.d.pidx = (@ + n) % RingSize, !.d.avail = @ - n,
                           !.d.endless = (Short(s, r, n) /\ n < s.d.avail)]
        IN  IF s.d.avail = 0 \/ s.d.endless THEN s ELSE UpdateRequest(t, r, n)
  IN  Once(Turn, before)

\* descq_mm_proc_request: in polled and automatic mode it looks at the status
\* page first.
ProcRequest(s) ==
  LET Fill(p) ==
        LET Ring(w) == IF w.d.pidx = p.d.pidx THEN w ELSE [w EXCEPT !.d.pend_list_empty = FALSE]
        IN  Once(Ring, FoldLeft(Describe, p, p.d.work_list))
  IN  CASE s.d.q_stop_wait -> Complete(s)
        [] ~s.d.q_stop_wait /\ s.d.q_state # "online" -> s
        [] OTHER -> Once(Fill, IF mode = "intr" THEN s ELSE Complete(s))

\* qdma_descq_service_cmpl_update for a memory-mapped queue.
Service(s) ==
  IF mode # "intr" THEN ProcRequest(s)
  ELSE LET More(t) == IF t.d.work_req_pend # 0 THEN ProcRequest(t) ELSE t
       IN  Once(More, Complete(s))

\* The lock's holder leaves s behind: new descriptors are handed to the card
\* by its doorbell.
Written(s) == s.d.pidx # descq.pidx /\ ~s.d.endless

Leave(s, irq) ==
  /\ descq' = s.d /\ cb' = s.c /\ fate' = s.f /\ caio' = s.a
  /\ hw' = [hw EXCEPT !.pidx = IF Written(s) THEN s.d.pidx ELSE @, !.irq = irq]

LockFree == ~descq.endless

(***************************************************************************)
(* The callers.                                                            *)
(***************************************************************************)
\* qdma_request_submit up to its first unlock.
Submit(r) ==
  /\ pc[r] = "new" /\ LockFree
  /\ IF descq.q_state = "online"
     THEN /\ descq' = [descq EXCEPT !.work_list = Append(@, r), !.work_req_pend = @ + 1]
          /\ pc' = [pc EXCEPT ![r] = "listed"]
          /\ UNCHANGED fate
     ELSE /\ pc' = [pc EXCEPT ![r] = "over"]
          /\ fate' = [fate EXCEPT ![r] = "refused"]
          /\ UNCHANGED descq
  /\ UNCHANGED <<mode, held, cb, caio, hw, thread, stopper, starts, moved, ghosts>>

\* qdma_batch_request_submit up to its second unlock: the requests join the
\* list without being counted.
SubmitVector ==
  /\ LockFree /\ Vector # <<>> /\ pc[Vector[1]] = "new"
  /\ IF descq.q_state = "online"
     THEN /\ descq' = [descq EXCEPT !.work_list = @ \o Vector]
          /\ pc' = [r \in Requests |-> IF r \in Batched THEN "listed" ELSE pc[r]]
          /\ UNCHANGED fate
     ELSE /\ pc' = [r \in Requests |-> IF r \in Batched THEN "over" ELSE pc[r]]
          /\ fate' = [r \in Requests |-> IF r \in Batched THEN "refused" ELSE fate[r]]
          /\ UNCHANGED descq
  /\ UNCHANGED <<mode, held, cb, caio, hw, thread, stopper, starts, moved, ghosts>>

\* As if the thread were not woken.
BadProcess(r) ==
  /\ pc[r] = "listed" /\ LockFree
  /\ \E s \in {ProcRequest(Now)} : Leave(s, hw.irq)
  /\ pc' = IF r \in Blocking THEN [pc EXCEPT ![r] = "waits"]
           ELSE [b \in Requests |-> IF b \in Batched THEN "over" ELSE pc[b]]
  /\ UNCHANGED <<mode, held, thread, stopper, starts, moved, ghosts>>

\* The call of qdma_descq_proc_sgt_request that follows; then a blocking
\* caller waits and an asynchronous one leaves.
Process(r) ==
  /\ pc[r] = "listed" /\ LockFree
  /\ \E s \in {ProcRequest(Now)} :
         /\ Leave(s, hw.irq)
         /\ thread' = [thread EXCEPT !.schedule = @ \/ (thread.cmplthp /\ Written(s))]
  /\ pc' = IF r \in Blocking THEN [pc EXCEPT ![r] = "waits"]
           ELSE [b \in Requests |-> IF b \in Batched THEN "over" ELSE pc[b]]
  /\ UNCHANGED <<mode, held, stopper, starts, moved, ghosts>>

Without(list, r) == SelectSeq(list, LAMBDA x : x # r)

\* qdma_request_wait_for_cmpl after its wait: the request is done, or the ten
\* seconds are over and the request is taken off its list.
Wake(r) ==
  /\ pc[r] = "waits" /\ cb[r].done /\ LockFree
  /\ pc' = [pc EXCEPT ![r] = "over"]
  /\ fate' = [fate EXCEPT ![r] = IF cb[r].status = 0 THEN "ok" ELSE "error"]
  /\ UNCHANGED <<mode, held, descq, cb, caio, hw, thread, stopper, starts, moved, ghosts>>

Expire(r) ==
  /\ pc[r] = "waits" /\ ~cb[r].done /\ LockFree
  /\ descq' = [descq EXCEPT !.work_list = Without(@, r), !.pend_list = Without(@, r)]
  /\ pc' = [pc EXCEPT ![r] = "over"]
  /\ fate' = [fate EXCEPT ![r] = "error"]
  /\ expired' = (expired \/ cb[r].offset > 0)
  /\ UNCHANGED <<mode, held, cb, caio, hw, thread, stopper, starts, moved, cut>>

(***************************************************************************)
(* Completions: the thread of polled mode, the interrupt of the others.    *)
(***************************************************************************)
\* qdma_thread_cmpl_status_pend
Pending == descq.pend_list # <<>> \/ descq.work_list # <<>>

\* xthread_main: look for work and wait if there is none...
Look ==
  /\ thread.pc = "look" /\ LockFree
  /\ thread' = [thread EXCEPT !.pc = IF thread.has /\ Pending THEN "work" ELSE "sleep"]
  /\ UNCHANGED <<mode, held, descq, requestVars, hw, stopper, starts, moved, ghosts>>

\* ...until somebody schedules it; then do it.
Work ==
  /\ thread.pc = "work" \/ (thread.pc = "sleep" /\ thread.schedule)
  /\ LockFree
  /\ \E s \in {IF thread.has THEN Service(Now) ELSE Now} :
         /\ Leave(s, hw.irq)
         /\ thread' = [thread EXCEPT !.pc = "look",
                                     !.schedule = thread.cmplthp /\ Written(s)]
  /\ UNCHANGED <<mode, held, pc, stopper, starts, moved, ghosts>>

\* intr_work, queued by the card's interrupt
Interrupt ==
  /\ hw.irq /\ LockFree
  /\ \E s \in {Service(Now)} : Leave(s, FALSE)
  /\ UNCHANGED <<mode, held, pc, thread, stopper, starts, moved, ghosts>>

(***************************************************************************)
(* The card: carries out the descriptors between its own index and the     *)
(* doorbell in order, and now and then writes its index to the status page.*)
(***************************************************************************)
Carry ==
  /\ hw.idx # hw.pidx
  /\ moved' = IF descq.desc[hw.idx] = NoRequest THEN moved
              ELSE [moved EXCEPT ![descq.desc[hw.idx]] = @ + 1]
  /\ hw' = [hw EXCEPT !.idx = (@ + 1) % RingSize]
  /\ UNCHANGED <<mode, held, descq, requestVars, thread, stopper, starts, ghosts>>

WriteBack ==
  /\ hw.status # hw.idx
  /\ hw' = [hw EXCEPT !.status = hw.idx, !.irq = (mode # "poll")]
  /\ UNCHANGED <<mode, held, descq, requestVars, thread, stopper, starts, moved, ghosts>>

(***************************************************************************)
(* Start and stop.                                                         *)
(***************************************************************************)
\* qdma_queue_start; nobody else uses a queue that is not online.
Start ==
  /\ stopper = "idle" /\ descq.q_state = "enabled" /\ LockFree /\ starts < MaxStarts
  /\ starts' = starts + 1
  /\ descq' = [Allocated(Configured(descq)) EXCEPT !.q_state = "online"]
  /\ hw' = [Idle EXCEPT !.irq = hw.irq]
  /\ thread' = WithThread(thread)
  /\ UNCHANGED <<mode, held, requestVars, stopper, moved, ghosts>>

\* qdma_queue_stop: no more descriptors from now on
StopAsked ==
  /\ stopper = "idle" /\ descq.q_state = "online" /\ LockFree
  /\ descq' = [descq EXCEPT !.q_stop_wait = TRUE]
  /\ stopper' = "waits"
  /\ UNCHANGED <<mode, held, requestVars, hw, thread, starts, moved, ghosts>>

\* The wait for the pending requests is over, because there are none or
\* because its time has passed: what is still listed is told -ENXIO.
Refuse(s, r) ==
  LET t == [s EXCEPT !.c[r].done = TRUE, !.c[r].status = -1]
  IN  Tell(t, r, TRUE)

StopEnds ==
  /\ stopper = "waits" /\ LockFree
  /\ LET listed == descq.pend_list \o descq.work_list
         s == FoldLeft(Refuse, Now, listed)
         OfCallers(list) == SelectSeq(list, LAMBDA r : r \in Blocking)
         fromWork == Len(descq.work_list) - Len(OfCallers(descq.work_list))
     IN  /\ cb' = s.c /\ fate' = s.f /\ caio' = s.a
         /\ descq' = [descq EXCEPT !.q_state = "enabled", !.q_stop_wait = FALSE,
                                   !.pend_list = OfCallers(@), !.work_list = OfCallers(@),
                                   !.work_req_pend = @ - fromWork]
         /\ cut' = (cut \/ listed # <<>>)
  /\ stopper' = "detaches"
  /\ UNCHANGED <<mode, held, pc, hw, thread, starts, moved, expired>>

\* qdma_thread_remove_work: first the queue forgets its thread...
Detach ==
  /\ stopper = "detaches" /\ LockFree
  /\ thread' = [thread EXCEPT !.cmplthp = FALSE]
  /\ stopper' = "removes"
  /\ UNCHANGED <<mode, held, descq, requestVars, hw, starts, moved, ghosts>>

\* ...then the thread the queue; the contexts are cleared, so that the card
\* stops, and the ring is freed.
Release ==
  /\ stopper = "removes"
  /\ thread' = [thread EXCEPT !.has = FALSE]
  /\ descq' = Freed(descq)
  /\ hw' = [hw EXCEPT !.pidx = hw.idx, !.status = hw.idx]
  /\ stopper' = "idle"
  /\ UNCHANGED <<mode, held, requestVars, starts, moved, ghosts>>
QueueNext ==
  \/ \E r \in Blocking : Submit(r) \/ Wake(r) \/ Expire(r)
  \/ \E r \in Blocking \cup {Vector[1]} : Process(r)
  \/ SubmitVector
  \/ Look \/ Work \/ Interrupt \/ Carry \/ WriteBack
  \/ Start \/ StopAsked \/ StopEnds \/ Detach \/ Release

\* The scheduler runs whoever can run, and the card works on; nobody has to
\* submit, to stop the queue, or to lose patience.
QueueFairness ==
  /\ \A r \in Blocking : WF_queueVars(Process(r) \/ Wake(r))
  /\ WF_queueVars(Process(Vector[1]))
  /\ WF_queueVars(Look \/ Work)
  /\ WF_queueVars(Interrupt)
  /\ WF_queueVars(Carry \/ WriteBack)
  /\ WF_queueVars(StopEnds \/ Detach \/ Release)

Spec == Init /\ [][QueueNext]_queueVars /\ QueueFairness

(***************************************************************************)
(* Properties.                                                             *)
(***************************************************************************)
Listed == descq.work_list \o descq.pend_list
Out == (descq.pidx - descq.cidx) % RingSize
Orderly == ~expired /\ ~cut

TypeOK ==
  /\ mode \in Modes /\ held \in Sizes
  /\ descq.q_state \in {"enabled", "online"}
  /\ {descq.q_stop_wait, descq.allocated, descq.pend_list_empty, descq.endless} \subseteq BOOLEAN
  /\ Range(Listed) \subseteq Requests
  /\ {descq.avail, descq.pidx, descq.cidx, descq.credit} \subseteq 0 .. RingSize * MaxStarts
  /\ descq.work_req_pend \in Int
  /\ descq.desc \in [0 .. RingSize - 1 -> Requests \cup {NoRequest}]
  /\ \A r \in Requests : /\ {cb[r].offset, cb[r].desc_nr, moved[r]} \subseteq Nat
                          /\ cb[r].done \in BOOLEAN /\ cb[r].status \in {0, -1}
  /\ pc \in [Requests -> {"new", "listed", "waits", "over"}]
  /\ fate \in [Requests -> {"none", "ok", "error", "refused"}]
  /\ {hw.pidx, hw.idx, hw.status} \subseteq 0 .. RingSize - 1 /\ hw.irq \in BOOLEAN
  /\ thread.pc \in {"look", "sleep", "work"}
  /\ stopper \in {"idle", "waits", "detaches", "removes"}
  /\ starts \in 0 .. MaxStarts

\* A caller is told the outcome only when the card has carried out every
\* descriptor of the request, so that the buffers are the caller's again, and
\* is told success only for the whole of it. Holds as long as no wait has
\* expired and no stop has cut requests off.
ToldWhenMoved ==
  Orderly => \A r \in Requests :
    fate[r] \in {"ok", "error"} =>
      /\ moved[r] = cb[r].offset
      /\ fate[r] = "ok" => moved[r] = Asked(r)

\* libqdma_export.h: a request's submission returns the bytes transferred.
\* The same without the condition: false, as the credits of a request that
\* expired complete the next one.
ReturnsTransferred ==
  ~cut => \A r \in Requests : fate[r] = "ok" => moved[r] = Asked(r)

\* What the lists still wait for is what is out on the ring plus the credit
\* kept: with one credit too few a request never completes, with one too many
\* the next completes early.
CreditsMatch ==
  (Orderly /\ descq.q_state = "online") =>
    /\ FoldLeft(LAMBDA n, r : n + cb[r].desc_nr, 0, Listed) = Out + descq.credit
    /\ descq.avail = RingSize - 1 - Out

\* A control block on a list belongs to a caller who has not been told, once:
\* the others have gone, and their memory with them. A stop leaves the
\* blocking requests it cuts off on the lists.
ListsLive ==
  ~cut => /\ IsInjective(Listed)
          /\ \A r \in Range(Listed) : fate[r] = "none"

\* The loop that holds the lock ends unless the first element of a vector is
\* longer than another.
LoopEnds ==
  descq.endless => \E r \in Batched : held[r] < held[Vector[1]]

\* An interrupt that is still on its way when the queue is stopped does not
\* read the status page that the stop has freed.
NoLateInterrupt ==
  (Orderly /\ mode = "intr" /\ hw.irq /\ ~descq.allocated) => descq.pidx = descq.cidx

\* The asynchronous call reports no more successes than the card carried out.
VectorReported ==
  Orderly => caio.cmpl_count - caio.err_cnt <=
               Cardinality({r \in Batched : moved[r] = Asked(r)})

Told(r) == fate[r] # "none"

Waiting == {r \in Requests : pc[r] # "new" /\ fate[r] = "none"}

\* A request that was listed is answered: the thread sleeps through none of
\* its completions and a stop forgets nobody, as long as no wait has expired.
\* (Each request is made once, so that answering all of them for ever is
\* answering each.)
Answered == []<>(Waiting = {} \/ mode = "intr" \/ ~Orderly \/ descq.endless)

\* What the queue keeps: its types, its lists and counts, its status page.
QueueKept == TypeOK /\ CreditsMatch /\ ListsLive /\ NoLateInterrupt
=============================================================================
