--------------------------- MODULE DeviceControl ----------------------------
(***************************************************************************)
(* The control path of the physical functions of one board: a function is  *)
(* opened and closed (qdma_mod.c, xdev.c), given a number of queues        *)
(* (sysfs, libqdma_config.c), and its queues are added, started, stopped   *)
(* and removed (netlink, nl.c, qdma_mod.c, libqdma_export.c).  Netlink     *)
(* handles one command at a time and every call below runs to its end      *)
(* before the next; what is shared is the pool of queues, the function map *)
(* in the card, and the tables that three layers keep of the same queues:  *)
(* the descriptor queues of libqdma, the queue data of the module, and the *)
(* character devices, one for a pair of queues.                            *)
(***************************************************************************)
EXTENDS QueueResources

CONSTANTS Func,          \* the functions
          QSets,         \* numbers of queues that are asked for
          RingSizes,     \* interrupt ring sizes that are asked for
          Requests,      \* the queue numbers a request may name
          AnyIndex,      \* QDMA_QUEUE_IDX_INVALID: the library chooses the number
          Aggregating,   \* the functions that are loaded in a mode with interrupt rings and have vectors
          DeviceIndex,   \* dma_device_index of the board: 0, 1, .. in the order of their discovery
          BusNumber,     \* its bus number
          MaxActive,     \* bound of the exploration: queues counted as active
          MaxSized       \* bound of the exploration: functions whose rings have another size

\* QDMA_INDIRECT_INTR_RING_SIZE_32KB, the largest interrupt ring
LargestRing == 7

ASSUME ControlAssumption == QSets \subseteq Nat /\ Requests \subseteq Nat \cup {AnyIndex}

VARIABLES pool,          \* the board's queues
          pf,            \* what the driver keeps of each function
          fmap,          \* the card's function map
          stale          \* history: a function without queues kept a base

controlVars == <<pool, pf, fmap, stale>>

Row == [h2c |-> 0, c2h |-> 1, cmpt |-> 2]
Disabled == [state |-> "disabled", st |-> FALSE, q_type |-> "h2c", qidx |-> 0]
NoData == [qhndl |-> 0, xcdev |-> FALSE]
Closed == [qmax |-> 0, qbase |-> -1, descq |-> <<>>, init_qrange |-> FALSE, rngsz |-> 0,
           xqmax |-> 0, qdata |-> <<>>, dirs |-> <<>>]

Opened == DOMAIN pool.dev
Table(n, value) == [i \in 0..(3 * n - 1) |-> value]

\* As if the function map were kept over a change of the number of queues.
BadConfigured(entry, old) ==
  LET n == entry.total_q
  IN  [qmax |-> n, qbase |-> entry.qbase, descq |-> Table(n, Disabled), init_qrange |-> old.init_qrange,
       rngsz |-> old.rngsz, xqmax |-> IF n = 0 THEN old.xqmax ELSE n,
       qdata |-> Table(n, NoData), dirs |-> [i \in 0..(n - 1) |-> {}]]

\* qdma_device_init, with the entry that qdma_dev_qinfo_get returns, and
\* xpdev_qdata_realloc, which leaves xpdev->qmax alone when it is asked for none.
Configured(entry, old) ==
  LET n == entry.total_q
  IN  [qmax |-> n, qbase |-> entry.qbase, descq |-> Table(n, Disabled), init_qrange |-> FALSE,
       rngsz |-> old.rngsz, xqmax |-> IF n = 0 THEN old.xqmax ELSE n,
       qdata |-> Table(n, NoData), dirs |-> [i \in 0..(n - 1) |-> {}]]

\* History: set once an entry without queues keeps a base.
NowStale(p) == stale \/ \E f \in DOMAIN p.dev : p.dev[f].entry.total_q = 0 /\ p.dev[f].entry.qbase >= 0

ControlInit ==
  /\ pool = MasterCreate
  /\ pf = [f \in Func |-> Closed]
  /\ fmap = [f \in Func |-> NoQueues]
  /\ stale = FALSE

\* Probe: qsets_max is 0 and qsets_base is -1, so the function owns nothing yet.
DeviceOpen(f) ==
  /\ f \notin Opened
  /\ pool' = DevUpdate(DevEntryCreate(pool, f), f, 0, -1).pool
  /\ pf' = [pf EXCEPT ![f] = Configured(pool'.dev[f].entry, Closed)]
  /\ UNCHANGED <<fmap, stale>>

\* As if the completion queue of a streaming queue were not given back.
BadUncounted(p, f, q) == DecrementActiveQueue(p, f, q.q_type)

\* qdma_queue_remove's counts: a streaming C2H queue counts as a completion queue too.
Uncounted(p, f, q) ==
  LET own == DecrementActiveQueue(p, f, q.q_type)
  IN  IF q.st /\ q.q_type = "c2h" THEN DecrementActiveQueue(own, f, "cmpt") ELSE own

\* The H2C and C2H queues that count as queues of type t.
Leaving(f, t) ==
  {n \in 0..(2 * pf[f].qmax - 1) :
     LET q == pf[f].descq[n]
     IN  /\ q.state # "disabled"
         /\ q.q_type = t \/ (t = "cmpt" /\ q.q_type = "c2h" /\ q.st)}

\* qdma_device_cleanup stops and removes the H2C and the C2H queues, each with its counts.
Cleaned(p, f) ==
  LET gone(t) == Cardinality(Leaving(f, t))
  IN  [p EXCEPT !.dev[f].active = [t \in QType |-> IF @[t] > gone(t) THEN @[t] - gone(t) ELSE 0],
                !.active = (@ - gone("h2c") - gone("c2h") - gone("cmpt")) % CountModulus]

\* Unload.  When the queue data are gone but xpdev->qmax is not (SetQmax with 0),
\* xpdev_device_cleanup runs over a null table; the model has no such step.
DeviceClose(f) ==
  /\ f \in Opened
  /\ pf[f].xqmax = pf[f].qmax
  /\ pool' = MasterDestroy(DevEntryDestroy(Cleaned(pool, f), f))
  /\ pf' = [pf EXCEPT ![f] = Closed]
  /\ stale' = (stale /\ DOMAIN pool'.dev # {})
  /\ UNCHANGED fmap

SetQmax(f, n) ==
  /\ f \in Opened
  /\ ~Active(pool, f)
  /\ \E r \in {DevUpdate(pool, f, n, -1)} :
         IF r.rv < 0 THEN pool' = r.pool /\ UNCHANGED pf
         ELSE /\ pool' = Cleaned(r.pool, f)
              /\ pf' = [pf EXCEPT ![f] = Configured(r.pool.dev[f].entry, @)]
  /\ stale' = NowStale(pool')
  /\ UNCHANGED fmap

\* qdma_set_intr_rngsz asks for the active queues of the board by its bus number; the board is
\* listed under its index, and a number that is not listed has none.
SetIntrRngsz(f, n) ==
  /\ f \in Opened
  /\ n # pf[f].rngsz
  /\ f \in Aggregating
  /\ ActiveQueueCount(pool, BusNumber, DeviceIndex) = 0
  /\ n =< LargestRing
  /\ Cardinality({g \in Func : pf[g].rngsz # 0}) < MaxSized
  /\ pf' = [pf EXCEPT ![f].rngsz = n]
  /\ UNCHANGED <<pool, fmap, stale>>

At(f, t, i) == pf[f].descq[Row[t] * pf[f].qmax + i]
Present(f, t, i) == At(f, t, i).state # "disabled"

\* A queue exists at this index and it streams (the mode bit of refmask).
Streams(f, i) == \E t \in {"h2c", "c2h"} : Present(f, t, i) /\ At(f, t, i).st

\* As if a completion queue could go where a streaming queue has its ring.
BadIsUsableQueue(f, i, t, st) ==
  /\ ~Present(f, t, i)
  /\ t # "cmpt" =>
       LET pair == IF t = "h2c" THEN "c2h" ELSE "h2c"
       IN  /\ st => ~Present(f, "cmpt", i)
           /\ Present(f, pair, i) => Streams(f, i) = st

IsUsableQueue(f, i, t, st) ==
  /\ ~Present(f, t, i)
  /\ IF t = "cmpt" THEN ~Streams(f, i)
     ELSE LET pair == IF t = "h2c" THEN "c2h" ELSE "h2c"
          IN  /\ st => ~Present(f, "cmpt", i)
              /\ Present(f, pair, i) => Streams(f, i) = st

\* The index a request is given: the one it names, or the first usable one.
GrantedIndex(f, t, st, q) ==
  LET usable == {i \in 0..(pf[f].qmax - 1) : IsUsableQueue(f, i, t, st)}
  IN  IF q # AnyIndex THEN usable \cap {q} ELSE {i \in usable : \A j \in usable : i <= j}

\* The descriptor queue that is enabled: the search has already moved the
\* pointer i steps when it adds i to it.
Enabled(f, t, i, q) == Row[t] * pf[f].qmax + (IF q = AnyIndex THEN 2 * i ELSE i)

\* The function map is written when the first queue after qdma_device_init is added.
PrepQResource(f) ==
  fmap' = IF pf[f].init_qrange THEN fmap
          ELSE [fmap EXCEPT ![f] = [qbase |-> pf[f].qbase, total_q |-> pf[f].qmax]]

\* As if the handle did not count the rows before the type's own.
BadListed(p, t, i, made) ==
  LET n == Row[t] * p.xqmax + i
  IN  IF t = "cmpt" THEN [p EXCEPT !.qdata[n].qhndl = i]
      ELSE IF made THEN [p EXCEPT !.qdata[n] = [qhndl |-> i, xcdev |-> TRUE], !.dirs[i] = @ \cup {t}]
      ELSE [p EXCEPT !.qdata[n].qhndl = i]

\* xpdev_queue_add, after the library has added queue i of type t: one character
\* device serves a pair; its creation may fail, and then the queue stays added.
Listed(p, t, i, made) ==
  LET n    == Row[t] * p.xqmax + i
      hndl == Row[t] * p.qmax + i
  IN  IF t = "cmpt" THEN [p EXCEPT !.qdata[n].qhndl = hndl]
      ELSE IF made THEN [p EXCEPT !.qdata[n] = [qhndl |-> hndl, xcdev |-> TRUE], !.dirs[i] = @ \cup {t}]
      ELSE [p EXCEPT !.qdata[n].qhndl = hndl]

\* Only a device that has to be created can fail to be.
MayFail(f, t, i) == t # "cmpt" /\ pf[f].dirs[i] = {}

QueueAdd(f, t, st, q) ==
  /\ f \in Opened
  /\ pf[f].qmax # 0
  /\ ~(st /\ t = "cmpt")
  /\ pool.dev[f].active[t] < pf[f].qmax
  /\ pool.active < MaxActive
  /\ \E i \in GrantedIndex(f, t, st, q), made \in BOOLEAN :
       LET slot  == Enabled(f, t, i, q)
           queue == [state |-> "enabled", st |-> st, q_type |-> t, qidx |-> i]
           now   == [pf[f] EXCEPT !.init_qrange = TRUE,
                                  !.descq = [n \in DOMAIN @ |-> IF n = slot THEN queue ELSE @[n]]]
           one   == IncrementActiveQueue(pool, f, t)
           both  == IF st /\ t = "c2h" THEN IncrementActiveQueue(one, f, "cmpt") ELSE one
           fits  == CanIncrement(pool, f, t) /\ (st /\ t = "c2h" => CanIncrement(one, f, "cmpt"))
       IN  /\ made \/ MayFail(f, t, i)
           /\ pool' = IF fits THEN both ELSE pool
           /\ pf' = [pf EXCEPT ![f] = IF fits THEN Listed(now, t, i, made) ELSE now]
  /\ PrepQResource(f)
  /\ UNCHANGED stale

\* xpdev_queue_get with check_qhndl; with no queue data there is nothing to get.
Known(f, t, i) ==
  /\ f \in Opened
  /\ i < pf[f].qmax
  /\ pf[f].qdata[Row[t] * pf[f].qmax + i] # NoData

\* qdma_device_get_descq_by_id with init set, for the handle the module keeps.
Handle(f, t, i) == pf[f].qdata[Row[t] * pf[f].qmax + i].qhndl

MoveQueue(f, t, i, from, to) ==
  /\ Known(f, t, i)
  /\ pf[f].descq[Handle(f, t, i)].state = from
  /\ pf' = [pf EXCEPT ![f].descq[Handle(f, t, i)].state = to]

QueueStart(f, t, i) ==
  /\ MoveQueue(f, t, i, "enabled", "online")
  /\ UNCHANGED <<pool, fmap, stale>>

QueueStop(f, t, i) ==
  /\ MoveQueue(f, t, i, "online", "enabled")
  /\ UNCHANGED <<pool, fmap, stale>>

QueueDelete(f, t, i) ==
  /\ Known(f, t, i)
  /\ t # "cmpt" => pf[f].qdata[Row[t] * pf[f].qmax + i].xcdev
  /\ LET h == Handle(f, t, i)
         q == pf[f].descq[h]
     IN  /\ q.state = "enabled"
         /\ pool' = Uncounted(pool, f, q)
         /\ pf' = [pf EXCEPT ![f].descq[h] = Disabled,
                             ![f].qdata[Row[t] * pf[f].qmax + i] = NoData,
                             ![f].dirs[i] = @ \ {t}]
  /\ UNCHANGED <<fmap, stale>>

ControlNext ==
  \E f \in Func :
    \/ DeviceOpen(f)
    \/ DeviceClose(f)
    \/ \E n \in QSets : SetQmax(f, n)
    \/ \E n \in RingSizes : SetIntrRngsz(f, n)
    \/ \E t \in QType, st \in BOOLEAN, q \in Requests : QueueAdd(f, t, st, q)
    \/ \E t \in QType, i \in Requests \ {AnyIndex} : QueueStart(f, t, i)
    \/ \E t \in QType, i \in Requests \ {AnyIndex} : QueueStop(f, t, i)
    \/ \E t \in QType, i \in Requests \ {AnyIndex} : QueueDelete(f, t, i)

ControlSpec == ControlInit /\ [][ControlNext]_controlVars

-----------------------------------------------------------------------------
ControlTypeOK ==
  /\ Opened \subseteq Func
  /\ pool.active \in 0..(CountModulus - 1)
  /\ \A f \in Opened : pool.dev[f].active \in [QType -> 0..TotalQ]
  /\ \A f \in Func : DOMAIN pf[f].descq = 0..(3 * pf[f].qmax - 1)
  /\ stale \in BOOLEAN

Owners(q) == {f \in Opened : IsQueueInRange(pool, f, q)}
Chunks(q) == {i \in DOMAIN pool.free : pool.free[i].qbase <= q /\ q < End(pool.free[i])}

(* Whatever is asked for, refused, given back and closed, every queue of the board is in
   exactly one place: one free chunk or one function's range (qdma_request_q_resource splits,
   merges and restores chunks). *)
Partition ==
  \A q \in 0..(TotalQ - 1) : Cardinality(Owners(q)) + Cardinality(Chunks(q)) = 1

(* Neighbouring free queues are in one chunk, so a request is refused only when no run of free
   queues is long enough; it can fail to hold once a function without queues has kept a base
   (a refused request restores "zero queues at the smallest chunk", and the next refusal
   splits whatever chunk holds that base by then). *)
ChunksApart ==
  stale \/ \A i \in 1..(Len(pool.free) - 1) : End(pool.free[i]) < pool.free[i + 1].qbase

Queues(f, t) == {i \in 0..(pf[f].qmax - 1) : Present(f, t, i)}

\* The queues of type t that are in use: a streaming C2H queue occupies a completion queue too.
InUse(f, t) ==
  Queues(f, t) \cup (IF t = "cmpt" THEN {i \in Queues(f, "c2h") : At(f, "c2h", i).st} ELSE {})

(* The counts that decide whether the number of queues may change agree with the descriptor
   queues, and the board's count covers all functions, so that nothing is reconfigured under a
   queue in use. *)
CountsMatch ==
  /\ \A f \in Opened : \A t \in QType : pool.dev[f].active[t] = Cardinality(InUse(f, t))
  /\ pool.active >= Cardinality({q \in Opened \X QType \X (0..(TotalQ - 1)) : q[3] \in InUse(q[1], q[2])})

(* Two queues never share a completion ring, and the two directions of an index stream both
   or neither (is_usable_queue, whatever the order of additions and removals). *)
RingsApart ==
  \A f \in Opened : \A i \in 0..(pf[f].qmax - 1) :
    /\ ~(i \in Queues(f, "cmpt") /\ Streams(f, i))
    /\ i \in Queues(f, "h2c") \cap Queues(f, "c2h") => At(f, "h2c", i).st = At(f, "c2h", i).st

(* The card lets a function use the queues that its map entry names: a queue that is online
   lies in it, and the entry is the function's own range in the pool, also after the range has
   been given back, moved or handed to another function. *)
MapCurrent ==
  \A f \in Opened : (\E n \in DOMAIN pf[f].descq : pf[f].descq[n].state = "online")
                     => fmap[f] = pool.dev[f].entry

(* A handle that the module keeps for queue i of type t names a queue of that type and index
   (qdma_queue_add's qhndl, through additions that fail half-way and removals). *)
HandleNames ==
  \A f \in Opened : \A t \in QType : \A i \in 0..(pf[f].qmax - 1) :
    pf[f].qdata[Row[t] * pf[f].qmax + i] # NoData =>
      LET q == pf[f].descq[Handle(f, t, i)] IN q.state # "disabled" /\ q.q_type = t /\ q.qidx = i

(* The interrupt rings of a function do not change their size while a queue of it is active
   ("If qdma_get_active_queue_count() > 0, intr_rngsz is not allowed to change").  It fails on a
   board whose bus number is not its index. *)
RingHeld ==
  [][\A f \in Opened \cap DOMAIN pool'.dev :
       pf[f].rngsz # pf'[f].rngsz => ~Active(pool, f)]_controlVars

(* What the pool of queues keeps through requests, refusals and closings. *)
PoolKept == ControlTypeOK /\ Partition /\ ChunksApart
=============================================================================
