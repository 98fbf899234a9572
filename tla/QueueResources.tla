--------------------------- MODULE QueueResources ---------------------------
(***************************************************************************)
(* The pool of hardware queues of one QDMA board, shared by its functions  *)
(* (qdma_resource_mgmt.c).  The free list is a sequence of chunks ordered  *)
(* by their first queue; a function's entry is the one chunk it owns and   *)
(* the number of its active queues of each type.  Every operation of the   *)
(* code runs under the one resource lock, so each is one operator here,    *)
(* from the old value of the pool to the new one.  Lookups of the board    *)
(* and of the function that fail return an error and change nothing; they  *)
(* are the guards of the modules that call these operators.                *)
(***************************************************************************)
EXTENDS Integers, Sequences, FiniteSets, SequencesExt

CONSTANTS TotalQ,        \* queues of the board (qdma_num_queues)
          CountModulus   \* the counters wrap at this value (2^32 in the code)

ASSUME PoolAssumption == TotalQ \in Nat \ {0} /\ CountModulus \in Nat \ {0}

QType == {"h2c", "c2h", "cmpt"}

End(chunk) == chunk.qbase + chunk.total_q
NoQueues == [qbase |-> -1, total_q |-> 0]
NoneActive == [t \in QType |-> 0]

\* The board's entry: everything is free, no function is known.
MasterCreate == [free |-> <<[qbase |-> 0, total_q |-> TotalQ]>>, dev |-> <<>>, active |-> 0]

DevEntryCreate(pool, f) ==
  [pool EXCEPT !.dev = [g \in DOMAIN @ \cup {f} |->
                          IF g = f THEN [entry |-> NoQueues, active |-> NoneActive] ELSE @[g]]]

\* A chunk that begins where the last one ends is merged into it.
Stretched(done, c) ==
  IF done # <<>> /\ End(Last(done)) = c.qbase
  THEN [done EXCEPT ![Len(done)].total_q = @ + c.total_q]
  ELSE Append(done, c)

\* De-fragment: the loop over the list, after n of its chunks.
Merged(list) ==
  LET done[n \in 0..Len(list)] == IF n = 0 THEN <<>> ELSE Stretched(done[n - 1], list[n])
  IN  done[Len(list)]

\* Before the first chunk with a larger base, or at the end.
Placed(list, chunk) ==
  LET n == SelectInSeq(list, LAMBDA node : node.qbase > chunk.qbase)
  IN  IF n = 0 THEN Append(list, chunk) ELSE InsertAt(list, n, chunk)

\* qdma_submit_to_free_list: an entry without queues returns early, before the merge.
SubmitToFreeList(list, entry) ==
  IF entry.total_q = 0 THEN list ELSE Merged(Placed(list, entry))

\* The entry itself is reset only when it had queues to give back.
Submitted(entry) == IF entry.total_q = 0 THEN entry ELSE NoQueues

\* The chunk that holds the queues asked for, if a base is named and one does,
\* otherwise the last of the smallest chunks that are large enough; 0: none.
ChosenNode(qmax, qbase, list) ==
  LET honours == IF qbase < 0 THEN 0
                 ELSE SelectInSeq(list, LAMBDA node : node.qbase <= qbase /\ End(node) >= qbase + qmax)
      fits == {i \in DOMAIN list : list[i].total_q >= qmax}
      best == {i \in fits : \A j \in fits : list[i].total_q <= list[j].total_q}
  IN  IF honours # 0 THEN honours
      ELSE IF best = {} THEN 0 ELSE CHOOSE i \in best : \A j \in best : j <= i

\* What is left of a chunk on one side; a chunk of no queues is not made.
Rest(qbase, total_q) == IF total_q = 0 THEN <<>> ELSE <<[qbase |-> qbase, total_q |-> total_q]>>

\* qdma_get_resource_node, with the removal of the chunk it returns: the queues
\* before and after the ones granted stay in the list as chunks of their own.
GetResourceNode(qmax, qbase, list) ==
  LET n     == ChosenNode(qmax, qbase, list)
      node  == list[n]
      base  == IF qbase >= node.qbase /\ End(node) >= qbase + qmax /\ qbase >= 0
               THEN qbase ELSE node.qbase
      parts == Rest(node.qbase, base - node.qbase) \o Rest(base + qmax, End(node) - base - qmax)
  IN  IF n = 0 THEN [found |-> FALSE, entry |-> NoQueues, free |-> list]
      ELSE [found |-> TRUE, entry |-> [qbase |-> base, total_q |-> qmax],
            free  |-> SubSeq(list, 1, n - 1) \o parts \o SubSeq(list, n + 1, Len(list))]

\* As if a refused request kept its old entry without taking it out of the list again.
BadRequestQResource(entry, qmax, qbase, list) ==
  LET free == SubmitToFreeList(list, entry)
      got  == GetResourceNode(qmax, qbase, free)
  IN  IF qmax = 0 THEN [rv |-> 0, entry |-> Submitted(entry), free |-> free]
      ELSE [rv |-> IF got.found THEN 0 ELSE -1,
            entry |-> IF got.found THEN got.entry ELSE entry, free |-> got.free]

\* qdma_request_q_resource: give back, take, and when there is nothing to take
\* restore what was given back.
RequestQResource(entry, qmax, qbase, list) ==
  LET free == SubmitToFreeList(list, entry)
      got  == GetResourceNode(qmax, qbase, free)
      back == GetResourceNode(entry.total_q, entry.qbase, free)
  IN  IF qmax = 0 THEN [rv |-> 0, entry |-> Submitted(entry), free |-> free]
      ELSE IF got.found THEN [rv |-> 0, entry |-> got.entry, free |-> got.free]
      ELSE [rv |-> -1, entry |-> back.entry, free |-> back.free]

Active(pool, f) == \E t \in QType : pool.dev[f].active[t] # 0

\* qdma_dev_update, once it has found that no queue of the function is active.
DevUpdate(pool, f, qmax, qbase) ==
  LET r == RequestQResource(pool.dev[f].entry, qmax, qbase, pool.free)
  IN  [rv |-> r.rv, pool |-> [pool EXCEPT !.free = r.free, !.dev[f].entry = r.entry]]

\* qdma_dev_entry_destroy leaves the board's count of active queues as it is.
DevEntryDestroy(pool, f) ==
  [pool EXCEPT !.free = SubmitToFreeList(@, pool.dev[f].entry),
               !.dev  = [g \in DOMAIN @ \ {f} |-> @[g]]]

\* qdma_master_resource_destroy: refused while a function is known.  The next
\* qdma_master_resource_create starts afresh.
MasterDestroy(pool) == IF DOMAIN pool.dev = {} THEN MasterCreate ELSE pool

IsQueueInRange(pool, f, qid) ==
  /\ f \in DOMAIN pool.dev
  /\ pool.dev[f].entry.total_q # 0
  /\ pool.dev[f].entry.qbase <= qid
  /\ qid < End(pool.dev[f].entry)

CanIncrement(pool, f, t) == pool.dev[f].entry.total_q > pool.dev[f].active[t]

IncrementActiveQueue(pool, f, t) ==
  IF CanIncrement(pool, f, t)
  THEN [pool EXCEPT !.dev[f].active[t] = @ + 1, !.active = (@ + 1) % CountModulus]
  ELSE pool

\* The function's count stops at zero, the board's does not.
DecrementActiveQueue(pool, f, t) ==
  [pool EXCEPT !.dev[f].active[t] = IF @ = 0 THEN 0 ELSE @ - 1,
               !.active = (@ - 1) % CountModulus]

\* qdma_get_active_queue_count: a board that is not known has none.
ActiveQueueCount(pool, index, known) == IF index = known THEN pool.active ELSE 0
=============================================================================
