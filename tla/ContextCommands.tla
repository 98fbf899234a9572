-------------------------- MODULE ContextCommands ---------------------------
(***************************************************************************)
(* Queues' contexts are read and written through one set of registers: the *)
(* words of a context, a mask and a command.  Three threads of a physical  *)
(* function use them, under a lock that is taken for one command: netlink  *)
(* starts and stops the function's queues, the mailbox' worker does so for *)
(* the virtual functions, and a dump in debugfs reads.  A wait for a       *)
(* command may expire while the card still has it.                         *)
(*                                                                         *)
(* A value on the card or in the registers is a set of <<cell, run>>: the  *)
(* cell whose content it is and the start of the queue that wrote it.      *)
(***************************************************************************)
EXTENDS Integers, Sequences
LOCAL INSTANCE SequencesExt

CONSTANTS
  Netlink, Mailbox, Debugfs,  \* the threads
  Free,                       \* nobody holds the lock
  PfQueues,     \* [qid, dir, st] of the physical function's queues
  VfQueues,     \* those of virtual functions, in the range of their owner
  HasVec,       \* the card has vectors per queue, qid2vec, and is not polled
  MaxStarts,    \* bound of the exploration: starts of queues
  MaxExpired,   \* bound of the exploration: waits that expire
  MaxDumps      \* bound of the exploration: dumps

Threads == {Netlink, Mailbox, Debugfs}
Queues  == PfQueues \cup VfQueues

ASSUME QueueAssumption ==
  \A q \in Queues : q.dir \in {"h2c", "c2h", "cmpt"} /\ (q.dir = "cmpt" => ~q.st)

VARIABLES
  lock,     \* hw_prg_lock
  data,     \* the data registers: a value, and the command that left it there
  pending,  \* commands that the card has not done
  ctx,      \* the contexts on the card
  call,     \* what each thread is doing
  queue,    \* state of each queue and number of its starts
  unclean,  \* queues whose last clear or invalidation failed
  risky,     \* history: cells of expired commands, and of commands that were
            \* written while one was pending
  count     \* waits that have expired, starts, dumps

cmdVars == <<lock, data, pending, ctx, call, queue, unclean, risky, count>>

(* The contexts of a queue, in the order in which they are cleared. *)
ContextKinds(q) ==
  (IF q.dir = "cmpt" THEN <<>> ELSE <<"sw", "hw", "credit">>)
  \o (IF q.st /\ q.dir = "c2h" THEN <<"pftch">> ELSE <<>>)
  \o (IF q.dir = "cmpt" \/ (q.st /\ q.dir = "c2h") THEN <<"cmpt">> ELSE <<>>)

Cell(kind, q) ==
  <<kind, q.qid, IF kind \in {"sw", "hw", "credit"} THEN q.dir ELSE "both">>
VecCell(q) == Cell("vec", q)
VecHalf(q) == <<"vec", q.qid, q.dir>>

(* What a command on behalf of a queue may leave wrong, and what it puts   *)
(* right: a vector's context has a half for each direction.                *)
Touched(c)  == IF c.cell[1] = "vec" THEN {<<"vec", c.cell[2], dir>> : dir \in {"h2c", "c2h"}}
               ELSE {c.cell}
Own(c, q)   == IF c.cell[1] = "vec" THEN (IF c.op = "WR" THEN {VecHalf(q)} ELSE {})
               ELSE IF c.op = "RD" THEN {} ELSE {c.cell}

CellsOf(q) == {Cell(k, q) : k \in Range(ContextKinds(q))}
Cells      == UNION {CellsOf(q) : q \in Queues} \cup {VecCell(q) : q \in Queues}

Command(op, kind, q) == [op |-> op, cell |-> Cell(kind, q)]
ForAll(op, q)        == [i \in DOMAIN ContextKinds(q) |-> Command(op, ContextKinds(q)[i], q)]

(* qdma_descq_context_program: clear all, then write; the card itself      *)
(* fills the hw and credit contexts.  qid2vec keeps the other direction's  *)
(* half, and is only written for the physical function.                    *)
Vectors(q) ==
  IF HasVec /\ q \in PfQueues /\ q.dir # "cmpt"
  THEN <<Command("RD", "vec", q), Command("WR", "vec", q)>> ELSE <<>>

Writes(q) ==
  SelectSeq(ForAll("WR", q), LAMBDA c : c.cell[1] = "sw") \o Vectors(q)
  \o SelectSeq(ForAll("WR", q), LAMBDA c : c.cell[1] \in {"pftch", "cmpt"})

Program(q) == ForAll("CLR", q) \o Writes(q)

NoCommand == [op |-> "none", cell |-> <<>>]
AnyQueue == CHOOSE q \in Queues : TRUE
Resting  == [does |-> "none", q |-> AnyQueue, todo |-> <<>>, at |-> "next", over |-> FALSE,
             read |-> {}]

CmdInit ==
  /\ lock = Free
  /\ data = [words |-> {}, of |-> NoCommand] /\ pending = <<>>
  /\ ctx = [c \in Cells |-> {}]
  /\ call = [t \in Threads |-> Resting]
  /\ queue = [q \in Queues |-> [state |-> "stopped", run |-> 0]]
  /\ unclean = {} /\ risky = {}
  /\ count = [expired |-> 0, starts |-> 0, dumps |-> 0]

-----------------------------------------------------------------------------
(* The calls. *)

Begin(t, does, q, todo) ==
  /\ call[t].does = "none"
  /\ call' = [call EXCEPT ![t] = [Resting EXCEPT !.does = does, !.q = q, !.todo = todo]]

Serves(t) == IF t = Mailbox THEN VfQueues ELSE IF t = Netlink THEN PfQueues ELSE {}

Start(t, q) ==
  /\ q \in Serves(t)
  /\ queue[q].state = "stopped" /\ count.starts < MaxStarts
  /\ Begin(t, "start", q, Program(q))
  /\ queue' = [queue EXCEPT ![q] = [state |-> "starting", run |-> @.run + 1]]
  /\ count' = [count EXCEPT !.starts = @ + 1]
  /\ UNCHANGED <<lock, data, pending, ctx, unclean, risky>>

Stop(t, q) ==
  /\ q \in Serves(t)
  /\ queue[q].state = "running"
  /\ Begin(t, "stop", q, ForAll("INV", q))
  /\ queue' = [queue EXCEPT ![q].state = "stopping"]
  /\ UNCHANGED <<lock, data, pending, ctx, unclean, risky, count>>

Dump(q) ==
  /\ q \in PfQueues
  /\ count.dumps < MaxDumps
  /\ Begin(Debugfs, "dump", q, ForAll("RD", q))
  /\ count' = [count EXCEPT !.dumps = @ + 1]
  /\ UNCHANGED <<lock, data, pending, ctx, queue, unclean, risky>>

(* The end of a call whose commands have all succeeded. *)
Finish(t) ==
  LET q == call[t].q
  IN  /\ call[t].does # "none" /\ call[t].todo = <<>>
      /\ call' = [call EXCEPT ![t] = Resting]
      /\ CASE call[t].does = "start" ->
                /\ queue' = [queue EXCEPT ![q].state = "running"]
                /\ UNCHANGED unclean
           [] call[t].does \in {"stop", "undo"} ->
                /\ queue' = [queue EXCEPT ![q].state = "stopped"]
                /\ unclean' = unclean \ {q}
           [] OTHER -> UNCHANGED <<queue, unclean>>
      /\ UNCHANGED <<lock, data, pending, ctx, risky, count>>

(* The end of a call one of whose commands has failed.  A start clears what *)
(* it has written; a queue is stopped and its ring freed whatever the       *)
(* result of that, or of its invalidation.                                  *)
BadFailed(t) ==  \* mutant: a start that failed leaves what it has written
  LET q == call[t].q
  IN  /\ call' = [call EXCEPT ![t] = Resting]
      /\ IF call[t].does = "dump" THEN UNCHANGED <<queue, unclean>>
         ELSE /\ queue' = [queue EXCEPT ![q].state = "stopped"]
              /\ unclean' = IF call[t].does = "start" THEN unclean ELSE unclean \cup {q}

Failed(t) ==
  LET q == call[t].q
  IN  IF call[t].does = "start"
      THEN /\ call' = [call EXCEPT ![t] = [Resting EXCEPT !.does = "undo", !.q = q,
                                                          !.todo = ForAll("CLR", q)]]
           /\ UNCHANGED <<queue, unclean>>
      ELSE /\ call' = [call EXCEPT ![t] = Resting]
           /\ IF call[t].does = "dump" THEN UNCHANGED <<queue, unclean>>
              ELSE /\ queue' = [queue EXCEPT ![q].state = "stopped"]
                   /\ unclean' = unclean \cup {q}

-----------------------------------------------------------------------------
(* One command: qdma_indirect_reg_read, _write, _clear, _invalidate. *)

Current(t) == Head(call[t].todo)

(* The words of a context that is written. *)
Words(t) ==
  LET q == call[t].q
  IN  IF Current(t).cell = VecCell(q)
      THEN {p \in call[t].read : p[1] # VecHalf(q)} \cup {<<VecHalf(q), queue[q].run>>}
      ELSE {<<Current(t).cell, queue[q].run>>}

\* It takes the lock, and loads the words first if it is a write.
LoadWords(t) ==
  /\ lock = Free /\ call[t].todo # <<>> /\ Current(t).op = "WR"
  /\ lock' = t
  /\ data' = [words |-> Words(t), of |-> Current(t)]
  /\ call' = [call EXCEPT ![t].at = "command", ![t].over = pending # <<>>]
  /\ UNCHANGED <<pending, ctx, queue, unclean, risky, count>>

(* What a command does to one that the card still has is not said: the     *)
(* card does both or the new one only.                                     *)
WriteCommand(t) ==
  /\ \/ call[t].at = "command"
     \/ lock = Free /\ call[t].todo # <<>> /\ Current(t).op # "WR"
  /\ lock' = t
  /\ pending' \in {Append(pending, Current(t)), <<Current(t)>>}
  /\ \E over \in {call[t].over \/ pending # <<>>} :
       /\ call' = [call EXCEPT ![t].at = "wait", ![t].over = over]
       /\ risky' = IF over THEN risky \cup Touched(Current(t)) ELSE risky
  /\ UNCHANGED <<data, ctx, queue, unclean, count>>

Passed(t) == [call[t] EXCEPT !.todo = Tail(@), !.at = "next", !.over = FALSE]

Release(t) == lock' = Free

BadDone(t) ==  \* mutant: a read releases the lock before it takes the words
  /\ call[t].at = "wait" /\ pending = <<>>
  /\ Release(t)
  /\ call' = [call EXCEPT ![t] = IF Current(t).op = "RD" THEN [@ EXCEPT !.at = "words"]
                                 ELSE Passed(t)]
  /\ risky' = IF call[t].over THEN risky ELSE risky \ Own(Current(t), call[t].q)
  /\ UNCHANGED <<data, pending, ctx, queue, unclean, count>>

(* hw_monitor_reg finds the card idle. *)
Done(t) ==
  /\ call[t].at = "wait" /\ pending = <<>>
  /\ IF Current(t).op = "RD"
     THEN /\ call' = [call EXCEPT ![t].at = "words"]
          /\ UNCHANGED <<lock, risky>>
     ELSE /\ call' = [call EXCEPT ![t] = Passed(t)]
          /\ risky' = IF call[t].over THEN risky ELSE risky \ Own(Current(t), call[t].q)
          /\ Release(t)
  /\ UNCHANGED <<data, pending, ctx, queue, unclean, count>>

ReadWords(t) ==
  /\ call[t].at = "words"
  /\ call' = [call EXCEPT ![t] = [Passed(t) EXCEPT
                 !.read = IF Current(t).cell[1] = "vec" THEN data.words ELSE {}]]
  /\ Release(t)
  /\ UNCHANGED <<data, pending, ctx, queue, unclean, risky, count>>

(* hw_monitor_reg gives up.  The result of qid2vec's is not looked at: its *)
(* other command is left out and the start goes on.                        *)
Expired(t) ==
  /\ call[t].at = "wait" /\ pending # <<>>
  /\ count.expired < MaxExpired
  /\ count' = [count EXCEPT !.expired = @ + 1]
  /\ risky' = risky \cup Touched(Current(t))
  /\ Release(t)
  /\ IF Current(t).cell[1] = "vec"
     THEN /\ call' = [call EXCEPT ![t] = [Passed(t) EXCEPT
                        !.todo = SelectSeq(@, LAMBDA c : c.cell[1] # "vec")]]
          /\ UNCHANGED <<queue, unclean>>
     ELSE Failed(t)
  /\ UNCHANGED <<data, pending, ctx>>

-----------------------------------------------------------------------------
(* The card. *)

DoCommand ==
  /\ pending # <<>>
  /\ LET c == Head(pending)
     IN  /\ ctx'  = CASE c.op = "WR" -> [ctx EXCEPT ![c.cell] = data.words]
                      [] c.op \in {"CLR", "INV"} -> [ctx EXCEPT ![c.cell] = {}]
                      [] OTHER -> ctx
         /\ data' = IF c.op = "RD" THEN [words |-> ctx[c.cell], of |-> c] ELSE data
  /\ pending' = Tail(pending)
  /\ UNCHANGED <<lock, call, queue, unclean, risky, count>>

(* A queue whose sw context is enabled leaves its marks in the contexts    *)
(* that the card keeps itself.                                             *)
UseQueue(q) ==
  /\ q.dir # "cmpt" /\ ctx[Cell("sw", q)] # {}
  /\ ctx' = [c \in Cells |->
       IF c \in {Cell("hw", q), Cell("credit", q)} THEN ctx[c] \cup {<<c, queue[q].run>>}
       ELSE ctx[c]]
  /\ ctx' # ctx
  /\ UNCHANGED <<lock, data, pending, call, queue, unclean, risky, count>>

CmdNext ==
  \/ \E t \in Threads : \/ \E q \in Queues : Start(t, q) \/ Stop(t, q)
                        \/ Finish(t) \/ LoadWords(t) \/ WriteCommand(t) \/ Done(t)
                        \/ ReadWords(t) \/ Expired(t)
  \/ \E q \in Queues : Dump(q) \/ UseQueue(q)
  \/ DoCommand

CmdSpec == CmdInit /\ [][CmdNext]_cmdVars

-----------------------------------------------------------------------------
Sure(q) == CellsOf(q) \ risky

(* The contexts of a running queue are those of its last start, complete,   *)
(* with nothing left of an earlier run in the contexts that the card keeps; *)
(* its vector is its own although both directions share the context.  Only  *)
(* cells of a command that expired, or that was written over one, may be    *)
(* wrong, until a command on them succeeds.                                 *)
RunningRight(q) ==
  queue[q].state = "running" =>
    /\ \A c \in Sure(q) :
         IF c[1] \in {"hw", "credit"} THEN ctx[c] \subseteq {<<c, queue[q].run>>}
                                      ELSE ctx[c] = {<<c, queue[q].run>>}
    /\ Vectors(q) # <<>> /\ VecHalf(q) \notin risky =>
         {p \in ctx[VecCell(q)] : p[1] = VecHalf(q)} = {<<VecHalf(q), queue[q].run>>}

(* A queue that is stopped has no context left on the card, so that the     *)
(* card does not use its ring, which is freed: also when its start failed   *)
(* half-way.  The exception is a clear that failed, whose result nobody     *)
(* looks at.                                                                *)
StoppedClean(q) ==
  queue[q].state = "stopped" /\ q \notin unclean => \A c \in Sure(q) : ctx[c] = {}

(* A thread that reads a context finds the words that its own command has   *)
(* fetched, whatever commands expired before.                               *)
ReadsWhole ==
  \A t \in Threads : call[t].at = "words" => data.of = Current(t)

(* What the card holds of each queue, and what the driver reads of it. *)
ContextsRight == ReadsWhole /\ \A q \in Queues : RunningRight(q) /\ StoppedClean(q)
=============================================================================
