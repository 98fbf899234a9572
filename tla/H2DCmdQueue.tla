---------------------------- MODULE H2DCmdQueue ----------------------------
(***************************************************************************)
(* The host-to-device path of the FPGA design in its user clock domain:    *)
(* the NumQ command queues and their heads (h2dcmdqueue.scala,             *)
(* h2dcmdqueuehead.scala), the round-robin selection between them, the     *)
(* engine that hands a packet to the QDMA (H2C.scala), and what Top.scala  *)
(* wires around them: the buffer of write commands for the HBM side, the   *)
(* clear flag that comes back from it, and the completion handshake.       *)
(*                                                                         *)
(* The design is synchronous: Tick is one rising edge of user_clk, and     *)
(* reads every register's value before the edge.  Everything outside the   *)
(* clock domain acts between two edges: the host that posts a command, the *)
(* QDMA that accepts one, the HBM writer (H2M.scala) that takes, and later *)
(* finishes, a packet, and the completion unit.  These actions change only *)
(* the wires and the flags that the next edge samples.                     *)
(*                                                                         *)
(* Addresses and lengths are counted in beats of 64 bytes.  They wrap at   *)
(* AddrSpace, as the 34-bit registers of the design wrap at 16 GB.         *)
(***************************************************************************)
EXTENDS CmdQueueCommon, Sequences

CONSTANTS
  QDepth,     \* entries of a queue, 64 in the code
  BufDepth,   \* entries of h2m_cmd_buffer, 16 in the code
  Hold,       \* cycles the engine waits after a command, 10 in the code
  Lat,        \* most user cycles the HBM side takes to answer a start
  DefaultPkt, \* packet size of a head after reset, 32768 bytes in the code
  Cmds,       \* commands the host may post
  MaxPosts    \* bound: how many commands the host posts

(***************************************************************************)
(* A command: host and HBM start address, length, packet size.  The host   *)
(* allocator hands out HBM up to its very last byte                        *)
(* (QDMAController.cpp:333), so a command may end exactly at AddrSpace.    *)
(***************************************************************************)
Command == [h2c : Nat, h2m : 0 .. AddrSpace - 1, len : 1 .. AddrSpace,
            pkt : 1 .. AddrSpace]

ASSUME ConstantsAssumption ==
  /\ NumQ \in Nat \ {0}
  /\ QDepth \in Nat \ {0}
  /\ BufDepth \in Nat \ {0}
  /\ AddrSpace \in Nat \ {0}
  /\ DefaultPkt \in 0 .. AddrSpace
  /\ Hold \in 0 .. 15                  \* hold is a 4-bit register
  /\ Lat \in Nat
  /\ MaxPosts \in Nat
  /\ Cmds \subseteq Command
  /\ \A c \in Cmds : c.h2m + c.len =< AddrSpace

VARIABLES
  req,      \* cmd_in of the queue block: <<>> or <<one request>>
  fifo,     \* fifo[i]: the commands waiting in Q(i)
  head,     \* head[i]: the registers of Qh(i)
  out,      \* the selected head
  next,     \* the head to select after it
  h2c,      \* registers of the H2C engine
  qready,   \* h2c_cmd.ready of the QDMA
  buf,      \* h2m_cmd_buffer, packets waiting for the HBM writer
  h2m,      \* <<>> or <<the packet the HBM writer works on>>
  data,     \* packets whose data the QDMA delivers, in the order of its commands
  clear,    \* h2m_clear as user_clk sees it
  age,      \* cycles the HBM side has owed an answer to a start
  cpt,      \* registers and wires of the completion handshake
  job,      \* history: the command head i was last loaded with
  log,      \* history: packets head i has fired for that command
  bypass,   \* history: packets of other flows fired while head i had one to fire
  moved,    \* history: beats of queue i's oldest unreported command in the HBM
  posts,    \* number of commands posted
  notified  \* history: sequence of completions written to the host

sched   == <<fifo, head, out, next>>
engine  == <<h2c, qready>>
writer  == <<buf, h2m, data, clear, age>>
history == <<job, log, bypass>>  \* what Tick records
vars    == <<req, sched, engine, writer, cpt, history, moved, posts, notified>>

-----------------------------------------------------------------------------
(* Definitions named "Bad..." are plausible slips in the code, kept for    *)
(* showing which property would notice them; no definition uses them.      *)

IdleHead ==
  [cmd_in_ready |-> TRUE,  cmd_out_valid |-> FALSE, h2m_complete |-> FALSE,
   working      |-> FALSE, last          |-> FALSE, h2m_last     |-> FALSE,
   continue     |-> FALSE, length        |-> 0,     h2c_addr     |-> 0,
   h2m_addr     |-> 0,     next_addr     |-> 0,     end_addr     |-> 0,
   pkt_size     |-> DefaultPkt,          cpt    |-> NoId]

(* cmd_in.fire(): the head takes a command and computes its first packet. *)
Loaded(h, c) ==
  LET many == c.len > c.pkt
      size == IF many THEN c.pkt ELSE c.len
  IN [h EXCEPT !.h2c_addr = c.h2c, !.h2m_addr = c.h2m, !.cpt = c.id,
               !.end_addr = Plus(c.h2m, c.len), !.pkt_size = c.pkt,
               !.length = size, !.next_addr = Plus(c.h2m, size),
               !.h2m_last = IF many THEN @ ELSE TRUE,
               !.cmd_in_ready = FALSE, !.cmd_out_valid = TRUE,
               !.working = TRUE]

BadSentLast(h) ==                          \* one more turn after the last packet
  [h EXCEPT !.cmd_out_valid = FALSE, !.last = TRUE, !.h2m_last = FALSE,
            !.continue = TRUE]

SentLast(h) ==
  [h EXCEPT !.cmd_out_valid = FALSE, !.last = TRUE, !.h2m_last = FALSE,
            !.continue = FALSE]

(* more: another whole packet follows, and is not the final one. *)
SentOne(h, more) ==
  [h EXCEPT !.continue  = TRUE,
            !.h2c_addr  = @ + h.length,
            !.h2m_addr  = Plus(@, h.length),
            !.length    = IF more THEN h.pkt_size ELSE Minus(h.end_addr, h.next_addr),
            !.next_addr = IF more THEN Plus(@, h.length) ELSE h.end_addr,
            !.h2m_last  = ~more]

BadAdvanced(h) ==                                        \* =< instead of <
  IF h.next_addr = h.end_addr THEN SentLast(h)
  ELSE SentOne(h, Plus(h.next_addr, h.length) =< h.end_addr)

(* cmd_out.fire(): the head moves on to its next packet, or has no more. *)
Advanced(h) ==
  IF h.next_addr = h.end_addr THEN SentLast(h)
  ELSE SentOne(h, Plus(h.next_addr, h.length) < h.end_addr)

BadFinished(h) == [h EXCEPT !.h2m_complete = FALSE, !.last = FALSE,
                            !.working = FALSE, !.continue = TRUE]

Finished(h) == [h EXCEPT !.h2m_complete = FALSE, !.last = FALSE,
                         !.cmd_in_ready = TRUE, !.working = FALSE,
                         !.continue = TRUE]

-----------------------------------------------------------------------------
(* What user_clk samples at an edge. *)

BadReadyBusy == Len(buf) < BufDepth /\ (head[out].last => clear)
BadReadyUncleared == h2c.state = "idle" /\ Len(buf) < BufDepth

CmdOutReady == /\ h2c.state = "idle"              \* h2c.io.complete
               /\ Len(buf) < BufDepth
               /\ head[out].last => clear

Fire == head[out].cmd_out_valid /\ CmdOutReady

Ready(i)     == CmdOutReady /\ out = i
CmdInFire(i) == head[i].cmd_in_ready /\ fifo[i] # <<>>

(* The packet on cmd_out, with the name of the command it belongs to. *)
Packet == LET h == head[out]
          IN [id |-> h.cpt, h2c |-> h.h2c_addr, h2m |-> h.h2m_addr,
              len |-> h.length, last |-> h.h2m_last]

(* The registers of head i after the edge: the later assignment wins. *)
HeadNext(i) ==
  LET h      == head[i]
      loaded == IF CmdInFire(i) THEN Loaded(h, Head(fifo[i])) ELSE h
      fired  == IF Fire /\ out = i THEN Advanced(loaded) ELSE loaded
      pulsed == IF h.continue THEN [fired EXCEPT !.continue = FALSE] ELSE fired
      raised == IF h.last /\ Ready(i)
                THEN [pulsed EXCEPT !.h2m_complete = TRUE] ELSE pulsed
  IN IF h.last /\ h.h2m_complete /\ cpt.complete /\ out = i
     THEN Finished(raised) ELSE raised

(* Q(i): a head's command leaves, a posted one enters unless the queue is  *)
(* full; cmd_in.ready is constantly true, so a full queue drops it.        *)
FifoNext(i) ==
  LET left == IF CmdInFire(i) THEN Tail(fifo[i]) ELSE fifo[i]
  IN IF req # <<>> /\ req[1].q = i /\ Len(fifo[i]) < QDepth
     THEN Append(left, req[1].cmd) ELSE left

BadSchedule ==                           \* next stays when a flow has had its turn
  /\ out'  = IF head[out].continue \/ ~head[out].working THEN next ELSE out
  /\ next' = IF ~head[next].working THEN Succ(next) ELSE next

(* Round robin: the selection moves when the selected head has nothing to  *)
(* do or has just sent a packet; next runs past idle heads.                *)
Schedule ==
  /\ out'  = IF head[out].continue \/ ~head[out].working THEN next ELSE out
  /\ next' = IF head[out].continue \/ ~head[next].working THEN Succ(next) ELSE next

(* The H2C engine: latch a packet, offer it to the QDMA, hold, be idle.    *)
EngineStep ==
  LET accepted == h2c.valid /\ qready
  IN \/ /\ h2c.state = "idle"
        /\ h2c' = IF Fire THEN [h2c EXCEPT !.state = "send", !.pkt = Packet] ELSE h2c
        /\ UNCHANGED <<qready, data>>
     \/ /\ h2c.state = "send"
        /\ h2c' = IF accepted
                  THEN [h2c EXCEPT !.state = "done", !.valid = FALSE, !.hold = Hold]
                  ELSE [h2c EXCEPT !.valid = TRUE]
        /\ data' = IF accepted THEN Append(data, h2c.pkt) ELSE data
        /\ qready' = (qready /\ ~accepted)
     \/ /\ h2c.state = "done"
        /\ h2c' = [h2c EXCEPT !.hold = (@ + 15) % 16,
                              !.state = IF h2c.hold = 0 THEN "idle" ELSE @]
        /\ UNCHANGED <<qready, data>>

(* Completion handshake: the rising edge of last clears h2c_cpt_complete   *)
(* and latches the address; the rising edge of h2m_complete asks for the   *)
(* completion to be written.                                               *)
CptStep ==
  LET start == head[out].last /\ ~cpt.last_reg
      ask   == head[out].h2m_complete /\ ~cpt.complete_reg
  IN cpt' = [cpt EXCEPT !.last_reg     = head[out].last,
                        !.complete_reg = head[out].h2m_complete,
                        !.complete     = @ /\ ~start,
                        !.addr         = IF start THEN head[out].cpt ELSE @,
                        !.ask          = @ \/ ask]

HistoryStep ==
  /\ job' = [i \in Queues |-> IF CmdInFire(i) THEN Head(fifo[i]) ELSE job[i]]
  /\ log' = [i \in Queues |->
               IF CmdInFire(i) THEN <<>>
               ELSE IF Fire /\ out = i THEN Append(log[i], Packet) ELSE log[i]]
  /\ bypass' = [i \in Queues |->
                  IF Fire /\ head[i].cmd_out_valid
                  THEN IF out = i THEN 0 ELSE bypass[i] + 1
                  ELSE bypass[i]]

(* The HBM side owes an answer while a packet waits and its writer is free. *)
Owed == buf # <<>> /\ h2m = <<>>

(* One edge of user_clk. *)
Tick ==
  /\ Owed => age < Lat
  /\ fifo' = [i \in Queues |-> FifoNext(i)]
  /\ head' = [i \in Queues |-> HeadNext(i)]
  /\ Schedule
  /\ EngineStep
  /\ buf' = IF Fire THEN Append(buf, Packet) ELSE buf
  /\ age' = IF Owed THEN age + 1 ELSE 0
  /\ CptStep
  /\ HistoryStep
  /\ req' = <<>>
  /\ UNCHANGED <<h2m, clear, moved, posts, notified>>

-----------------------------------------------------------------------------
(* Outside the clock domain. *)

(* The n-th command posted, c on queue i, under its name. *)
Numbered(i, n, c) == [id  |-> [q |-> i, n |-> n], h2c |-> c.h2c, h2m |-> c.h2m,
                      len |-> c.len, pkt |-> c.pkt]

PostedJobs(i) == {Numbered(i, n, c) : n \in 1 .. MaxPosts, c \in Cmds}

(* h2d() of the host library writes a command and pulses its start bit. *)
Post(i, c) ==
  /\ posts < MaxPosts
  /\ req = <<>>
  /\ req' = <<[q |-> i, cmd |-> Numbered(i, posts + 1, c)]>>
  /\ posts' = posts + 1
  /\ UNCHANGED <<sched, engine, writer, cpt, history, moved, notified>>

(* The QDMA raises h2c_cmd.ready for the command it is offered. *)
QdmaReady ==
  /\ h2c.valid /\ ~qready
  /\ qready' = TRUE
  /\ UNCHANGED <<req, sched, h2c, writer, cpt, history, moved, posts, notified>>

(* The HBM writer starts on the next packet; user_clk sees clear fall. *)
WriterStart ==
  /\ Owed
  /\ h2m' = <<Head(buf)>>
  /\ buf' = Tail(buf)
  /\ clear' = FALSE
  /\ age' = 0
  /\ UNCHANGED <<req, sched, engine, data, cpt, history, moved, posts, notified>>

(* The writer has consumed the data of its packet; after a last packet it  *)
(* reports clear.                                                          *)
WriterDone ==
  /\ h2m # <<>> /\ data # <<>>
  /\ h2m' = <<>>
  /\ data' = Tail(data)
  /\ clear' = (clear \/ h2m[1].last)
  /\ moved' = [moved EXCEPT ![h2m[1].id.q] = @ + h2m[1].len]
  /\ UNCHANGED <<req, sched, engine, buf, age, cpt, history, posts, notified>>

(* The completion unit has written the host's flag. *)
Notify ==
  /\ cpt.ask
  /\ cpt' = [cpt EXCEPT !.ask = FALSE, !.complete = TRUE]
  /\ notified' = Append(notified, cpt.addr)
  /\ moved' = [moved EXCEPT ![cpt.addr.q] = 0]
  /\ UNCHANGED <<req, sched, engine, writer, history, posts>>

-----------------------------------------------------------------------------
NoJob    == [id |-> NoId, h2c |-> 0, h2m |-> 0, len |-> 0, pkt |-> 0]
NoPacket == [id |-> NoId, h2c |-> 0, h2m |-> 0, len |-> 0, last |-> FALSE]

Init ==
  /\ req = <<>>
  /\ fifo = [i \in Queues |-> <<>>]
  /\ head = [i \in Queues |-> IdleHead]
  /\ out = 0 /\ next = 0
  /\ h2c = [state |-> "idle", valid |-> FALSE, hold |-> 0, pkt |-> NoPacket]
  /\ qready = FALSE
  /\ buf = <<>> /\ h2m = <<>> /\ data = <<>>
  /\ clear = FALSE /\ age = 0
  /\ cpt = [complete |-> TRUE, addr |-> NoId, last_reg |-> FALSE,
            complete_reg |-> FALSE, ask |-> FALSE]
  /\ job = [i \in Queues |-> NoJob]
  /\ log = [i \in Queues |-> <<>>]
  /\ bypass = [i \in Queues |-> 0]
  /\ moved = [i \in Queues |-> 0]
  /\ posts = 0
  /\ notified = <<>>

Environment ==
  \/ \E i \in Queues, c \in Cmds : Post(i, c)
  \/ QdmaReady
  \/ WriterStart
  \/ WriterDone
  \/ Notify

Next == Tick \/ Environment

Spec == Init /\ [][Next]_vars

(* The clock runs, the QDMA accepts, the writer and the completion unit    *)
(* finish what they are given.  The host need never post.                  *)
Fairness ==
  /\ WF_vars(Tick)
  /\ WF_vars(QdmaReady)
  /\ WF_vars(WriterStart)
  /\ WF_vars(WriterDone)
  /\ WF_vars(Notify)

FairSpec == Spec /\ Fairness

-----------------------------------------------------------------------------
(* Properties. *)

Ids == [q : Queues, n : 0 .. MaxPosts]
Job == [id : Ids, h2c : Nat, h2m : 0 .. AddrSpace - 1, len : 0 .. AddrSpace,
        pkt : 0 .. AddrSpace]
PacketType == [id : Ids, h2c : Nat, h2m : 0 .. AddrSpace - 1,
               len : 0 .. AddrSpace, last : BOOLEAN]
HeadType ==
  [cmd_in_ready : BOOLEAN, cmd_out_valid : BOOLEAN, h2m_complete : BOOLEAN,
   working : BOOLEAN, last : BOOLEAN, h2m_last : BOOLEAN, continue : BOOLEAN,
   length : 0 .. AddrSpace, h2c_addr : Nat, h2m_addr : 0 .. AddrSpace - 1,
   next_addr : 0 .. AddrSpace - 1, end_addr : 0 .. AddrSpace - 1,
   pkt_size : 0 .. AddrSpace, cpt : Ids]

(* Types of the registers, wires and history variables. *)
QueueTypes ==
  /\ req \in Seq([q : Queues, cmd : Job]) /\ Len(req) =< 1
  /\ fifo \in [Queues -> Seq(Job)]
  /\ \A i \in Queues : Len(fifo[i]) =< QDepth
  /\ head \in [Queues -> HeadType]
  /\ out \in Queues /\ next \in Queues

EngineTypes ==
  /\ h2c \in [state : {"idle", "send", "done"}, valid : BOOLEAN,
              hold : 0 .. 15, pkt : PacketType]
  /\ qready \in BOOLEAN
  /\ cpt \in [complete : BOOLEAN, addr : Ids, last_reg : BOOLEAN,
              complete_reg : BOOLEAN, ask : BOOLEAN]

WriterTypes ==
  /\ buf \in Seq(PacketType) /\ Len(buf) =< BufDepth
  /\ h2m \in Seq(PacketType) /\ Len(h2m) =< 1
  /\ data \in Seq(PacketType)
  /\ clear \in BOOLEAN
  /\ age \in 0 .. Lat

HistoryTypes ==
  /\ job \in [Queues -> Job]
  /\ log \in [Queues -> Seq(PacketType)]
  /\ bypass \in [Queues -> Nat]
  /\ moved \in [Queues -> Nat]
  /\ posts \in 0 .. MaxPosts
  /\ notified \in Seq(Ids)

TypeOK == QueueTypes /\ EngineTypes /\ WriterTypes /\ HistoryTypes

(* The packets head i has fired lie end to end from the first beat of its  *)
(* command, in the host buffer and in the HBM; every packet but the        *)
(* command's final one has exactly pkt_size beats, the final one no more;  *)
(* h2m_last marks the final one and no other; and a head that waits for    *)
(* its completion has fired the final one.                                 *)
PacketsTile ==
  \A i \in Queues :
    LET L == log[i]
        c == job[i]
    IN /\ L # <<>> => L[1].h2m = c.h2m /\ L[1].h2c = c.h2c
       /\ \A k \in 1 .. Len(L) - 1 :
            /\ L[k + 1].h2m = L[k].h2m + L[k].len
            /\ L[k + 1].h2c = L[k].h2c + L[k].len
       /\ \A k \in 1 .. Len(L) :
            /\ L[k].len \in 1 .. c.pkt
            /\ L[k].last <=> L[k].h2m + L[k].len = c.h2m + c.len
            /\ L[k].last \/ L[k].len = c.pkt
       /\ head[i].last => L # <<>> /\ L[Len(L)].last

(* A head that has fired its final packet stays selected until its         *)
(* completion is written: every wire it waits for is gated by out === i,   *)
(* so a selection that moved on would leave it waiting for ever, or hand   *)
(* its completion to another command.                                      *)
WaitingHeadSelected == \A i \in Queues : head[i].last => out = i

(* The HBM writer pairs packets with data by order alone: the packets it   *)
(* has still to write are exactly those whose data the QDMA delivers,      *)
(* followed by the one the engine is still offering to the QDMA.           *)
StreamAligned ==
  h2m \o buf = data \o (IF h2c.state = "send" THEN <<h2c.pkt>> ELSE <<>>)

(* Once the host has been told that a command is complete, no packet of it *)
(* is still to be sent or written: a stale clear flag from an earlier      *)
(* command must never be taken for this one's.                             *)
CompletionAfterData ==
  \A k \in 1 .. Len(notified) :
    /\ \A j \in 1 .. Len(h2m \o buf) : (h2m \o buf)[j].id # notified[k]
    /\ \A i \in Queues : job[i].id = notified[k] => ~head[i].cmd_out_valid

(* Completions are written at most once each, and in the order in which    *)
(* the commands of one queue were posted.                                  *)
CompletionsInOrder ==
  \A j, k \in 1 .. Len(notified) :
    j < k /\ notified[j].q = notified[k].q => notified[j].n < notified[k].n

(* README: "after sending this number of bytes, this flow will switch to   *)
(* another flow in a round-robin multiplexing manner".  A head with a      *)
(* packet to send waits for at most one packet of each other queue, and    *)
(* one more: next may already have passed it when its command arrived.     *)
FairShare == \A i \in Queues : bypass[i] =< NumQ

(* The path implements OrderedDelivery: a flow's unreported commands are   *)
(* the one its head works on, until the host is told of it, and the ones   *)
(* that wait behind it.                                                    *)
Unreported(i) == /\ head[i].working
                 /\ \A k \in 1 .. Len(notified) : notified[k] # job[i].id

Todo == [i \in Queues |-> IF Unreported(i) THEN <<job[i]>> \o fifo[i] ELSE fifo[i]]

Delivery == INSTANCE OrderedDelivery
              WITH Flows <- Queues, Jobs <- PostedJobs,
                   todo <- Todo, moved <- moved, done <- notified

ImplementsDelivery == Delivery!Spec

(* Every command that its queue had room for is eventually reported         *)
(* complete: again and again no flow has an unreported command (and         *)
(* OrderedDelivery has none vanish).  One that a full queue was given is    *)
(* dropped without a trace, and the host waits for it for ever.             *)
PostedCompletes == []<>(\A i \in Queues : Todo[i] = <<>>)

(* When, how often and in what order completions are written. *)
CompletionsRight == CompletionAfterData /\ CompletionsInOrder
=============================================================================
