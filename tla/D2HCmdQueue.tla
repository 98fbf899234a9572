---------------------------- MODULE D2HCmdQueue ----------------------------
(***************************************************************************)
(* The device-to-host path of the FPGA design in its user clock domain:    *)
(* the NumQ command queues and their heads (d2hcmdqueue.scala,             *)
(* d2hcmdqueuehead.scala), the round-robin selection, the engine that      *)
(* hands a packet to the QDMA (C2H.scala), the HBM reader that fetches the *)
(* same packet (M2H.scala), the completion unit, and the window: when a    *)
(* host-to-device command ends, the selection leaves the queues (out = 31) *)
(* until the data stream is drained, so that its completion can be written *)
(* through the port that the stream uses.                                  *)
(*                                                                         *)
(* Tick is one rising edge of user_clk; everything outside the clock       *)
(* domain acts between two edges.  Lengths and addresses are counted in    *)
(* beats of 64 bytes.  A host address is a command and an offset in its    *)
(* buffer; offset Flag stands for the command's completion flag.           *)
(***************************************************************************)
EXTENDS CmdQueueCommon, CompletionUnit, Sequences, FiniteSets

CONSTANTS
  QDepth,     \* entries of a queue, 64 in the code
  FifoDepth,  \* beats of the FIFO between HBM and user clock, 512 in the code
  Hold,       \* cycles the engine waits after a command, 10 in the code
  Drain,      \* reset value of hold1 and hold2, 3 in the code
  HoldSpan,   \* range of hold2, 2^5 in the code
  Lat,        \* most user cycles the HBM reader takes to answer a start
  DefaultPkt, \* packet size of a head after reset, 4096 bytes in the code
  Cmds,       \* commands the host may post: HBM address, length, packet size
  UsedQueues, \* queues the host posts to
  MaxPosts,   \* bound: commands the host posts
  MaxH2D      \* bound: host-to-device commands that end

Command == [m2h : 0 .. AddrSpace - 1, len : 1 .. AddrSpace, pkt : 1 .. AddrSpace]

Window == 31

ASSUME ConstantsAssumption ==
  /\ NumQ \in 1 .. Window
  /\ AddrSpace \in Nat \ {0}
  /\ QDepth \in Nat \ {0} /\ FifoDepth \in Nat \ {0}
  /\ Hold \in 0 .. 15
  /\ HoldSpan \in Nat \ {0} /\ Drain \in 0 .. HoldSpan - 1
  /\ Lat \in Nat
  /\ DefaultPkt \in 0 .. AddrSpace
  /\ UsedQueues \subseteq Queues
  /\ MaxPosts \in Nat /\ MaxH2D \in Nat
  /\ Cmds \subseteq Command
  /\ \A c \in Cmds : c.m2h + c.len =< AddrSpace

VARIABLES
  req,        \* cmd_in of the queue block: <<>> or <<one request>>
  fifo,       \* fifo[i]: the commands waiting in Q(i)
  head,       \* head[i]: the registers of Qh(i)
  out,        \* the selected head, or Window
  next,       \* the head to select after it
  win,        \* registers of the window
  c2h,        \* registers of the C2H engine
  m2h_start,  \* m2h_start_pulse of the last cycle
  request,    \* <<>> or <<what the HBM reader has been asked to read>>
  m2h_finish, \* m2h_complete as user_clk sees it
  age,        \* cycles the HBM reader has owed an answer to a start
  reading,    \* beats requested from the HBM that have not come back
  m2hq,       \* m2h_queue, the FIFO from the HBM clock to the user clock
  tmp,        \* <<>> or <<the beat at the FIFO's output>>
  slots,      \* host addresses the QDMA has been told to fill, oldest first
  cmd_ready,  \* c2h_cmd.ready of the QDMA
  data_ready, \* c2h_data.ready of the QDMA, while a completion is offered
  cpt,        \* registers of the completion unit
  was,        \* registers of the rising-edge detectors in Top.scala
  h2d,        \* what the host-to-device path shows: last, h2m_complete
  host,       \* host memory: the beats that have been written
  notified,   \* history: completion flags written, in order
  posted,     \* history: the commands posted
  job,        \* history: the command head i was last loaded with
  sent        \* history: beats the engines started for that command

sched  == <<fifo, head, out, next, win>>
reader == <<m2h_start, request, m2h_finish, age>>
stream == <<reading, m2hq, tmp>>
qdma   == <<slots, cmd_ready, data_ready>>
memory == <<host, notified>>
vars   == <<req, sched, c2h, reader, stream, qdma, cpt, was, h2d, memory,
            posted, job, sent>>

Flag     == AddrSpace   \* offset of a completion flag
FlagBeat == AddrSpace   \* what a completion writes
H2DId(n) == [q |-> NumQ, n |-> n]

-----------------------------------------------------------------------------
(* The heads. *)

IdleHead ==
  [cmd_in_ready |-> TRUE,  cmd_out_valid |-> FALSE, m2h_complete |-> FALSE,
   working      |-> FALSE, last          |-> FALSE, continue     |-> FALSE,
   length       |-> 0,     length_reg    |-> 0,     c2h_addr     |-> 0,
   m2h_addr     |-> 0,     m2h_addr_reg  |-> 0,     next_addr    |-> 0,
   end_addr     |-> 0,     pkt_size      |-> DefaultPkt,  cpt    |-> NoId]

(* cmd_in.fire(): the head takes a command and computes its first packet. *)
Loaded(h, c) ==
  LET size == IF c.len > c.pkt THEN c.pkt ELSE c.len
  IN [h EXCEPT !.c2h_addr = 0, !.m2h_addr = c.m2h, !.m2h_addr_reg = c.m2h,
               !.end_addr = Plus(c.m2h, c.len), !.cpt = c.id, !.pkt_size = c.pkt,
               !.length = size, !.length_reg = size,
               !.next_addr = Plus(c.m2h, size),
               !.cmd_in_ready = FALSE, !.cmd_out_valid = TRUE, !.working = TRUE]

(* The HBM reader samples address and length a cycle after cmd_out.fire(), *)
(* when the head's own registers have moved on: these two lag behind.      *)
Lagged(h) == [h EXCEPT !.length_reg = h.length, !.m2h_addr_reg = h.m2h_addr]

SentLast(h) == [Lagged(h) EXCEPT !.cmd_out_valid = FALSE, !.last = TRUE,
                                 !.continue = FALSE]

(* more: another whole packet follows, and is not the final one. *)
SentOne(h, more) ==
  [Lagged(h) EXCEPT
     !.continue  = TRUE,
     !.c2h_addr  = @ + h.length,
     !.m2h_addr  = Plus(@, h.length),
     !.length    = IF more THEN h.pkt_size ELSE Minus(h.end_addr, h.next_addr),
     !.next_addr = IF more THEN Plus(@, h.length) ELSE h.end_addr]

(* cmd_out.fire(): the head moves on to its next packet, or has no more. *)
Advanced(h) ==
  IF h.next_addr = h.end_addr THEN SentLast(h)
  ELSE SentOne(h, Plus(h.next_addr, h.length) < h.end_addr)

Finished(h) == [h EXCEPT !.m2h_complete = FALSE, !.last = FALSE,
                         !.cmd_in_ready = TRUE, !.working = FALSE,
                         !.continue = TRUE]

-----------------------------------------------------------------------------
(* What user_clk samples at an edge. *)

c2h_finish == c2h.state = "idle"

CmdOutReady == c2h_finish /\ m2h_finish /\ cpt.c2h_cpt_complete

(* The multiplexers of the queue block give Qh(0) for every value of out   *)
(* that names no head, the window included.                                *)
Sel == IF out = Window THEN 0 ELSE out

Fire         == head[Sel].cmd_out_valid /\ CmdOutReady
HeadFire(i)  == Fire /\ out = i
CmdInFire(i) == head[i].cmd_in_ready /\ fifo[i] # <<>>

(* What cmd_out tells the QDMA engine and the HBM reader. *)
C2HPacket  == [id |-> head[Sel].cpt, off |-> head[Sel].c2h_addr, len |-> head[Sel].length]
BadM2HRequest == [addr |-> head[Sel].m2h_addr, len |-> head[Sel].length]
M2HRequest == [addr |-> head[Sel].m2h_addr_reg, len |-> head[Sel].length_reg]

(* The registers of head i after the edge: the later assignment wins. *)
HeadNext(i) ==
  LET h      == head[i]
      loaded == IF CmdInFire(i) THEN Loaded(h, Head(fifo[i])) ELSE h
      fired  == IF HeadFire(i) THEN Advanced(loaded) ELSE loaded
      pulsed == IF h.continue THEN [fired EXCEPT !.continue = FALSE] ELSE fired
      raised == IF h.last /\ c2h_finish /\ m2h_finish /\ out = i
                THEN [pulsed EXCEPT !.m2h_complete = TRUE] ELSE pulsed
  IN IF h.last /\ h.m2h_complete /\ cpt.c2h_cpt_complete /\ out = i
     THEN Finished(raised) ELSE raised

(* Q(i): a full queue drops what is posted to it. *)
FifoNext(i) ==
  LET left == IF CmdInFire(i) THEN Tail(fifo[i]) ELSE fifo[i]
  IN IF req # <<>> /\ req[1].q = i /\ Len(fifo[i]) < QDepth
     THEN Append(left, req[1].cmd) ELSE left

-----------------------------------------------------------------------------
(* The window. *)

BadDrained == c2h_finish /\ m2h_finish /\ reading = <<>>     \* empty is left out

(* Nothing is on its way to the host: c2h_finish, m2h_finish,              *)
(* read_count_equal and empty.                                             *)
Drained == c2h_finish /\ m2h_finish /\ reading = <<>> /\ m2hq = <<>>

Leave == out = Window /\ win.h2m_complete /\ cpt.h2c_cpt_complete

BadSchedule ==                                \* the window only after a packet
  LET idle == out # Window /\ ~head[out].working
      turn == out # Window /\ head[out].continue
  IN /\ out' = IF turn /\ win.cpt_working THEN Window
               ELSE IF idle \/ turn \/ Leave THEN next ELSE out
     /\ next' = IF (turn /\ ~win.cpt_working) \/ ~head[next].working
                THEN Succ(next) ELSE next

(* The selected head gives way, to the window when one is asked for. *)
Schedule ==
  LET idle == out # Window /\ ~head[out].working
      turn == out # Window /\ head[out].continue
  IN /\ out' = IF idle \/ turn THEN IF win.cpt_working THEN Window ELSE next
               ELSE IF Leave THEN next ELSE out
     /\ next' = IF (turn /\ ~win.cpt_working) \/ ~head[next].working
                THEN Succ(next) ELSE next

(* hold1 counts down first, then hold2 in every cycle that finds the path  *)
(* drained; hold2 wraps around when a beat is still at the FIFO's output.  *)
WindowStep ==
  LET start  == h2d.complete /\ ~was.h2d_complete
      count1 == out = Window /\ win.hold1 # 0
      count2 == out = Window /\ win.hold1 = 0 /\ Drained
      raise  == count2 /\ win.hold2 = 0 /\ tmp = <<>>
  IN win' = IF Leave
            THEN [cpt_working |-> FALSE, h2m_complete |-> FALSE,
                  hold1 |-> Drain, hold2 |-> Drain]
            ELSE [cpt_working  |-> win.cpt_working \/ start,
                  h2m_complete |-> win.h2m_complete \/ raise,
                  hold1 |-> IF count1 THEN win.hold1 - 1 ELSE win.hold1,
                  hold2 |-> IF count2 THEN (win.hold2 + HoldSpan - 1) % HoldSpan
                            ELSE win.hold2]

-----------------------------------------------------------------------------
(* The engines and the port to the QDMA. *)

(* The completion unit's command goes before the engine's. *)
C2HCmdFire == c2h.state = "send" /\ c2h.valid /\ cmd_ready /\ ~cpt.cmd_valid
CptCmdFire == cpt.cmd_valid /\ cmd_ready
CptDataFire == cpt.data_valid /\ data_ready

(* The C2H engine: latch a packet, offer it to the QDMA, hold, be idle. *)
C2HStep ==
  \/ /\ c2h.state = "idle"
     /\ c2h' = IF Fire THEN [c2h EXCEPT !.state = "send", !.pkt = C2HPacket] ELSE c2h
  \/ /\ c2h.state = "send"
     /\ c2h' = IF C2HCmdFire
               THEN [c2h EXCEPT !.state = "done", !.valid = FALSE, !.hold = Hold]
               ELSE [c2h EXCEPT !.valid = TRUE]
  \/ /\ c2h.state = "done"
     /\ c2h' = [c2h EXCEPT !.hold = (@ + 15) % 16,
                           !.state = IF c2h.hold = 0 THEN "idle" ELSE @]

(* The start pulse and the wires beside it cross to the HBM clock; the     *)
(* reader samples the wires of the cycle after the pulse (two HBM cycles   *)
(* at 450 MHz are between one and two user cycles at 300 MHz).             *)
ReaderStep ==
  /\ m2h_start' = Fire
  /\ request' = IF m2h_start THEN <<M2HRequest>> ELSE request
  /\ age' = IF m2h_start \/ request # <<>> THEN age + 1 ELSE 0

(* Host addresses of a packet, HBM addresses of a request, beat by beat. *)
SlotsOf(p) == [k \in 1 .. p.len |-> [id |-> p.id, off |-> p.off + k - 1]]
BeatsOf(r) == [k \in 1 .. r.len |-> r.addr + k - 1]

(* The beat that lands in slot s of host memory. *)
Land(s, beat) ==
  /\ host' = {w \in host : w.id # s.id \/ w.off # s.off}
               \union {[id |-> s.id, off |-> s.off, beat |-> beat]}
  /\ notified' = IF s.off = Flag THEN Append(notified, s.id) ELSE notified

(* What the QDMA accepts at an edge: a command, and a completion's data,   *)
(* which goes to the oldest slot.  A beat at the FIFO's output is lost if  *)
(* the port is ready and the completion's data is put in its place.        *)
PortStep ==
  LET new == IF CptCmdFire THEN <<[id |-> cpt.cpt_addr, off |-> Flag]>>
             ELSE IF C2HCmdFire THEN SlotsOf(c2h.pkt) ELSE <<>>
  IN /\ slots' = (IF CptDataFire THEN Tail(slots) ELSE slots) \o new
     /\ IF CptDataFire THEN Land(Head(slots), FlagBeat) ELSE UNCHANGED memory
     /\ cmd_ready' = (cmd_ready /\ ~CptCmdFire /\ ~C2HCmdFire)
     /\ data_ready' = FALSE
     /\ tmp' = IF CptDataFire /\ ~cpt.cmd_valid THEN <<>> ELSE tmp

(* The completion unit and the edge detectors before it. *)
CompletionStep ==
  /\ cpt' = UnitStep(cpt,
       [h2c_start    |-> h2d.last /\ ~was.h2d_last,
        h2c_addr     |-> H2DId(h2d.n),
        h2c_complete |-> win.h2m_complete,
        c2h_start    |-> head[Sel].last /\ ~was.d2h_last,
        c2h_addr     |-> head[Sel].cpt,
        c2h_complete |-> head[Sel].m2h_complete,
        p2p_complete |-> FALSE,
        p2p_addr     |-> NoId,
        cmd_ready    |-> cmd_ready,
        data_ready   |-> data_ready])
  /\ was' = [h2d_last |-> h2d.last, h2d_complete |-> h2d.complete,
             d2h_last |-> head[Sel].last]

(* The host-to-device head that waits for its completion. *)
H2DStep ==
  h2d' = IF h2d.last /\ h2d.complete /\ cpt.h2c_cpt_complete
         THEN [h2d EXCEPT !.last = FALSE, !.complete = FALSE] ELSE h2d

HistoryStep ==
  /\ job' = [i \in Queues |-> IF CmdInFire(i) THEN Head(fifo[i]) ELSE job[i]]
  /\ sent' = [i \in Queues |->
                IF CmdInFire(i) THEN 0
                ELSE IF Fire /\ Sel = i THEN sent[i] + head[i].length ELSE sent[i]]

(* One edge of user_clk. *)
Tick ==
  /\ request # <<>> => age < Lat
  /\ fifo' = [i \in Queues |-> FifoNext(i)]
  /\ head' = [i \in Queues |-> HeadNext(i)]
  /\ Schedule
  /\ WindowStep
  /\ C2HStep
  /\ ReaderStep
  /\ PortStep
  /\ CompletionStep
  /\ H2DStep
  /\ HistoryStep
  /\ req' = <<>>
  /\ UNCHANGED <<m2h_finish, reading, m2hq, posted>>

-----------------------------------------------------------------------------
(* Outside the clock domain. *)

Numbered(i, n, c) == [id |-> [q |-> i, n |-> n], m2h |-> c.m2h, len |-> c.len,
                      pkt |-> c.pkt]

(* d2h() of the host library writes a command and pulses its start bit. *)
Post(i, c) ==
  /\ Len(posted) < MaxPosts
  /\ req = <<>>
  /\ LET cmd == Numbered(i, Len(posted) + 1, c)
     IN req' = <<[q |-> i, cmd |-> cmd]>> /\ posted' = Append(posted, cmd)
  /\ UNCHANGED <<sched, c2h, reader, stream, qdma, cpt, was, h2d, memory, job, sent>>

(* The HBM reader starts on its request; user_clk sees m2h_complete fall. *)
ReaderStart ==
  /\ request # <<>>
  /\ reading' = reading \o BeatsOf(request[1])
  /\ request' = <<>>
  /\ m2h_finish' = FALSE
  /\ age' = 0
  /\ UNCHANGED <<req, sched, c2h, m2h_start, m2hq, tmp, qdma, cpt, was, h2d,
                 memory, posted, job, sent>>

BadReaderDone ==                               \* no wait after the last packet
  /\ ~m2h_finish
  /\ m2h_finish' = TRUE
  /\ UNCHANGED <<req, sched, c2h, m2h_start, request, age, stream, qdma, cpt, was,
                 h2d, memory, posted, job, sent>>

(* All addresses are issued; after a command's last packet the reader also *)
(* waits until every beat has gone through the FIFO to the QDMA.           *)
ReaderDone ==
  /\ ~m2h_finish
  /\ head[Sel].last => reading = <<>> /\ m2hq = <<>> /\ tmp = <<>>
  /\ m2h_finish' = TRUE
  /\ UNCHANGED <<req, sched, c2h, m2h_start, request, age, stream, qdma, cpt, was,
                 h2d, memory, posted, job, sent>>

(* The HBM returns a beat into the FIFO. *)
HbmReturn ==
  /\ reading # <<>> /\ Len(m2hq) < FifoDepth
  /\ m2hq' = Append(m2hq, Head(reading))
  /\ reading' = Tail(reading)
  /\ UNCHANGED <<req, sched, c2h, reader, tmp, qdma, cpt, was, h2d, memory,
                 posted, job, sent>>

(* rd_en: a beat moves to the FIFO's output, unless a completion's command *)
(* is offered.                                                             *)
FifoRead ==
  /\ m2hq # <<>> /\ tmp = <<>> /\ ~cpt.cmd_valid
  /\ tmp' = <<Head(m2hq)>>
  /\ m2hq' = Tail(m2hq)
  /\ UNCHANGED <<req, sched, c2h, reader, reading, qdma, cpt, was, h2d, memory,
                 posted, job, sent>>

(* The QDMA takes the stream's next beat for its oldest slot.  It accepts  *)
(* data only for a command it has (DataBoundarySplit).                     *)
TakeBeat ==
  /\ tmp # <<>> /\ slots # <<>> /\ ~cpt.data_valid
  /\ Land(Head(slots), tmp[1])
  /\ slots' = Tail(slots)
  /\ tmp' = <<>>
  /\ UNCHANGED <<req, sched, c2h, reader, reading, m2hq, cmd_ready, data_ready, cpt,
                 was, h2d, posted, job, sent>>

(* The QDMA raises its ready wires. *)
CmdReady ==
  /\ (c2h.valid \/ cpt.cmd_valid) /\ ~cmd_ready
  /\ cmd_ready' = TRUE
  /\ UNCHANGED <<req, sched, c2h, reader, stream, slots, data_ready, cpt, was, h2d,
                 memory, posted, job, sent>>

DataReady ==
  /\ cpt.data_valid /\ slots # <<>> /\ ~data_ready
  /\ data_ready' = TRUE
  /\ UNCHANGED <<req, sched, c2h, reader, stream, slots, cmd_ready, cpt, was, h2d,
                 memory, posted, job, sent>>

(* The host-to-device path: the selected head fires its final packet, and  *)
(* later finds its data written to the HBM.                                *)
H2DLast ==
  /\ h2d.n < MaxH2D
  /\ ~h2d.last /\ ~was.h2d_last
  /\ h2d' = [h2d EXCEPT !.last = TRUE, !.n = @ + 1]
  /\ UNCHANGED <<req, sched, c2h, reader, stream, qdma, cpt, was, memory,
                 posted, job, sent>>

H2DWritten ==
  /\ h2d.last /\ ~h2d.complete /\ was.h2d_last
  /\ h2d' = [h2d EXCEPT !.complete = TRUE]
  /\ UNCHANGED <<req, sched, c2h, reader, stream, qdma, cpt, was, memory,
                 posted, job, sent>>

-----------------------------------------------------------------------------
NoJob    == [id |-> NoId, m2h |-> 0, len |-> 0, pkt |-> 0]
NoPacket == [id |-> NoId, off |-> 0, len |-> 0]

Init ==
  /\ req = <<>>
  /\ fifo = [i \in Queues |-> <<>>]
  /\ head = [i \in Queues |-> IdleHead]
  /\ out = 0 /\ next = 0
  /\ win = [cpt_working |-> FALSE, h2m_complete |-> FALSE,
            hold1 |-> Drain, hold2 |-> Drain]
  /\ c2h = [state |-> "idle", valid |-> FALSE, hold |-> 0, pkt |-> NoPacket]
  /\ m2h_start = FALSE /\ request = <<>> /\ m2h_finish = TRUE /\ age = 0
  /\ reading = <<>> /\ m2hq = <<>> /\ tmp = <<>>
  /\ slots = <<>> /\ cmd_ready = FALSE /\ data_ready = FALSE
  /\ cpt = UnitReset(NoId)
  /\ was = [h2d_last |-> FALSE, h2d_complete |-> FALSE, d2h_last |-> FALSE]
  /\ h2d = [last |-> FALSE, complete |-> FALSE, n |-> 0]
  /\ host = {} /\ notified = <<>> /\ posted = <<>>
  /\ job = [i \in Queues |-> NoJob]
  /\ sent = [i \in Queues |-> 0]

Reader == ReaderStart \/ ReaderDone \/ HbmReturn \/ FifoRead
Qdma   == TakeBeat \/ CmdReady \/ DataReady
H2D    == H2DLast \/ H2DWritten

Next ==
  \/ Tick
  \/ \E i \in UsedQueues, c \in Cmds : Post(i, c)
  \/ Reader
  \/ Qdma
  \/ H2D

Spec == Init /\ [][Next]_vars

(* The clock runs; the HBM reader, the HBM and the QDMA do their work. *)
Fairness ==
  /\ WF_vars(Tick)
  /\ WF_vars(ReaderStart) /\ WF_vars(ReaderDone)
  /\ WF_vars(HbmReturn) /\ WF_vars(FifoRead)
  /\ WF_vars(TakeBeat) /\ WF_vars(CmdReady) /\ WF_vars(DataReady)

FairSpec == Spec /\ Fairness

-----------------------------------------------------------------------------
(* Properties. *)

Ids  == [q : 0 .. NumQ, n : 0 .. MaxPosts + MaxH2D]
Job  == [id : Ids, m2h : 0 .. AddrSpace - 1, len : 0 .. AddrSpace, pkt : 0 .. AddrSpace]
HeadType ==
  [cmd_in_ready : BOOLEAN, cmd_out_valid : BOOLEAN, m2h_complete : BOOLEAN,
   working : BOOLEAN, last : BOOLEAN, continue : BOOLEAN,
   length : 0 .. AddrSpace, length_reg : 0 .. AddrSpace, c2h_addr : Nat,
   m2h_addr : 0 .. AddrSpace - 1, m2h_addr_reg : 0 .. AddrSpace - 1,
   next_addr : 0 .. AddrSpace - 1, end_addr : 0 .. AddrSpace - 1,
   pkt_size : 0 .. AddrSpace, cpt : Ids]
SlotType == [id : Ids, off : Nat]

(* Types of the registers, wires and history variables. *)
TypeOK ==
  /\ req \in Seq([q : Queues, cmd : Job]) /\ Len(req) =< 1
  /\ fifo \in [Queues -> Seq(Job)]
  /\ \A i \in Queues : Len(fifo[i]) =< QDepth
  /\ head \in [Queues -> HeadType]
  /\ out \in Queues \union {Window} /\ next \in Queues
  /\ win \in [cpt_working : BOOLEAN, h2m_complete : BOOLEAN,
              hold1 : 0 .. HoldSpan - 1, hold2 : 0 .. HoldSpan - 1]
  /\ c2h \in [state : {"idle", "send", "done"}, valid : BOOLEAN, hold : 0 .. 15,
              pkt : [id : Ids, off : Nat, len : 0 .. AddrSpace]]
  /\ m2h_start \in BOOLEAN /\ m2h_finish \in BOOLEAN /\ age \in 0 .. Lat + 1
  /\ request \in Seq([addr : 0 .. AddrSpace - 1, len : 0 .. AddrSpace])
  /\ Len(request) =< 1
  /\ reading \in Seq(0 .. AddrSpace - 1)
  /\ m2hq \in Seq(0 .. AddrSpace - 1) /\ Len(m2hq) =< FifoDepth
  /\ tmp \in Seq(0 .. AddrSpace - 1) /\ Len(tmp) =< 1
  /\ slots \in Seq(SlotType)
  /\ cmd_ready \in BOOLEAN /\ data_ready \in BOOLEAN
  /\ cpt.cpt_addr \in Ids /\ cpt.h2c_cpt_addr \in Ids /\ cpt.c2h_cpt_addr \in Ids
  /\ host \in SUBSET [id : Ids, off : Nat, beat : 0 .. FlagBeat]
  /\ notified \in Seq(Ids)
  /\ posted \in Seq(Job)
  /\ job \in [Queues -> Job]
  /\ sent \in [Queues -> Nat]

Reported == {notified[k] : k \in 1 .. Len(notified)}

(* When the flag of a command has been written, the command's buffer holds *)
(* its data: beat k of the buffer is beat k of the HBM range it names.     *)
BufferFilled ==
  \A n \in 1 .. Len(posted) :
    LET c == posted[n]
    IN c.id \in Reported =>
         \A k \in 0 .. c.len - 1 : [id |-> c.id, off |-> k, beat |-> c.m2h + k] \in host

(* Host addresses that wait for data: the QDMA's slots, unless they are a   *)
(* completion's, and those of the packet the engine still offers.          *)
Wanted == (IF \A k \in 1 .. Len(slots) : slots[k].off = Flag THEN <<>> ELSE slots)
          \o (IF c2h.state = "send" THEN SlotsOf(c2h.pkt) ELSE <<>>)

(* The beats on their way, oldest first, and those yet to be asked for.    *)
OnTheWay == tmp \o m2hq \o reading
            \o (IF request # <<>> THEN BeatsOf(request[1]) ELSE <<>>)
            \o (IF m2h_start THEN BeatsOf(M2HRequest) ELSE <<>>)

(* The QDMA pairs beats with host addresses by order alone: the beats that *)
(* are on their way are those that its slots, and the packet the engine is *)
(* still offering, want; a completion's slot is never among those of data. *)
StreamAligned ==
  OnTheWay = [k \in 1 .. Len(Wanted) |-> posted[Wanted[k].id.n].m2h + Wanted[k].off]

(* The port carries either data or a completion: while the completion      *)
(* unit offers its beat no data beat is on its way, and it works for one   *)
(* of the two paths at a time, since they share its address register.      *)
CompletionAlone ==
  /\ cpt.data_valid => /\ c2h.state = "idle" /\ ~m2h_start
                       /\ request = <<>> /\ reading = <<>> /\ m2hq = <<>> /\ tmp = <<>>
                       /\ \A k \in 1 .. Len(slots) : slots[k].off = Flag
  /\ ~(cpt.h2c_started /\ cpt.c2h_started)

(* A head that waits for its completion stays selected: what it waits for  *)
(* is gated by out === i.                                                  *)
WaitingHeadSelected == \A i \in Queues : head[i].last => out = i

(* No flag is written twice, and neither path goes on to its next command  *)
(* before the flag of the one before has been written.                     *)
FlagsWritten ==
  /\ \A j, k \in 1 .. Len(notified) : j < k => notified[j] # notified[k]
  /\ ~h2d.last => \A n \in 1 .. h2d.n : H2DId(n) \in Reported
  /\ \A i \in Queues : job[i] # NoJob /\ ~head[i].working => job[i].id \in Reported

(* The engines never move more than a command's length, and have moved     *)
(* exactly that when its head waits for the completion.                    *)
LengthMoved ==
  \A i \in Queues : /\ sent[i] =< job[i].len
                    /\ head[i].last => sent[i] = job[i].len

(* Every command the host posts is eventually reported complete: again and *)
(* again nothing posted is left unreported.                                *)
PostedCompletes ==
  []<>(\A n \in 1 .. Len(posted) : \E k \in 1 .. Len(notified) :
         notified[k].n = n /\ notified[k].q \in Queues)

(* A host-to-device command that ends is given its window and reported,    *)
(* whatever the device-to-host path has queued.                            *)
H2DAnswered == []<>~h2d.complete

(* The path implements OrderedDelivery, completions of other paths aside.  *)
(* A posted command counts from the moment it is on the wires of a queue   *)
(* that has room for it.                                                   *)
Unreported(i) == head[i].working /\ job[i].id \notin Reported
Arriving(i)   == req # <<>> /\ req[1].q = i /\ Len(fifo[i]) < QDepth
Todo  == [i \in Queues |-> (IF Unreported(i) THEN <<job[i]>> ELSE <<>>) \o fifo[i]
                          \o (IF Arriving(i) THEN <<req[1].cmd>> ELSE <<>>)]
Moved == [i \in Queues |->
            IF Unreported(i)
            THEN Cardinality({w \in host : w.id = job[i].id /\ w.off # Flag}) ELSE 0]
Done  == LET own(id) == id.q \in Queues IN SelectSeq(notified, own)

PostedJobs(i) == {Numbered(i, n, c) : n \in 1 .. MaxPosts, c \in Cmds}

Delivery == INSTANCE OrderedDelivery
              WITH Flows <- Queues, Jobs <- PostedJobs,
                   todo <- Todo, moved <- Moved, done <- Done

ImplementsDelivery == Delivery!Spec

(* A command's data are read, cut, paired with their addresses and in its    *)
(* buffer when it ends.                                                      *)
DataRight ==
  /\ TypeOK /\ WaitingHeadSelected /\ LengthMoved
  /\ StreamAligned /\ BufferFilled

(* Completions mix with neither the data nor each other. *)
CompletionsRight == CompletionAlone /\ FlagsWritten

(* Neither path keeps the other from reporting its commands. *)
BothAnswered == PostedCompletes /\ H2DAnswered
=============================================================================
