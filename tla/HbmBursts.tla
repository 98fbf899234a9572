----------------------------- MODULE HbmBursts -----------------------------
(***************************************************************************)
(* The HBM writer (H2M.scala) and the HBM reader (M2H.scala) cut a packet  *)
(* into AXI bursts that end at 512-byte boundaries, and the writer feeds   *)
(* the bursts from a FIFO with one word of read-ahead (validreg.scala).    *)
(* One edge of hbm_clk is one step; everything the edge samples (grants of *)
(* the AXI slave, words in the FIFO) is chosen.                            *)
(*                                                                         *)
(* One address is one 32-byte beat.  Hosts round lengths up to 64 bytes    *)
(* and hand out aligned addresses: packets start and end at even ones.     *)
(* They start in the first block: in a later one all addresses are shifted.*)
(***************************************************************************)
EXTENDS Integers, Sequences

CONSTANTS
  Block,    \* beats between two boundaries, 16 in the code
  Space,    \* addresses of the 34-bit address registers
  MaxLen,   \* longest packet (bound)
  Packets,  \* number of packets (bound)
  Hold1,    \* edges the reader waits when all data are in the FIFO, 10 in the code
  Hold2,    \* edges it must see the FIFO empty for, 5 in the code
  Lag       \* edges that the FIFO's state takes to cross to hbm_clk

ASSUME BlockAssumption ==
  /\ Block \in Nat /\ Block % 2 = 0 /\ Block > 0
  /\ Space \in Nat \ {0} /\ Space % Block = 0
  /\ MaxLen \in Nat /\ Packets \in Nat
  /\ Hold1 \in Nat /\ Hold2 \in Nat /\ Lag \in Nat \ {0}

VARIABLES
  job,     \* the packet in work: direction, start, length, last; and its number
  start,   \* the start pulse of the edge, and of the edge before (init)
  cur,     \* registers of the burst cursor, of whichever engine works
  done,    \* complete, clear
  wr,      \* writer: write_len, wlast, and total_length less write_count
  fifo,    \* words not read, data_valid and tmpreg of the read-ahead
  rd,      \* reader: total_length less read_count, hold1 and hold2; beats
           \* owed by the HBM, in the FIFO, at the FIFO's output, and what
           \* hbm_clk has yet to see of the latter two
  issued   \* history: bursts accepted for the packet

burstVars == <<job, start, cur, done, wr, fifo, rd, issued>>

(* The registers that start loads are forgotten between packets. *)
Idle == [state |-> "idle", addr |-> 0, valid |-> FALSE, len |-> 0,
         tmp |-> 0, next |-> 0, end |-> 0]

BurstInit ==
  /\ job = [dir |-> "write", from |-> 0, length |-> 0, last |-> FALSE, n |-> 0]
  /\ start = [now |-> FALSE, init |-> FALSE]
  /\ cur = Idle
  /\ done = [complete |-> TRUE, clear |-> FALSE]
  /\ wr = [beat |-> 0, wlast |-> FALSE, due |-> 0]
  /\ fifo = [words |-> 0, data_valid |-> FALSE, tmpreg |-> FALSE]
  /\ rd = [due |-> 0, hold1 |-> Hold1, hold2 |-> Hold2,
           owed |-> 0, queue |-> 0, out |-> "none",
           seen |-> [i \in 1 .. Lag |-> [empty |-> TRUE, tmpreg |-> FALSE]]]
  /\ issued = <<>>

-----------------------------------------------------------------------------
(* The cursor: [tmp, next) is the burst after the one on the address bus.  *)

Add(a, b) == (a + b) % Space
BlockOf(a) == a \div Block

(* The first burst ends at the boundary or with the packet. *)
FirstCut(a, n) ==
  IF Block < (a % Block) + n THEN Add(Block * BlockOf(a), Block) ELSE Add(a, n)

BadNextCut(next, end) ==  \* mutant: < for =<
  IF BlockOf(next) + 1 < BlockOf(end) THEN Add(next, Block) ELSE end

NextCut(next, end) ==
  IF BlockOf(next) + 1 =< BlockOf(end) THEN Add(next, Block) ELSE end

(* awlen and arlen hold one less than the beats of the burst, cut to the   *)
(* bits of a block: a whole block is 0 before the subtraction.             *)
AxLen(tmp, next) == (((next - tmp) % Block) + Block - 1) % Block

(* start: the registers take the packet. *)
Loaded(c) ==
  [c EXCEPT !.tmp = job.from, !.next = FirstCut(job.from, job.length),
            !.end = Add(job.from, job.length)]

(* The next burst goes to the address bus. *)
Moved(c, state) ==
  [c EXCEPT !.state = state, !.addr = c.tmp, !.tmp = c.next, !.valid = TRUE,
            !.next = NextCut(c.next, c.end), !.len = AxLen(c.tmp, c.next)]

-----------------------------------------------------------------------------
(* A packet is handed over, by a pulse and registers that are stable by    *)
(* then.  The two engines share nothing but the HBM: one works at a time.  *)
Post(dir, from, length, last) ==
  /\ done.complete /\ cur.state = "idle" /\ ~start.now /\ ~start.init
  /\ job.n < Packets
  /\ job' = [dir |-> dir, from |-> from, length |-> length, last |-> last, n |-> job.n + 1]
  /\ start' = [start EXCEPT !.now = TRUE]
  /\ issued' = <<>>
  /\ fifo' = IF dir = "write" THEN [fifo EXCEPT !.words = @ + length] ELSE fifo
  /\ UNCHANGED <<cur, done, wr, rd>>

Issue == issued' = Append(issued, [addr |-> cur.addr, beats |-> cur.len + 1])

(* start and init, alike in both engines. *)
Begin(state) ==
  /\ start' = [now |-> FALSE, init |-> start.now]
  /\ cur' = IF start.now THEN Loaded(cur)
            ELSE IF start.init THEN Moved(cur, state) ELSE cur
  /\ UNCHANGED issued

(* The read-ahead: the FIFO is read when the slave takes a beat in a       *)
(* burst; a word that comes when it is not waits in dout, marked tmpreg.   *)
Offered == cur.state = "data" /\ (fifo.data_valid # fifo.tmpreg)

BadHeld(ready) == fifo.tmpreg /\ ~ready  \* mutant: a word that comes too late is dropped
Held(ready) == (fifo.tmpreg \/ fifo.data_valid) /\ ~ready

ReadFifo(ready, word) ==
  fifo' = [words |-> IF word THEN fifo.words - 1 ELSE fifo.words,
           data_valid |-> word, tmpreg |-> Held(ready)]

WlastNext == wr.beat = (cur.len + Block - 1) % Block

WriteBeat ==
  /\ wr' = [wr EXCEPT !.beat = IF wr.beat = cur.len THEN 0 ELSE @ + 1,
                      !.wlast = WlastNext, !.due = @ - 1]
  /\ cur' = CASE wr.beat # cur.len -> cur
              [] wr.beat = cur.len /\ cur.tmp = cur.end -> [cur EXCEPT !.state = "finish"]
              [] OTHER -> Moved(cur, "addr")

(* H2M at an edge. *)
WriterEdge(axready, wready, word) ==
  /\ job.dir = "write"
  /\ word => fifo.words > 0 /\ cur.state = "data" /\ wready
  /\ ReadFifo(cur.state = "data" /\ wready, word)
  /\ UNCHANGED <<job, rd>>
  /\ CASE cur.state = "idle" ->
            /\ Begin("addr")
            /\ wr' = IF start.now THEN [wr EXCEPT !.wlast = FALSE, !.due = @ + job.length]
                     ELSE wr
            /\ done' = IF start.now THEN [complete |-> FALSE, clear |-> FALSE] ELSE done
       [] cur.state = "addr" ->
            /\ IF axready THEN Issue /\ cur' = [cur EXCEPT !.valid = FALSE, !.state = "data"]
                          ELSE UNCHANGED <<issued, cur>>
            /\ UNCHANGED <<start, done, wr>>
       [] cur.state = "data" ->
            /\ IF Offered /\ wready THEN WriteBeat ELSE UNCHANGED <<wr, cur>>
            /\ UNCHANGED <<start, done, issued>>
       [] cur.state = "finish" ->
            /\ IF job.last => wr.due = 0
               THEN /\ cur' = Idle
                    /\ done' = [complete |-> TRUE, clear |-> job.last]
                    /\ wr' = [wr EXCEPT !.wlast = FALSE, !.beat = 0]
               ELSE UNCHANGED <<cur, done, wr>>
            /\ UNCHANGED <<start, issued>>

-----------------------------------------------------------------------------
(* The reader's FIFO: a beat comes from the HBM; the user side reads when  *)
(* the QDMA is ready, and a beat that comes when it is not is in tmpreg.   *)
Output(ready, pop) ==
  IF pop THEN "valid"
  ELSE IF rd.out # "none" /\ ~ready THEN "tmpreg" ELSE "none"

Stream(r, beat, ready) ==
  LET pop == ready /\ rd.queue > 0
  IN  [r EXCEPT !.owed  = IF beat THEN @ - 1 ELSE @,
                !.due   = IF beat THEN @ - 1 ELSE @,
                !.queue = (IF beat THEN @ + 1 ELSE @) - (IF pop THEN 1 ELSE 0),
                !.out   = Output(ready, pop),
                !.seen  = Append(Tail(@), [empty |-> rd.queue = 0, tmpreg |-> rd.out = "tmpreg"])]

BadHeldLong(r) == [r EXCEPT !.hold1 = 0, !.hold2 = IF r.seen[1].empty THEN 0 ELSE @]

BadEmpty(r) ==  \* mutant: the first wait stops at one
  [r EXCEPT !.hold1 = IF r.due = 0 /\ @ > 1 THEN @ - 1 ELSE @,
            !.hold2 = IF r.hold1 = 0 /\ r.seen[1].empty /\ @ > 0 THEN @ - 1 ELSE @]

(* The two waits of the last packet: for the data and for the FIFO. *)
HeldLong(r) ==
  [r EXCEPT !.hold1 = IF r.due = 0 /\ @ > 0 THEN @ - 1 ELSE @,
            !.hold2 = IF r.hold1 = 0 /\ r.seen[1].empty /\ @ > 0 THEN @ - 1 ELSE @]

(* M2H at an edge. *)
ReaderEdge(axready, beat, ready) ==
  /\ job.dir = "read"
  /\ beat => rd.owed > 0
  /\ UNCHANGED <<job, wr, fifo>>
  /\ CASE cur.state = "idle" ->
            /\ Begin("addr")
            /\ rd' = LET r == Stream(rd, beat, ready)
                     IN  IF start.now
                         THEN [r EXCEPT !.due = @ + job.length, !.hold1 = Hold1, !.hold2 = Hold2]
                         ELSE r
            /\ done' = IF start.now THEN [done EXCEPT !.complete = FALSE] ELSE done
       [] cur.state = "addr" ->
            /\ IF axready
               THEN /\ Issue
                    /\ rd' = Stream([rd EXCEPT !.owed = @ + cur.len + 1], beat, ready)
                    /\ cur' = IF cur.tmp = cur.end
                              THEN [Moved(cur, "finish") EXCEPT !.valid = FALSE]
                              ELSE Moved(cur, "addr")
               ELSE /\ rd' = Stream(rd, beat, ready)
                    /\ UNCHANGED <<issued, cur>>
            /\ UNCHANGED <<start, done>>
       [] cur.state = "finish" ->
            /\ rd' = Stream(IF job.last THEN HeldLong(rd) ELSE rd, beat, ready)
            /\ IF job.last => rd.hold2 = 0 /\ ~rd.seen[1].tmpreg
               THEN /\ cur' = Idle
                    /\ done' = [done EXCEPT !.complete = TRUE]
               ELSE UNCHANGED <<cur, done>>
            /\ UNCHANGED <<start, issued>>

BurstNext ==
  \/ \E dir \in {"read", "write"}, from \in 0 .. Block - 1, length \in 1 .. MaxLen,
        last \in BOOLEAN :
       /\ from % 2 = 0 /\ length % 2 = 0 /\ from + length =< Space \div 2
       /\ Post(dir, from, length, last)
  \/ \E axready, wready, word \in BOOLEAN : WriterEdge(axready, wready, word)
  \/ \E axready, beat, ready \in BOOLEAN : ReaderEdge(axready, beat, ready)

BurstSpec == BurstInit /\ [][BurstNext]_burstVars

(* The AXI slave and the QDMA take what is offered, words that were written *)
(* to the FIFO can be read and beats that were asked for come.             *)
BurstFairSpec ==
  /\ BurstSpec
  /\ WF_burstVars(WriterEdge(TRUE, TRUE, FALSE)) /\ WF_burstVars(WriterEdge(TRUE, TRUE, TRUE))
  /\ WF_burstVars(ReaderEdge(TRUE, FALSE, TRUE)) /\ WF_burstVars(ReaderEdge(TRUE, TRUE, TRUE))

-----------------------------------------------------------------------------
(* Types; at most one word is read ahead, so the one-bit sum of data_valid *)
(* and tmpreg that drives w.valid never hides it.                          *)
BurstTypeOK ==
  /\ job \in [dir : {"read", "write"}, from : 0 .. Space - 1, length : 0 .. MaxLen,
              last : BOOLEAN, n : 0 .. Packets]
  /\ cur.state \in {"idle", "addr", "data", "finish"}
  /\ {cur.addr, cur.tmp, cur.next, cur.end} \subseteq 0 .. Space - 1
  /\ cur.len \in 0 .. Block - 1
  /\ ~(fifo.data_valid /\ fifo.tmpreg)
  /\ fifo.words \in Nat /\ rd.queue \in Nat /\ rd.owed \in Nat

Ends(b) == b.addr + b.beats
LastIssued == issued[Len(issued)]

(* The bursts of a packet follow one another without a gap from the         *)
(* packet's first beat, none crosses a 512-byte boundary, and when the      *)
(* engine has finished they end with the packet's last beat.                *)
BurstsTile ==
  /\ \A i \in DOMAIN issued :
       /\ issued[i].addr = IF i = 1 THEN job.from ELSE Ends(issued[i - 1])
       /\ BlockOf(issued[i].addr) = BlockOf(Ends(issued[i]) - 1)
       /\ Ends(issued[i]) =< job.from + job.length
  /\ cur.state = "finish" => Ends(LastIssued) = job.from + job.length

(* A beat is offered to the AXI slave only within an accepted burst, and    *)
(* wlast is up exactly for the burst's last beat, however the FIFO and the  *)
(* slave stall.                                                             *)
LastOnLastBeat ==
  Offered => /\ wr.wlast <=> wr.beat = cur.len
             /\ issued # <<>> /\ LastIssued.addr = cur.addr

(* Every word the QDMA delivered is written exactly once: what was written  *)
(* to the FIFO is in it, read ahead, or has been taken by the slave.        *)
NoWordLost ==
  LET posted == IF start.now /\ job.dir = "write" THEN job.length ELSE 0
  IN  fifo.words + (IF fifo.data_valid \/ fifo.tmpreg THEN 1 ELSE 0) = wr.due + posted

(* When the reader reports a command's last packet, none of its beats is    *)
(* still on its way to the QDMA port, where a completion would overtake it, *)
(* although the reader sees the FIFO late.                                  *)
DrainedWhenComplete ==
  job.dir = "read" /\ job.last /\ done.complete /\ ~start.now /\ cur.state = "idle" =>
    rd.owed = 0 /\ rd.queue = 0 /\ rd.out = "none"

(* Every packet is finished: the engines are idle again and again. *)
PacketsComplete == []<>done.complete

(* What the AXI slave is given: the bursts and every word once. *)
BurstsRight == BurstTypeOK /\ BurstsTile /\ LastOnLastBeat /\ NoWordLost
=============================================================================
