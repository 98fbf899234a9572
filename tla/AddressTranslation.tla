------------------------- MODULE AddressTranslation -------------------------
(* The path of DMA commands from the engines to the QDMA (CheckSplit.scala,  *)
(* TLB.scala, QDMA.scala): each direction cuts its commands at the ends of   *)
(* the pages and again at a largest size, looks up the page of every piece   *)
(* in one table of two ports, and queues what it found; pieces whose page is *)
(* not in the table are dropped.  The pieces of the device-to-host direction *)
(* are then paired with the beats of the data stream.  One step is one edge  *)
(* of user_clk.                                                              *)
(*                                                                           *)
(* Addresses and lengths are counted in beats of 64 bytes: buffers are cut   *)
(* from huge pages at whole beats.  A frame, the physical address of a page, *)
(* is the number of the write that listed it.                                *)
EXTENDS Integers, Sequences

CONSTANTS
  Page,      \* beats of a page (0x200000 bytes)
  Mini,      \* [direction -> largest piece in beats] (0x8000 and 0x1000 bytes)
  Entries,   \* entry_num, entries of the table
  QDepth,    \* Q_DEPTH
  Cmds,      \* the commands an engine may give, [addr, len]
  MaxCmds,   \* bound: commands of each direction
  MaxWrites, \* bound: writes of the table
  NoCmd

Dir == {"h2c", "c2h"}

ASSUME TranslationAssumption ==
  /\ Page \in Nat \ {0} /\ Entries \in Nat \ {0} /\ QDepth \in Nat
  /\ Mini \in [Dir -> 1 .. Page]
  /\ QDepth > 2
  /\ \A c \in Cmds : c.addr \in Nat /\ c.len \in Nat \ {0}
  /\ NoCmd \notin Cmds

(* A piece between its lookup and the queue, and in the queue: at, want,     *)
(* read and near are history. *)
Pieces == [addr : Nat, len : Nat \ {0}, index : Nat, miss : BOOLEAN, at : Nat, read : Nat, near : BOOLEAN]
Queued == [addr : Nat, len : Nat \ {0}, at : Nat, want : Nat, near : BOOLEAN, frame : Nat]

ASSUME NoCmdAssumption == NoCmd \notin Pieces \union Queued

VARIABLES
  cutter,  \* per direction: the registers of CMDBoundaryCheck
  table,   \* [base, listed, ram, misses]: base_page, wrtlb_index, the RAM, tlb_miss_count
  pipe,    \* per direction: the two stages between a lookup and the queue
  porta,   \* the two output registers of the RAM's port a
  wrote,   \* the writes of the last two edges, which port b forwards
  queue,   \* per direction: q_h2c, q_c2h
  pairer,  \* DataBoundarySplit: [cmd, count], the piece whose beats it takes
  log      \* history: what the properties speak of

transVars == <<cutter, table, pipe, porta, wrote, queue, pairer, log>>

NoWrite == [at |-> -1, frame |-> 0, base |-> FALSE]

TransInit ==
  /\ cutter = [d \in Dir |-> [state |-> "idle", addr |-> 0, len |-> 0, offset |-> 0,
                              rest |-> 0, maddr |-> 0, mlen |-> 0]]
  /\ table = [base |-> 0, listed |-> 0, ram |-> [i \in 0 .. Entries - 1 |-> 0], misses |-> 0]
  /\ pipe = [d \in Dir |-> <<NoCmd, NoCmd>>]
  /\ porta = <<0, 0>>
  /\ wrote = <<NoWrite, NoWrite>>
  /\ queue = [d \in Dir |-> <<>>]
  /\ pairer = [cmd |-> NoCmd, count |-> 0, beats |-> 0]
  /\ log = [given |-> [d \in Dir |-> 0], cmd |-> [d \in Dir |-> NoCmd],
            sent |-> [d \in Dir |-> 0], stream |-> 0, writes |-> 0, missed |-> FALSE,
            forgotten |-> FALSE, lost |-> FALSE]

-----------------------------------------------------------------------------
(* CMDBoundaryCheck.  A cut leaves the rest in addr and len. *)
Cut(s, n) ==
  [s EXCEPT !.state = "minisplit", !.maddr = s.addr, !.mlen = n,
            !.addr = s.addr + n, !.len = s.len - n]

Final(s) == [s EXCEPT !.state = "lastsplit", !.maddr = s.addr, !.mlen = s.len]

First(s) == IF s.offset + s.len > Page THEN Cut(s, s.rest) ELSE Final(s)

PieceLen(d) == IF cutter[d].mlen > Mini[d] THEN Mini[d] ELSE cutter[d].mlen

CutterNext(d, cmd, ready) ==
  LET s == cutter[d]
  IN  CASE s.state = "idle" ->
             IF cmd = NoCmd THEN s
             ELSE [s EXCEPT !.state = "firstcmd", !.addr = cmd.addr, !.len = cmd.len,
                            !.offset = cmd.addr % Page, !.rest = Page - (cmd.addr % Page)]
        [] s.state = "firstcmd" -> First(s)
        [] s.state = "split" -> IF s.len > Page THEN Cut(s, Page) ELSE Final(s)
        [] s.state \in {"minisplit", "lastsplit"} ->
             IF ~ready THEN s
             ELSE IF s.mlen > Mini[d]
             THEN [s EXCEPT !.maddr = @ + Mini[d], !.mlen = @ - Mini[d]]
             ELSE [s EXCEPT !.state = IF @ = "minisplit" THEN "split" ELSE "idle"]

-----------------------------------------------------------------------------
(* TLB. *)
Ready(d) == Len(queue[d]) < QDepth - 2

Fires(d) == cutter[d].state \in {"minisplit", "lastsplit"} /\ Ready(d)

PageOf(d) == cutter[d].maddr \div Page
Index(d)  == PageOf(d) - table.base

OutOfRange(d) == PageOf(d) < table.base \/ PageOf(d) >= table.base + table.listed

(* The entry a write goes to: the first for a base write, else the next. *)
WriteIndex(base) == IF base THEN 0 ELSE table.listed

(* An index is cut to the bits of the RAM's address. *)
RamAt(i) == table.ram[i % Entries]

(* A piece at its lookup with what the RAM holds for it, and (history) its  *)
(* place in the stream of beats and whether a write was near: in the cycle  *)
(* of a host-to-device lookup, or a base write in the cycle of a device-to- *)
(* host lookup or the next.                                                 *)
Piece(d, write) ==
  [addr |-> cutter[d].maddr % Page, len |-> PieceLen(d), index |-> Index(d) % Entries,
   miss |-> OutOfRange(d), at |-> log.stream,
   read |-> RamAt(Index(d)),
   near |-> IF d = "h2c" THEN write # NoWrite ELSE write.base]

(* Port b forwards the writes of the last two edges. *)
PortB(p) ==
  IF wrote[1].at = p.index THEN wrote[1].frame
  ELSE IF wrote[2].at = p.index THEN wrote[2].frame ELSE p.read

Enqueue(d, deq) ==
  LET p == pipe[d][2]
      q == IF deq THEN Tail(queue[d]) ELSE queue[d]
  IN  IF p = NoCmd \/ p.miss \/ Len(queue[d]) = QDepth THEN q
      ELSE Append(q, [addr |-> p.addr, len |-> p.len, at |-> p.at, want |-> p.read, near |-> p.near,
                      frame |-> IF d = "h2c" THEN porta[2] ELSE PortB(p)])

Missed == { d \in Dir : Fires(d) /\ OutOfRange(d) }

Misses(write) ==
  IF Missed # {} THEN table.misses + (IF Missed = Dir THEN 2 ELSE 1)
  ELSE IF write.base THEN 0 ELSE table.misses

TableNext(write, page) ==
  [base   |-> IF write.base THEN page ELSE table.base,
   listed |-> IF write.base THEN 1 ELSE IF write # NoWrite THEN table.listed + 1 ELSE table.listed,
   ram    |-> IF write # NoWrite THEN [table.ram EXCEPT ![write.at % Entries] = write.frame] ELSE table.ram,
   misses |-> Misses(write)]

(* Port a carries the write's address in the cycle of a write, and its      *)
(* first output register then keeps its value ("no_change").                *)
BadPortA(write) ==  \* mutant: the output register is as old as the address
  <<IF write # NoWrite THEN porta[1] ELSE RamAt(Index("h2c")), IF write # NoWrite THEN porta[2] ELSE porta[1]>>

PortA(write) ==
  <<IF write # NoWrite THEN porta[1] ELSE RamAt(Index("h2c")), porta[1]>>

-----------------------------------------------------------------------------
(* DataBoundarySplit, idle while cmd is NoCmd: a piece is taken from q_c2h   *)
(* when its queue has room, then as many beats of the stream as it asks for. *)
TakesPiece(room) == pairer.cmd = NoCmd /\ room /\ queue["c2h"] # <<>>

BadLastBeat == pairer.count >= pairer.cmd.len  \* mutant: one beat late
LastBeat    == pairer.count + 1 >= pairer.cmd.len

PairerNext(room, beat) ==
  IF TakesPiece(room) THEN [pairer EXCEPT !.cmd = Head(queue["c2h"])]
  ELSE IF pairer.cmd # NoCmd /\ beat
  THEN [cmd |-> IF LastBeat THEN NoCmd ELSE pairer.cmd,
        count |-> IF LastBeat THEN 0 ELSE pairer.count + 1, beats |-> pairer.beats + 1]
  ELSE pairer

-----------------------------------------------------------------------------
(* One edge: a write of the table or none, a command offered to each        *)
(* cutter or none, room in the queues towards the QDMA, and a beat.         *)
Edge(write, page, cmd, take, room, beat) ==
  LET ready == [d \in Dir |-> Ready(d)]
      deq   == [h2c |-> take /\ queue["h2c"] # <<>>, c2h |-> TakesPiece(room)]
  IN  /\ cutter' = [d \in Dir |-> CutterNext(d, cmd[d], ready[d])]
      /\ table' = TableNext(write, page)
      /\ pipe' = [d \in Dir |->
           <<IF Fires(d) THEN Piece(d, write) ELSE NoCmd,
             IF d = "c2h" /\ write.base /\ pipe[d][1] # NoCmd
             THEN [pipe[d][1] EXCEPT !.near = TRUE] ELSE pipe[d][1]>>]
      /\ porta' = PortA(write)
      /\ wrote' = <<write, wrote[1]>>
      /\ queue' = [d \in Dir |-> Enqueue(d, deq[d])]
      /\ pairer' = PairerNext(room, beat)
      /\ log' = [given  |-> [d \in Dir |-> IF cmd[d] # NoCmd THEN log.given[d] + 1 ELSE log.given[d]],
                 cmd    |-> [d \in Dir |-> IF cmd[d] # NoCmd THEN cmd[d] ELSE log.cmd[d]],
                 sent   |-> [d \in Dir |-> IF cmd[d] # NoCmd THEN 0
                                           ELSE IF Fires(d) THEN log.sent[d] + PieceLen(d) ELSE log.sent[d]],
                 stream |-> IF Fires("c2h") THEN log.stream + PieceLen("c2h") ELSE log.stream,
                 writes |-> IF write # NoWrite THEN log.writes + 1 ELSE log.writes,
                 missed |-> log.missed \/ "c2h" \in Missed,
                 forgotten |-> log.forgotten \/ (write.base /\ log.missed),
                 lost   |-> log.lost \/ \E d \in Dir : pipe[d][2] # NoCmd /\ ~pipe[d][2].miss
                                                       /\ Len(queue[d]) = QDepth]

(* The host lists at most as many pages as the table holds, the first of    *)
(* them by a base write.                                                     *)
Writes ==
  {NoWrite} \union
  { [at |-> WriteIndex(b), frame |-> log.writes + 1, base |-> b] :
      b \in IF log.writes = MaxWrites THEN {}
            ELSE IF table.listed \in 1 .. Entries - 1 THEN BOOLEAN ELSE {TRUE} }

Offers(d) ==
  {NoCmd} \union IF cutter[d].state = "idle" /\ log.given[d] < MaxCmds THEN Cmds ELSE {}

TransNext ==
  \E write \in Writes : \E page \in IF write.base THEN {0, 1} ELSE {table.base} :
  \E c \in Offers("h2c"), e \in Offers("c2h"), take, room, beat \in BOOLEAN :
    Edge(write, page, [h2c |-> c, c2h |-> e], take, room, beat)

-----------------------------------------------------------------------------
(* Types. *)
TransTypeOK ==
  /\ \A d \in Dir :
       /\ cutter[d].state \in {"idle", "firstcmd", "split", "minisplit", "lastsplit"}
       /\ \A f \in {"addr", "len", "offset", "rest", "maddr", "mlen"} : cutter[d][f] \in Nat
       /\ Len(queue[d]) =< QDepth
  /\ table.base \in Nat /\ table.listed \in 0 .. Entries /\ table.misses \in Nat
  /\ table.ram \in [0 .. Entries - 1 -> Nat]

(* The pieces of a command follow one another without a gap from its first   *)
(* byte to its last; none crosses the end of a page, which the table could   *)
(* not translate, and none is longer than its direction allows.              *)
PiecesTile ==
  \A d \in Dir :
    LET s == cutter[d]
        c == log.cmd[d]
    IN  /\ s.state \in {"minisplit", "lastsplit"} =>
             /\ s.maddr = c.addr + log.sent[d]
             /\ PieceLen(d) \in 1 .. Mini[d]
             /\ (s.maddr % Page) + PieceLen(d) =< Page
             /\ log.sent[d] + PieceLen(d) =< c.len
        /\ s.state = "idle" /\ c # NoCmd => log.sent[d] = c.len

(* The two places that ready keeps free are enough for the pieces that are   *)
(* between the lookup and the queue: none is lost to a full queue, although  *)
(* q_h2c and q_c2h are filled without a look at their enq.ready.             *)
NothingDropped == ~log.lost

(* A piece leaves with the frame that the table listed for its page when it  *)
(* was looked up, while other entries are being written: unless a write took *)
(* the address port of the host-to-device lookup in that very cycle, or a    *)
(* base write replaced the table under a device-to-host piece.               *)
ListedFrame ==
  \A d \in Dir : \A i \in DOMAIN queue[d] :
    ~queue[d][i].near => queue[d][i].frame = queue[d][i].want

(* The beats a device-to-host piece takes are those of its own command, in   *)
(* their place; if a dropped piece has shifted the stream, the miss counter  *)
(* shows it, until a base write clears the counter.                          *)
BeatsPaired ==
  pairer.cmd # NoCmd /\ table.misses = 0 /\ ~log.forgotten =>
    pairer.beats = pairer.cmd.at + pairer.count

(* Commands are cut so that the table can translate them, and are translated *)
(* by the entries that the host has listed.                                  *)
PiecesRight == TransTypeOK /\ PiecesTile /\ ListedFrame

(* No piece is lost on its way, and data stay with their pieces. *)
BeatsRight == NothingDropped /\ BeatsPaired
=============================================================================
