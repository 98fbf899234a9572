----------------------------- MODULE PeerToPeer -----------------------------
(***************************************************************************)
(* The receiving board of a peer-to-peer write.  The host arms p2p_counter *)
(* through three control registers, the peer's data arrive on the board's  *)
(* HBM port, and when the counter has seen the whole length it asks the    *)
(* completion unit for the host's flag.  The counter runs on hbm_clk, the  *)
(* registers and the unit on user_clk; Top.scala joins them with            *)
(* synchronisers.  A second client of the unit, the host-to-device path,   *)
(* posts commands of its own meanwhile.                                    *)
(*                                                                         *)
(* One length unit is one 32-byte beat of the HBM port.  Requests are      *)
(* numbered; the number stands for the address of the request's flag.      *)
(*                                                                         *)
(* The counter counts only beats of which a sample of 32 bits is all ones. *)
(* Every beat is one here, because p2p_write_latency sends memory that it   *)
(* has filled with -1 (tests.cpp:460); with other data the count would stop *)
(* short of the length.                                                     *)
(***************************************************************************)
EXTENDS Integers, Sequences, CompletionUnit

CONSTANTS
  Requests,  \* number of peer-to-peer requests the host makes (bound)
  Length,    \* Length[n]: beats of request n
  Commands   \* number of host-to-device commands meanwhile (bound)

ASSUME LengthAssumption ==
  /\ Requests \in Nat \ {0} /\ Commands \in Nat
  /\ Length \in [1 .. Requests -> Nat \ {0}]

VARIABLES
  host,   \* the benchmark: its line, the request it is at, and whether it
          \* lowers start at once, as p2p_write_latency_throughput does
  reg,    \* control registers 91 (start), 92/93 (addr), 94 (length)
  left,   \* beats of the current transfer that have not arrived
  cross,  \* synchroniser registers between the clocks
  ctr,    \* registers of p2p_counter
  unit,   \* registers of C2H_Complete
  h2c,    \* host-to-device path: phase and number of its command
  port,   \* commands and beats the QDMA has accepted from the unit
  flags,  \* flags written to host memory
  clash   \* history: a request came while another was being written

p2pVars == <<host, reg, left, cross, ctr, unit, h2c, port, flags, clash>>

P2PFlag(n) == <<"p2p", n>>
H2CFlag(n) == <<"h2c", n>>
NoFlag     == <<"none", 0>>

P2PInit ==
  /\ \E pulsed \in BOOLEAN : host = [at |-> "addr", n |-> 1, pulsed |-> pulsed]
  /\ reg = [start |-> FALSE, addr |-> NoFlag, length |-> 0]
  /\ left = 0
  /\ cross = [start |-> <<FALSE, FALSE, FALSE, FALSE, FALSE, FALSE, FALSE>>,
              length |-> <<0, 0, 0>>,
              asked |-> FALSE, seen |-> FALSE, told |-> FALSE, heard |-> FALSE]
  /\ ctr = [counter |-> 0, length |-> 0, complete |-> FALSE, working |-> FALSE,
            was |-> FALSE]
  /\ unit = UnitReset(NoFlag)
  /\ h2c = [at |-> "idle", n |-> 0]
  /\ port = [cmds |-> <<>>, beats |-> 0]
  /\ flags = {}
  /\ clash = FALSE

-----------------------------------------------------------------------------
(* The host, p2p_write_latency: address, length and start are written, the *)
(* peer is told to send, the flag is awaited, and start is lowered; the    *)
(* other benchmark, pulsed, lowers start before it tells the peer.         *)

Line(from, to) == host.at = from /\ host' = [host EXCEPT !.at = to]

WriteAddr ==
  /\ Line("addr", "length")
  /\ reg' = [reg EXCEPT !.addr = P2PFlag(host.n)]
  /\ UNCHANGED <<left, cross, ctr, unit, h2c, port, flags, clash>>

WriteLength ==
  /\ Line("length", "start")
  /\ reg' = [reg EXCEPT !.length = Length[host.n]]
  /\ UNCHANGED <<left, cross, ctr, unit, h2c, port, flags, clash>>

WriteStart ==
  /\ Line("start", IF host.pulsed THEN "lower" ELSE "send")
  /\ reg' = [reg EXCEPT !.start = TRUE]
  /\ UNCHANGED <<left, cross, ctr, unit, h2c, port, flags, clash>>

(* usleep(100) outlasts every register of the crossing, both ways. *)
Settled ==
  /\ \A i \in DOMAIN cross.start  : cross.start[i] = reg.start
  /\ \A i \in DOMAIN cross.length : cross.length[i] = reg.length
  /\ cross.asked = cross.seen /\ cross.told = cross.heard
  /\ ctr.working = reg.start /\ ~ctr.complete

Send ==
  /\ Line("send", "wait")
  /\ Settled
  /\ left' = Length[host.n]
  /\ UNCHANGED <<reg, cross, ctr, unit, h2c, port, flags, clash>>

SeeFlag ==
  /\ Line("wait", IF host.pulsed THEN "next" ELSE "lower")
  /\ P2PFlag(host.n) \in flags
  /\ UNCHANGED <<reg, left, cross, ctr, unit, h2c, port, flags, clash>>

LowerStart ==
  /\ Line("lower", IF host.pulsed THEN "send" ELSE "next")
  /\ reg' = [reg EXCEPT !.start = FALSE]
  /\ UNCHANGED <<left, cross, ctr, unit, h2c, port, flags, clash>>

NextRequest ==
  /\ host.at = "next"
  /\ host' = IF host.n < Requests THEN [host EXCEPT !.at = "addr", !.n = @ + 1]
                                  ELSE [host EXCEPT !.at = "done"]
  /\ UNCHANGED <<reg, left, cross, ctr, unit, h2c, port, flags, clash>>

Host ==
  WriteAddr \/ WriteLength \/ WriteStart \/ Send \/ SeeFlag \/ LowerStart \/ NextRequest

-----------------------------------------------------------------------------
(* The clock edges. *)

(* start passes three registers before the synchroniser's source register, *)
(* 1 .. 4 here.  The synchroniser's equal chains are left out but for the  *)
(* register, 5, that tells what was seen at the last edge: an edge close   *)
(* to a change may sample the old value.  6 samples, 7 is the register     *)
(* after the synchroniser.                                                 *)
StartTo(i) == IF i = 1 THEN reg.start ELSE cross.start[i - 1]

BadMatch == ctr.counter = ctr.length  \* mutant: working is not asked for
BadReached == ctr.working /\ ctr.counter > ctr.length  \* mutant: > for =

Match == ctr.working /\ ctr.counter = ctr.length

(* p2p_counter at an edge of hbm_clk, with or without a beat of the peer's *)
(* data, all ones.  A completion stays requested until the unit tells.     *)
CounterStep(beat, told) ==
  LET start == cross.start[7]
  IN  [counter  |-> IF Match \/ ~start THEN 0
                    ELSE IF beat THEN ctr.counter + 1 ELSE ctr.counter,
       length   |-> IF start THEN cross.length[3] ELSE ctr.length,
       working  |-> start,
       complete |-> (Match \/ ctr.complete) /\ ~(told /\ ctr.complete),
       was      |-> ctr.complete]

(* The pulse synchroniser from hbm_clk toggles asked at a rising edge of   *)
(* the completion; from user_clk, told.                                    *)
HbmEdge(beat, told) ==
  \E oldStart, oldLength \in BOOLEAN :
    /\ beat => left > 0
    /\ told => cross.told # cross.heard
    /\ left' = IF beat THEN left - 1 ELSE left
    /\ ctr' = CounterStep(beat, told)
    /\ cross' = [cross EXCEPT
         !.start = SubSeq(@, 1, 4)
                   \o <<@[4], IF oldStart THEN @[5] ELSE @[4], @[6]>>,
         !.length = <<@[1], @[1], IF oldLength THEN @[2] ELSE @[1]>>,
         !.heard = IF told THEN cross.told ELSE @,
         !.asked = IF ctr.complete /\ ~ctr.was THEN ~@ ELSE @]
    /\ UNCHANGED <<host, reg, unit, h2c, port, flags, clash>>

(* What the unit samples at an edge of user_clk.  The host-to-device path  *)
(* pulses start when it takes a command and holds complete from the last   *)
(* packet until the unit has told it.                                      *)
Inputs(start, complete, p2p, ready) ==
  [h2c_start |-> start,  h2c_addr |-> H2CFlag(h2c.n + 1), h2c_complete |-> complete,
   c2h_start |-> FALSE,  c2h_addr |-> NoFlag,             c2h_complete |-> FALSE,
   p2p_complete |-> p2p, p2p_addr |-> reg.addr,
   cmd_ready |-> ready[1], data_ready |-> ready[2]]

(* The unit has a write that both halves of have not been accepted of. *)
Outstanding == (unit.cmd_valid \/ unit.data_valid \/ unit.cmd_fire \/ unit.data_fire)
               /\ ~Written(unit)

Clashes(in) ==
  \/ Go(unit, in) /\ Outstanding
  \/ in.p2p_complete /\ H2cGo(unit, in)

UserEdge(p2p, ready) ==
  \E start, done \in BOOLEAN :
    /\ start => h2c.at = "idle" /\ h2c.n < Commands
    /\ done  => h2c.at = "busy"
    /\ p2p   => cross.asked # cross.seen
    /\ LET in == Inputs(start, h2c.at = "done", p2p, ready)
       IN  /\ unit' = UnitStep(unit, in)
           /\ clash' = (clash \/ Clashes(in))
           /\ port' = [cmds  |-> IF CmdFire(unit, in) THEN Append(port.cmds, unit.cpt_addr)
                                 ELSE port.cmds,
                       beats |-> IF DataFire(unit, in) THEN port.beats + 1 ELSE port.beats]
    /\ h2c' = CASE start -> [at |-> "busy", n |-> h2c.n + 1]
                [] done -> [h2c EXCEPT !.at = "done"]
                [] h2c.at = "done" /\ unit.h2c_cpt_complete -> [h2c EXCEPT !.at = "idle"]
                [] OTHER -> h2c
    /\ cross' = [cross EXCEPT
         !.start = [i \in DOMAIN @ |-> IF i \in 1 .. 4 THEN StartTo(i) ELSE @[i]],
         !.length[1] = reg.length,
         !.seen = IF p2p THEN cross.asked ELSE @,
         !.told = IF unit.p2p_cpt_complete THEN ~@ ELSE @]
    /\ UNCHANGED <<host, reg, left, ctr, flags>>

(* The QDMA pairs commands with beats in order and writes the flag. *)
WriteFlag ==
  /\ port.cmds # <<>> /\ port.beats > 0
  /\ port' = [cmds |-> Tail(port.cmds), beats |-> port.beats - 1]
  /\ flags' = flags \cup {Head(port.cmds)}
  /\ UNCHANGED <<host, reg, left, cross, ctr, unit, h2c, clash>>

P2PNext ==
  \/ Host
  \/ \E beat, told \in BOOLEAN : HbmEdge(beat, told)
  \/ \E p2p \in BOOLEAN, ready \in BOOLEAN \X BOOLEAN : UserEdge(p2p, ready)
  \/ WriteFlag

P2PSpec == P2PInit /\ [][P2PNext]_p2pVars

(* The clocks run, data that were sent arrive, pulses cross, the QDMA takes *)
(* what is offered and writes what it took, and the host goes on.          *)
P2PFairSpec ==
  /\ P2PSpec
  /\ WF_p2pVars(Host)
  /\ WF_p2pVars(\E told \in BOOLEAN : HbmEdge(TRUE, told))
  /\ WF_p2pVars(\E beat \in BOOLEAN : HbmEdge(beat, TRUE))
  /\ WF_p2pVars(\E beat, told \in BOOLEAN : HbmEdge(beat, told))
  /\ WF_p2pVars(\E ready \in BOOLEAN \X BOOLEAN : UserEdge(TRUE, ready))
  /\ WF_p2pVars(\E p2p \in BOOLEAN : UserEdge(p2p, <<TRUE, TRUE>>))
  /\ WF_p2pVars(WriteFlag)

-----------------------------------------------------------------------------
(* Types; a request's flag is never asked for twice. *)
P2PTypeOK ==
  /\ host \in [at : {"addr", "length", "start", "send", "wait", "lower", "next", "done"},
               n : 1 .. Requests, pulsed : BOOLEAN]
  /\ left \in Nat
  /\ ctr \in [counter : Nat, length : Nat, complete : BOOLEAN, working : BOOLEAN,
              was : BOOLEAN]
  /\ h2c \in [at : {"idle", "busy", "done"}, n : 0 .. Commands]
  /\ port.beats \in Nat
  /\ flags \subseteq {P2PFlag(n) : n \in 1 .. Requests} \cup {H2CFlag(n) : n \in 1 .. Commands}

(* The host reads the data when it sees the flag: a request's flag is never *)
(* written before the last beat of the request's data has arrived, although *)
(* length and start reach the counter's clock along different paths.        *)
FlagAfterData ==
  \A n \in 1 .. Requests :
    P2PFlag(n) \in flags =>
      \/ n < host.n
      \/ n = host.n /\ left = 0 /\ host.at \in {"wait", "lower", "next", "done"}

(* The completion unit tells the host-to-device path that its flag is       *)
(* written only if the QDMA has its write, and every write is one command   *)
(* and one beat, unless a request reached the unit while another's write    *)
(* was outstanding (the three clients share one address register).          *)
ToldIfWritten ==
  ~clash =>
    /\ unit.h2c_cpt_complete =>
         \A n \in 1 .. h2c.n :
           \/ H2CFlag(n) \in flags
           \/ \E i \in 1 .. port.beats : i \in DOMAIN port.cmds /\ port.cmds[i] = H2CFlag(n)
    /\ ~unit.cmd_valid /\ ~unit.data_valid => Len(port.cmds) = port.beats

(* p2p_write_latency ends: the flag of every request the host waits for is  *)
(* written, unless the request met another in the completion unit.  The     *)
(* other benchmark waits for ever: nothing counts while start is down.      *)
EveryRequestFlagged ==
  []<>(host.at = "wait" => P2PFlag(host.n) \in flags \/ clash \/ host.pulsed)

(* What a flag says of the data, and what the unit says of the flag. *)
FlagsRight == P2PTypeOK /\ FlagAfterData /\ ToldIfWritten
=============================================================================
