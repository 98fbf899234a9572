---------------------------- MODULE HbmSideProofs ----------------------------
(* Theorems about the two parts of a board on the clock of its HBM.          *)
(* PeerToPeer, for every number and length of requests and any rate of the   *)
(* two clocks: a flag comes after the data, and the completion unit tells of *)
(* a flag only when it is on its way.                                        *)
(* HbmBursts: its bursts tile every packet and carry every word once, for    *)
(* every size of blocks, packets and address space; and its reader completes *)
(* a command's last packet only when none of its beats is still under way,   *)
(* for every lag of the FIFO's flags that the first of its waits covers.     *)
EXTENDS PeerToPeer, HbmBursts, SequenceTheorems, TLAPS

Flags == {P2PFlag(n) : n \in 1 .. Requests} \cup {H2CFlag(n) : n \in 1 .. Commands}

Addrs == Flags \cup {NoFlag}

UnitType ==
  [h2c_cpt_complete : BOOLEAN, c2h_cpt_complete : BOOLEAN, p2p_cpt_complete : BOOLEAN,
   h2c_cpt_addr : Addrs, c2h_cpt_addr : Addrs, cpt_addr : Addrs,
   cmd_valid : BOOLEAN, data_valid : BOOLEAN, cmd_fire : BOOLEAN, data_fire : BOOLEAN,
   h2c_started : BOOLEAN, c2h_started : BOOLEAN, p2p_started : BOOLEAN,
   h2c_was : BOOLEAN, c2h_was : BOOLEAN]

-----------------------------------------------------------------------------
(* The invariant. *)

(* The registers, and what the unit and the QDMA hold: a flag's address when *)
(* anything is offered. *)
LinkTypes ==
  /\ host \in [at : {"addr", "length", "start", "send", "wait", "lower", "next", "done"},
               n : 1 .. Requests, pulsed : BOOLEAN]
  /\ reg \in [start : BOOLEAN, addr : Addrs, length : Nat]
  /\ left \in Nat
  /\ cross \in [start : Seq(BOOLEAN), length : Seq(Nat),
                asked : BOOLEAN, seen : BOOLEAN, told : BOOLEAN, heard : BOOLEAN]
  /\ Len(cross.start) = 7 /\ Len(cross.length) = 3
  /\ ctr \in [counter : Nat, length : Nat, complete : BOOLEAN, working : BOOLEAN, was : BOOLEAN]
  /\ h2c \in [at : {"idle", "busy", "done"}, n : 0 .. Commands]
  /\ port \in [cmds : Seq(Flags), beats : Nat]
  /\ flags \subseteq Flags
  /\ clash \in BOOLEAN

UnitRight ==
  /\ unit \in UnitType
  /\ unit.cmd_valid => unit.cpt_addr \in Flags
  /\ ~unit.c2h_was
  /\ h2c.at # "idle" => h2c.n > 0 /\ unit.h2c_cpt_addr = H2CFlag(h2c.n)
  /\ \A n \in 1 .. Requests : unit.h2c_cpt_addr # P2PFlag(n)

(* What the host has written when it is at a line of its program. *)
HostWrote ==
  /\ host.at # "addr" => reg.addr = P2PFlag(host.n)
  /\ host.at \notin {"addr", "length"} => reg.length = Length[host.n]
  /\ host.pulsed /\ host.at \in {"send", "wait"} => ~reg.start
  /\ ~host.pulsed /\ host.at \in {"send", "wait", "lower"} => reg.start

(* No start overtakes the length it goes with: where a start has arrived,    *)
(* a length has.                                                             *)
LengthFirst ==
  /\ reg.start => reg.length # 0
  /\ \A i \in 1 .. 7 : cross.start[i] => reg.length # 0 /\ cross.length[1] # 0
  /\ \A i \in 5 .. 7 : cross.start[i] => cross.length[2] # 0
  /\ cross.start[7] => cross.length[3] # 0
  /\ ctr.working => /\ ctr.length # 0 /\ reg.length # 0
                    /\ \A i \in 1 .. 3 : cross.length[i] # 0

(* The way of a request's completion: the counter asks by a rising edge, the *)
(* pulse crosses, the unit takes the flag's address, the QDMA writes.        *)
Raised == ctr.complete /\ ~ctr.was
Asked  == cross.asked # cross.seen

Used(n) ==
  \/ P2PFlag(n) \in flags
  \/ unit.cpt_addr = P2PFlag(n)
  \/ \E i \in DOMAIN port.cmds : port.cmds[i] = P2PFlag(n)

Arrived(n) ==
  /\ ~host.pulsed
  /\ \/ n < host.n
     \/ n = host.n /\ left = 0 /\ host.at \in {"wait", "lower", "next", "done"}

UsedArrived == \A n \in 1 .. Requests : Used(n) => Arrived(n)

(* The crossings are settled with start up while the host waits. *)
StartHeld ==
  /\ reg.start /\ ctr.working
  /\ \A i \in 1 .. 7 : cross.start[i]
  /\ \A i \in 1 .. 3 : cross.length[i] = Length[host.n]

(* A request whose flag the host waits for: its beats come, the counter      *)
(* raises complete, the unit is asked, the unit has it.                      *)
Counting ==
  /\ ctr.counter + left = Length[host.n]
  /\ ~ctr.complete /\ ~Asked /\ ~Used(host.n)
  /\ ctr.counter > 0 => ~ctr.was /\ ctr.length = Length[host.n]

Empty == ctr.counter = 0 /\ left = 0

Reached   == Empty /\ Raised /\ ~Asked /\ ~Used(host.n)
Requested == Empty /\ ~Raised /\ Asked /\ ~Used(host.n)
Quiet     == Empty /\ ~Raised /\ ~Asked

(* With start lowered nothing counts. *)
Deaf ==
  /\ ctr.counter = 0 /\ ~Raised /\ ~Asked
  /\ ~ctr.working /\ \A i \in 1 .. 7 : ~cross.start[i]

Waits == host.at = "wait"

CounterRight ==
  /\ ~Waits => Quiet
  /\ Waits /\ ~host.pulsed => StartHeld /\ (Counting \/ Reached \/ Requested \/ Quiet)
  /\ Waits /\ host.pulsed => Deaf

(* The unit's write while no two clients have met: each half is offered,     *)
(* then taken.                                                               *)
One(b) == IF b THEN 1 ELSE 0

Half(valid, fire) == (valid /\ ~fire) \/ (~valid /\ fire)

Unasked == ~unit.cmd_valid /\ ~unit.data_valid /\ ~unit.cmd_fire /\ ~unit.data_fire

Busy == Half(unit.cmd_valid, unit.cmd_fire) /\ Half(unit.data_valid, unit.data_fire)

Balanced ==
  /\ Unasked \/ Busy
  /\ Len(port.cmds) + One(unit.data_fire) = port.beats + One(unit.cmd_fire)

(* A flag of the host-to-device path that the QDMA has all of. *)
Accepted(n) == H2CFlag(n) \in flags \/ \E i \in DOMAIN port.cmds : port.cmds[i] = H2CFlag(n)

Delivered(n) ==
  \/ H2CFlag(n) \in flags
  \/ \E i \in 1 .. port.beats : i \in DOMAIN port.cmds /\ port.cmds[i] = H2CFlag(n)

(* Where a command of that path is between its start and its flag. *)
NotAsked == ~unit.h2c_was /\ ~unit.h2c_started /\ ~unit.h2c_cpt_complete

Writing ==
  /\ unit.h2c_was /\ unit.h2c_started /\ ~unit.h2c_cpt_complete /\ Busy
  /\ unit.cpt_addr = H2CFlag(h2c.n)
  /\ unit.cmd_fire => Accepted(h2c.n)

Finished == ~unit.h2c_started /\ unit.h2c_cpt_complete /\ Delivered(h2c.n)

H2cRight ==
  /\ \A n \in 1 .. h2c.n : n < h2c.n => Delivered(n)
  /\ h2c.at = "idle" => /\ ~unit.h2c_started /\ unit.h2c_cpt_complete
                        /\ h2c.n > 0 => Delivered(h2c.n)
  /\ h2c.at = "busy" => NotAsked
  /\ h2c.at = "done" => NotAsked \/ Writing \/ (Finished /\ unit.h2c_was)

UnclashedRight == ~clash => Balanced /\ H2cRight

P2PInv ==
  LinkTypes /\ UnitRight /\ HostWrote /\ LengthFirst /\ UsedArrived /\ CounterRight /\ UnclashedRight

-----------------------------------------------------------------------------
(* Addresses of flags. *)

LEMMA FlagsDiffer ==
  /\ \A n, m : P2PFlag(n) = P2PFlag(m) => n = m
  /\ \A n, m : H2CFlag(n) = H2CFlag(m) => n = m
  /\ \A n, m : P2PFlag(n) # H2CFlag(m)
  /\ \A n : P2PFlag(n) # NoFlag /\ H2CFlag(n) # NoFlag
<1>1. \A n, m : P2PFlag(n) = P2PFlag(m) => n = m
  BY DEF P2PFlag
<1>2. \A n, m : H2CFlag(n) = H2CFlag(m) => n = m
  BY DEF H2CFlag
<1>3. "p2p" # "h2c" /\ "p2p" # "none" /\ "h2c" # "none"
  OBVIOUS
<1>4. \A n, m : P2PFlag(n) # H2CFlag(m)
  <2> SUFFICES ASSUME NEW n, NEW m, P2PFlag(n) = H2CFlag(m) PROVE FALSE
    OBVIOUS
  <2>1. P2PFlag(n)[1] = H2CFlag(m)[1]
    OBVIOUS
  <2>2. P2PFlag(n)[1] = "p2p" /\ H2CFlag(m)[1] = "h2c"
    BY DEF P2PFlag, H2CFlag
  <2> QED
    BY <2>1, <2>2, <1>3
<1>5. \A n : P2PFlag(n) # NoFlag /\ H2CFlag(n) # NoFlag
  <2> SUFFICES ASSUME NEW n, P2PFlag(n) = NoFlag \/ H2CFlag(n) = NoFlag PROVE FALSE
    OBVIOUS
  <2>1. P2PFlag(n)[1] = "p2p" /\ H2CFlag(n)[1] = "h2c" /\ NoFlag[1] = "none"
    BY DEF P2PFlag, H2CFlag, NoFlag
  <2> QED
    BY <2>1, <1>3
<1> QED
  BY <1>1, <1>2, <1>4, <1>5

-----------------------------------------------------------------------------
(* An edge of user_clk. *)

AnEdge(p2p, ready, began, ended) ==
  /\ p2p \in BOOLEAN /\ ready \in BOOLEAN \X BOOLEAN /\ began \in BOOLEAN /\ ended \in BOOLEAN
  /\ began => h2c.at = "idle" /\ h2c.n < Commands
  /\ ended  => h2c.at = "busy"
  /\ p2p   => Asked
  /\ LET in == Inputs(began, h2c.at = "done", p2p, ready)
     IN  /\ unit' = UnitStep(unit, in)
         /\ clash' = (clash \/ Clashes(in))
         /\ port' = [cmds  |-> IF CmdFire(unit, in) THEN Append(port.cmds, unit.cpt_addr)
                               ELSE port.cmds,
                     beats |-> IF DataFire(unit, in) THEN port.beats + 1 ELSE port.beats]
  /\ h2c' = CASE began -> [at |-> "busy", n |-> h2c.n + 1]
              [] ended -> [h2c EXCEPT !.at = "done"]
              [] h2c.at = "done" /\ unit.h2c_cpt_complete -> [h2c EXCEPT !.at = "idle"]
              [] OTHER -> h2c
  /\ cross' = [cross EXCEPT
       !.start = [i \in DOMAIN @ |-> IF i \in 1 .. 4 THEN StartTo(i) ELSE @[i]],
       !.length[1] = reg.length,
       !.seen = IF p2p THEN cross.asked ELSE @,
       !.told = IF unit.p2p_cpt_complete THEN ~@ ELSE @]
  /\ UNCHANGED <<host, reg, left, ctr, flags>>

LEMMA UserEdgeIs ==
  ASSUME NEW p2p \in BOOLEAN, NEW ready \in BOOLEAN \X BOOLEAN, UserEdge(p2p, ready)
  PROVE  \E began, ended \in BOOLEAN : AnEdge(p2p, ready, began, ended)
<1>1. PICK began \in BOOLEAN, ended \in BOOLEAN : AnEdge(p2p, ready, began, ended)
  BY Zenon DEF UserEdge, AnEdge, Asked
<1> QED
  BY <1>1

HGo == h2c.at = "done" /\ ~unit.h2c_was

LEMMA UnitStepIs ==
  ASSUME NEW c \in UnitType, NEW in
  PROVE  /\ UnitStep(c, in).h2c_was = in.h2c_complete
         /\ UnitStep(c, in).c2h_was = in.c2h_complete
         /\ UnitStep(c, in).h2c_cpt_addr = IF in.h2c_start THEN in.h2c_addr ELSE c.h2c_cpt_addr
         /\ UnitStep(c, in).c2h_cpt_addr = IF in.c2h_start THEN in.c2h_addr ELSE c.c2h_cpt_addr
         /\ UnitStep(c, in).h2c_cpt_complete = Told(c, c.h2c_started, c.h2c_cpt_complete, in.h2c_start)
         /\ UnitStep(c, in).h2c_started = Started(c, c.h2c_started, H2cGo(c, in))
         /\ UnitStep(c, in).cmd_valid = ((c.cmd_valid \/ Go(c, in)) /\ ~CmdFire(c, in))
         /\ UnitStep(c, in).data_valid = ((c.data_valid \/ Go(c, in)) /\ ~DataFire(c, in))
         /\ UnitStep(c, in).cmd_fire = ((c.cmd_fire \/ CmdFire(c, in)) /\ ~Written(c))
         /\ UnitStep(c, in).data_fire = ((c.data_fire \/ DataFire(c, in)) /\ ~Written(c))
         /\ UnitStep(c, in).cpt_addr = IF C2hGo(c, in) THEN c.c2h_cpt_addr
                                       ELSE IF H2cGo(c, in) THEN c.h2c_cpt_addr
                                       ELSE IF in.p2p_complete THEN in.p2p_addr ELSE c.cpt_addr
BY Zenon DEF UnitStep, UnitType

Sampled(in, began, p2p, ready) == in = Inputs(began, h2c.at = "done", p2p, ready)

SampledAre(in, began, p2p, ready) ==
  /\ in.h2c_start = began /\ in.h2c_addr = H2CFlag(h2c.n + 1)
  /\ in.h2c_complete = (h2c.at = "done")
  /\ in.c2h_start = FALSE /\ in.c2h_complete = FALSE
  /\ in.p2p_complete = p2p /\ in.p2p_addr = reg.addr
  /\ in.cmd_ready = ready[1] /\ in.data_ready = ready[2]

LEMMA InputsAre ==
  ASSUME NEW p2p, NEW ready, NEW began, NEW ended, AnEdge(p2p, ready, began, ended),
         NEW in, Sampled(in, began, p2p, ready)
  PROVE  SampledAre(in, began, p2p, ready)
<1> DEFINE complete == h2c.at = "done"
           addr == H2CFlag(h2c.n + 1)
           a == ready[1]
           b == ready[2]
<1>1. /\ complete \in BOOLEAN /\ a \in BOOLEAN /\ b \in BOOLEAN
      /\ began \in BOOLEAN /\ p2p \in BOOLEAN
  BY DEF AnEdge
<1> HIDE DEF complete, addr, a, b
<1>2. in = [h2c_start |-> began,  h2c_addr |-> addr,   h2c_complete |-> complete,
            c2h_start |-> FALSE,  c2h_addr |-> NoFlag, c2h_complete |-> FALSE,
            p2p_complete |-> p2p, p2p_addr |-> reg.addr,
            cmd_ready |-> a, data_ready |-> b]
  BY DEF Sampled, Inputs, addr, a, b, complete
<1>3. /\ in.h2c_start = began /\ in.h2c_addr = addr /\ in.h2c_complete = complete
      /\ in.c2h_start = FALSE /\ in.c2h_complete = FALSE
      /\ in.p2p_complete = p2p /\ in.p2p_addr = reg.addr
      /\ in.cmd_ready = a /\ in.data_ready = b
  BY <1>1, <1>2
<1> QED
  BY <1>3 DEF complete, addr, a, b, SampledAre

LEMMA UserWires ==
  ASSUME NEW p2p, NEW ready, NEW began, NEW ended, AnEdge(p2p, ready, began, ended), LinkTypes, UnitRight
  PROVE  /\ unit'.h2c_was = (h2c.at = "done") /\ ~unit'.c2h_was
         /\ unit'.h2c_cpt_addr = IF began THEN H2CFlag(h2c.n + 1) ELSE unit.h2c_cpt_addr
         /\ unit'.h2c_cpt_complete = ((Written(unit) /\ unit.h2c_started) \/ (unit.h2c_cpt_complete /\ ~began))
         /\ unit'.h2c_started = IF unit.h2c_started THEN ~Written(unit) ELSE HGo
         /\ unit'.cmd_valid = ((unit.cmd_valid \/ p2p \/ HGo) /\ ~(unit.cmd_valid /\ ready[1]))
         /\ unit'.data_valid = ((unit.data_valid \/ p2p \/ HGo) /\ ~(unit.data_valid /\ ready[2]))
         /\ unit'.cmd_fire = ((unit.cmd_fire \/ (unit.cmd_valid /\ ready[1])) /\ ~Written(unit))
         /\ unit'.data_fire = ((unit.data_fire \/ (unit.data_valid /\ ready[2])) /\ ~Written(unit))
         /\ unit'.cpt_addr = IF HGo THEN unit.h2c_cpt_addr ELSE IF p2p THEN reg.addr ELSE unit.cpt_addr
         /\ port'.cmds = IF unit.cmd_valid /\ ready[1] THEN Append(port.cmds, unit.cpt_addr) ELSE port.cmds
         /\ port'.beats = IF unit.data_valid /\ ready[2] THEN port.beats + 1 ELSE port.beats
         /\ clash' = (clash \/ (p2p /\ HGo) \/ ((p2p \/ HGo) /\ Outstanding))
<1>0. PICK in : Sampled(in, began, p2p, ready)
  BY DEF Sampled
<1>1. /\ p2p \in BOOLEAN /\ ready \in BOOLEAN \X BOOLEAN /\ began \in BOOLEAN
      /\ unit' = UnitStep(unit, in) /\ clash' = (clash \/ Clashes(in))
      /\ port' = [cmds  |-> IF CmdFire(unit, in) THEN Append(port.cmds, unit.cpt_addr) ELSE port.cmds,
                  beats |-> IF DataFire(unit, in) THEN port.beats + 1 ELSE port.beats]
  BY <1>0 DEF AnEdge, Sampled
<1>2. SampledAre(in, began, p2p, ready)
  BY <1>0, InputsAre, Zenon
<1>3. unit \in UnitType
  BY DEF UnitRight
<1>4. /\ H2cGo(unit, in) <=> HGo
      /\ ~C2hGo(unit, in)
      /\ Go(unit, in) <=> (p2p \/ HGo)
      /\ CmdFire(unit, in) <=> (unit.cmd_valid /\ ready[1])
      /\ DataFire(unit, in) <=> (unit.data_valid /\ ready[2])
      /\ Clashes(in) <=> ((p2p /\ HGo) \/ ((p2p \/ HGo) /\ Outstanding))
  <2>1. H2cGo(unit, in) <=> HGo
    BY <1>2, Zenon DEF H2cGo, HGo, SampledAre
  <2>2. ~C2hGo(unit, in)
    BY <1>2, Zenon DEF C2hGo, SampledAre
  <2>3. Go(unit, in) <=> (p2p \/ HGo)
    BY <1>2, <2>1, <2>2, Zenon DEF Go, SampledAre
  <2> QED
    BY <1>2, <2>1, <2>2, <2>3, Zenon DEF CmdFire, DataFire, Clashes, SampledAre
<1>5. /\ unit'.h2c_was = in.h2c_complete
      /\ unit'.c2h_was = in.c2h_complete
      /\ unit'.h2c_cpt_addr = (IF in.h2c_start THEN in.h2c_addr ELSE unit.h2c_cpt_addr)
      /\ unit'.h2c_cpt_complete = Told(unit, unit.h2c_started, unit.h2c_cpt_complete, in.h2c_start)
      /\ unit'.h2c_started = Started(unit, unit.h2c_started, H2cGo(unit, in))
      /\ unit'.cmd_valid = ((unit.cmd_valid \/ Go(unit, in)) /\ ~CmdFire(unit, in))
      /\ unit'.data_valid = ((unit.data_valid \/ Go(unit, in)) /\ ~DataFire(unit, in))
      /\ unit'.cmd_fire = ((unit.cmd_fire \/ CmdFire(unit, in)) /\ ~Written(unit))
      /\ unit'.data_fire = ((unit.data_fire \/ DataFire(unit, in)) /\ ~Written(unit))
      /\ unit'.cpt_addr = (IF C2hGo(unit, in) THEN unit.c2h_cpt_addr
                           ELSE IF H2cGo(unit, in) THEN unit.h2c_cpt_addr
                           ELSE IF in.p2p_complete THEN in.p2p_addr ELSE unit.cpt_addr)
  BY <1>1, <1>3, UnitStepIs, Zenon
<1>6. /\ unit'.h2c_was = (h2c.at = "done") /\ ~unit'.c2h_was
      /\ unit'.h2c_cpt_addr = IF began THEN H2CFlag(h2c.n + 1) ELSE unit.h2c_cpt_addr
  BY <1>2, <1>5, Zenon DEF SampledAre
<1>7. unit'.h2c_cpt_complete = ((Written(unit) /\ unit.h2c_started) \/ (unit.h2c_cpt_complete /\ ~began))
  BY <1>2, <1>5, Zenon DEF Told, SampledAre
<1>8. unit'.h2c_started = IF unit.h2c_started THEN ~Written(unit) ELSE HGo
  BY <1>4, <1>5 DEF Started, H2cGo, HGo
<1>9. /\ unit'.cmd_valid = ((unit.cmd_valid \/ p2p \/ HGo) /\ ~(unit.cmd_valid /\ ready[1]))
      /\ unit'.data_valid = ((unit.data_valid \/ p2p \/ HGo) /\ ~(unit.data_valid /\ ready[2]))
      /\ unit'.cmd_fire = ((unit.cmd_fire \/ (unit.cmd_valid /\ ready[1])) /\ ~Written(unit))
      /\ unit'.data_fire = ((unit.data_fire \/ (unit.data_valid /\ ready[2])) /\ ~Written(unit))
  BY <1>4, <1>5
<1>10. unit'.cpt_addr = IF HGo THEN unit.h2c_cpt_addr ELSE IF p2p THEN reg.addr ELSE unit.cpt_addr
  BY <1>2, <1>4, <1>5, Zenon DEF SampledAre
<1>11. /\ port'.cmds = IF unit.cmd_valid /\ ready[1] THEN Append(port.cmds, unit.cpt_addr) ELSE port.cmds
       /\ port'.beats = IF unit.data_valid /\ ready[2] THEN port.beats + 1 ELSE port.beats
  BY <1>1, <1>4
<1>12. clash' = (clash \/ (p2p /\ HGo) \/ ((p2p \/ HGo) /\ Outstanding))
  BY <1>1, <1>4
<1> QED
  BY <1>6, <1>7, <1>8, <1>9, <1>10, <1>11, <1>12

(* The registers of the crossings as sequences. *)
LEMMA SevenRegisters ==
  ASSUME NEW S, NEW f \in [1 .. 7 -> S]
  PROVE  f \in Seq(S) /\ Len(f) = 7
<1>1. f \in Seq(S)
  BY 7 \in Nat, SeqDef, Zenon
<1>2. Len(f) \in Nat /\ 1 .. Len(f) = 1 .. 7
  BY <1>1, LenProperties, Zenon
<1>3. Len(f) # 0
  BY <1>2
<1> QED
  BY <1>1, <1>2, <1>3

LEMMA FirstRegister ==
  ASSUME NEW S, NEW l \in Seq(S), NEW x \in S, Len(l) = 3, NEW n, n = [l EXCEPT ![1] = x]
  PROVE  n \in Seq(S) /\ Len(n) = 3 /\ n[1] = x /\ \A i \in 2 .. 3 : n[i] = l[i]
<1>1. 1 \in 1 .. Len(l) /\ Len(l) = 3
  OBVIOUS
<1>2. n \in Seq(S) /\ Len(n) = Len(l) /\ \A j \in 1 .. Len(l) : n[j] = IF j = 1 THEN x ELSE l[j]
  <2>1. /\ [l EXCEPT ![1] = x] \in Seq(S)
        /\ Len([l EXCEPT ![1] = x]) = Len(l)
        /\ \A j \in 1 .. Len(l) : [l EXCEPT ![1] = x][j] = IF j = 1 THEN x ELSE l[j]
    BY <1>1, ExceptSeq, SMTT(60)
  <2> QED
    BY <2>1, Zenon
<1> QED
  BY <1>1, <1>2

LEMMA LastRegisters ==
  ASSUME NEW S, NEW s \in Seq(S), Len(s) = 7, NEW x \in S, NEW y \in S, NEW z \in S
  PROVE  LET n == SubSeq(s, 1, 4) \o <<x, y, z>>
         IN  /\ n \in Seq(S) /\ Len(n) = 7
             /\ \A i \in 1 .. 4 : n[i] = s[i]
             /\ n[5] = x /\ n[6] = y /\ n[7] = z
<1> DEFINE front == SubSeq(s, 1, 4)
           ends == <<x, y, z>>
<1>1. front \in Seq(S) /\ Len(front) = 4 /\ \A i \in 1 .. 4 : front[i] = s[i]
  <2>1. \A i \in 1 .. 4 : s[i] \in S
    <3> SUFFICES ASSUME NEW i \in 1 .. 4 PROVE s[i] \in S
      OBVIOUS
    <3>1. i \in 1 .. Len(s)
      OBVIOUS
    <3> QED
      BY <3>1, ElementOfSeq, Zenon
  <2> QED
    BY <2>1, SubSeqProperties
<1>2. ends \in Seq(S) /\ Len(ends) = 3 /\ ends[1] = x /\ ends[2] = y /\ ends[3] = z
  OBVIOUS
<1> HIDE DEF front, ends
<1>3. /\ front \o ends \in Seq(S) /\ Len(front \o ends) = 7
      /\ \A i \in 1 .. 7 : (front \o ends)[i] = IF i <= 4 THEN front[i] ELSE ends[i - 4]
  <2>1. /\ front \o ends \in Seq(S) /\ Len(front \o ends) = Len(front) + Len(ends)
        /\ \A i \in 1 .. Len(front) + Len(ends) : (front \o ends)[i] =
              IF i <= Len(front) THEN front[i] ELSE ends[i - Len(front)]
    BY <1>1, <1>2, ConcatProperties, Zenon
  <2> QED
    BY <1>1, <1>2, <2>1
<1>4. /\ \A i \in 1 .. 4 : (front \o ends)[i] = s[i]
      /\ (front \o ends)[5] = x /\ (front \o ends)[6] = y /\ (front \o ends)[7] = z
  BY <1>1, <1>2, <1>3
<1> QED
  BY <1>3, <1>4 DEF front, ends

(* The crossings at an edge of user_clk. *)
LEMMA UserCross ==
  ASSUME NEW p2p, NEW ready, NEW began, NEW ended, AnEdge(p2p, ready, began, ended), LinkTypes
  PROVE  /\ cross' \in [start : Seq(BOOLEAN), length : Seq(Nat),
                        asked : BOOLEAN, seen : BOOLEAN, told : BOOLEAN, heard : BOOLEAN]
         /\ Len(cross'.start) = 7 /\ Len(cross'.length) = 3
         /\ cross'.start[1] = reg.start
         /\ \A i \in 2 .. 4 : cross'.start[i] = cross.start[i - 1]
         /\ \A i \in 5 .. 7 : cross'.start[i] = cross.start[i]
         /\ cross'.length[1] = reg.length
         /\ \A i \in 2 .. 3 : cross'.length[i] = cross.length[i]
         /\ cross'.asked = cross.asked
         /\ cross'.seen = IF p2p THEN cross.asked ELSE cross.seen
<1> DEFINE s == cross.start
           l == cross.length
           ns == [i \in DOMAIN s |-> IF i \in 1 .. 4 THEN StartTo(i) ELSE s[i]]
           nl == [l EXCEPT ![1] = reg.length]
           seen == IF p2p THEN cross.asked ELSE cross.seen
           told == IF unit.p2p_cpt_complete THEN ~cross.told ELSE cross.told
<1>1. /\ cross \in [start : Seq(BOOLEAN), length : Seq(Nat),
                    asked : BOOLEAN, seen : BOOLEAN, told : BOOLEAN, heard : BOOLEAN]
      /\ s \in Seq(BOOLEAN) /\ l \in Seq(Nat) /\ Len(s) = 7 /\ Len(l) = 3
      /\ reg.start \in BOOLEAN /\ reg.length \in Nat
  BY DEF LinkTypes
<1>2. cross' = [cross EXCEPT !.start = ns, !.length = nl, !.seen = seen, !.told = told]
  BY DEF AnEdge
<1>3. DOMAIN s = 1 .. 7 /\ \A i \in 1 .. 7 : s[i] \in BOOLEAN
  BY <1>1, ElementOfSeq, LenProperties
<1>4. /\ ns \in Seq(BOOLEAN) /\ Len(ns) = 7
      /\ ns[1] = reg.start
      /\ \A i \in 2 .. 4 : ns[i] = s[i - 1]
      /\ \A i \in 5 .. 7 : ns[i] = s[i]
  <2>1. \A i \in 1 .. 7 : (IF i \in 1 .. 4 THEN StartTo(i) ELSE s[i]) \in BOOLEAN
    <3> SUFFICES ASSUME NEW i \in 1 .. 7 PROVE (IF i \in 1 .. 4 THEN StartTo(i) ELSE s[i]) \in BOOLEAN
      OBVIOUS
    <3>1. CASE i = 1
      BY <3>1, <1>1 DEF StartTo
    <3>2. CASE i \in 2 .. 4
      <4>1. i # 1 /\ i \in 1 .. 4 /\ i - 1 \in 1 .. 7
        BY <3>2
      <4>2. cross.start[i - 1] \in BOOLEAN
        BY <4>1, <1>3
      <4> QED
        BY <4>1, <4>2, Zenon DEF StartTo
    <3>3. CASE i \in 5 .. 7
      BY <3>3, <1>3
    <3> QED
      BY <3>1, <3>2, <3>3
  <2>2. ns \in [1 .. 7 -> BOOLEAN]
    BY <2>1, <1>3
  <2>3. ns \in Seq(BOOLEAN) /\ Len(ns) = 7
    <3> HIDE DEF ns
    <3> QED
      BY <2>2, SevenRegisters
  <2>4. ns[1] = reg.start
    BY <1>3 DEF StartTo
  <2>5. \A i \in 2 .. 4 : ns[i] = s[i - 1]
    <3> SUFFICES ASSUME NEW i \in 2 .. 4 PROVE ns[i] = s[i - 1]
      OBVIOUS
    <3>1. i \in DOMAIN s /\ i \in 1 .. 4 /\ i # 1
      BY <1>3
    <3> QED
      BY <3>1, Zenon DEF StartTo
  <2>6. \A i \in 5 .. 7 : ns[i] = s[i]
    <3> SUFFICES ASSUME NEW i \in 5 .. 7 PROVE ns[i] = s[i]
      OBVIOUS
    <3>1. i \in DOMAIN s /\ i \notin 1 .. 4
      BY <1>3
    <3> QED
      BY <3>1, Zenon
  <2> QED
    BY <2>3, <2>4, <2>5, <2>6
<1>5. nl \in Seq(Nat) /\ Len(nl) = 3 /\ nl[1] = reg.length /\ \A i \in 2 .. 3 : nl[i] = l[i]
  <2>1. nl = [l EXCEPT ![1] = reg.length]
    OBVIOUS
  <2> HIDE DEF l, nl
  <2>2. l \in Seq(Nat) /\ reg.length \in Nat /\ Len(l) = 3
    BY <1>1
  <2>3. PICK x : x = reg.length
    OBVIOUS
  <2>4. nl = [l EXCEPT ![1] = x] /\ x \in Nat
    BY <2>1, <2>2, <2>3
  <2>5. nl \in Seq(Nat) /\ Len(nl) = 3 /\ nl[1] = x /\ \A i \in 2 .. 3 : nl[i] = l[i]
    BY <2>2, <2>4, FirstRegister, SMTT(30)
  <2> QED
    BY <2>3, <2>5
<1>6. seen \in BOOLEAN /\ told \in BOOLEAN
  BY <1>1
<1> HIDE DEF s, l, ns, nl, seen, told
<1>7. cross' \in [start : Seq(BOOLEAN), length : Seq(Nat),
                  asked : BOOLEAN, seen : BOOLEAN, told : BOOLEAN, heard : BOOLEAN]
  BY <1>1, <1>2, <1>4, <1>5, <1>6
<1>8. /\ cross'.start = ns /\ cross'.length = nl /\ cross'.seen = seen /\ cross'.asked = cross.asked
  BY <1>1, <1>2, <1>6
<1> QED
  BY <1>4, <1>5, <1>7, <1>8 DEF s, l, seen

LEMMA HbmCross ==
  ASSUME NEW beat, NEW told, HbmEdge(beat, told), LinkTypes
  PROVE  /\ cross' \in [start : Seq(BOOLEAN), length : Seq(Nat),
                        asked : BOOLEAN, seen : BOOLEAN, told : BOOLEAN, heard : BOOLEAN]
         /\ Len(cross'.start) = 7 /\ Len(cross'.length) = 3
         /\ \A i \in 1 .. 4 : cross'.start[i] = cross.start[i]
         /\ cross'.start[5] = cross.start[4]
         /\ cross'.start[6] = cross.start[4] \/ cross'.start[6] = cross.start[5]
         /\ cross'.start[7] = cross.start[6]
         /\ cross'.length[1] = cross.length[1] /\ cross'.length[2] = cross.length[1]
         /\ cross'.length[3] = cross.length[1] \/ cross'.length[3] = cross.length[2]
         /\ cross'.seen = cross.seen
         /\ cross'.asked = IF Raised THEN ~cross.asked ELSE cross.asked
<1>1. PICK oldStart \in BOOLEAN, oldLength \in BOOLEAN :
        cross' = [cross EXCEPT
          !.start = SubSeq(@, 1, 4) \o <<@[4], IF oldStart THEN @[5] ELSE @[4], @[6]>>,
          !.length = <<@[1], @[1], IF oldLength THEN @[2] ELSE @[1]>>,
          !.heard = IF told THEN cross.told ELSE @,
          !.asked = IF ctr.complete /\ ~ctr.was THEN ~@ ELSE @]
  BY DEF HbmEdge
<1> DEFINE s == cross.start
           l == cross.length
           s6 == IF oldStart THEN s[5] ELSE s[4]
           l3 == IF oldLength THEN l[2] ELSE l[1]
           ends == <<s[4], s6, s[6]>>
           ns == SubSeq(s, 1, 4) \o ends
           nl == <<l[1], l[1], l3>>
           heard == IF told THEN cross.told ELSE cross.heard
           asked == IF Raised THEN ~cross.asked ELSE cross.asked
<1>2. /\ cross \in [start : Seq(BOOLEAN), length : Seq(Nat),
                    asked : BOOLEAN, seen : BOOLEAN, told : BOOLEAN, heard : BOOLEAN]
      /\ s \in Seq(BOOLEAN) /\ l \in Seq(Nat) /\ Len(s) = 7 /\ Len(l) = 3
  BY DEF LinkTypes
<1>3. cross' = [cross EXCEPT !.start = ns, !.length = nl, !.heard = heard, !.asked = asked]
  BY <1>1 DEF Raised
<1>4. \A i \in 1 .. 7 : s[i] \in BOOLEAN
  BY <1>2, ElementOfSeq
<1>5. l[1] \in Nat /\ l[2] \in Nat
  BY <1>2, ElementOfSeq
<1>6. (s6 = s[4] \/ s6 = s[5]) /\ (l3 = l[1] \/ l3 = l[2]) /\ s6 \in BOOLEAN /\ l3 \in Nat
  BY <1>4, <1>5
<1>7. heard \in BOOLEAN /\ asked \in BOOLEAN
  BY <1>2
<1>8. /\ ns \in Seq(BOOLEAN) /\ Len(ns) = 7
      /\ \A i \in 1 .. 4 : ns[i] = s[i]
      /\ ns[5] = s[4] /\ ns[6] = s6 /\ ns[7] = s[6]
  <2> HIDE DEF s, s6
  <2>1. s[4] \in BOOLEAN /\ s[6] \in BOOLEAN /\ s6 \in BOOLEAN
    BY <1>4, <1>6
  <2> QED
    BY <1>2, <2>1, LastRegisters
<1>9. nl \in Seq(Nat) /\ Len(nl) = 3 /\ nl[1] = l[1] /\ nl[2] = l[1] /\ nl[3] = l3
  <2> DEFINE a == l[1]
  <2>1. a \in Nat /\ l3 \in Nat
    BY <1>5, <1>6
  <2> HIDE DEF a, l3
  <2>2. LET t == <<a, a, l3>> IN t \in Seq(Nat) /\ Len(t) = 3 /\ t[1] = a /\ t[2] = a /\ t[3] = l3
    BY <2>1
  <2> QED
    BY <2>2 DEF a
<1> HIDE DEF s, l, ns, nl, heard, asked, s6, l3
<1>10. cross' \in [start : Seq(BOOLEAN), length : Seq(Nat),
                   asked : BOOLEAN, seen : BOOLEAN, told : BOOLEAN, heard : BOOLEAN]
  BY <1>2, <1>3, <1>7, <1>8, <1>9
<1>11. cross'.start = ns /\ cross'.length = nl /\ cross'.seen = cross.seen /\ cross'.asked = asked
  BY <1>2, <1>3, <1>7
<1> QED
  BY <1>6, <1>8, <1>9, <1>10, <1>11 DEF s, l, asked

-----------------------------------------------------------------------------
(* The host. *)

Lines == {"addr", "length", "start", "send", "wait", "lower", "next", "done"}

(* A step that only moves the host from a line to another. *)
Moves(from, to) ==
  /\ host.at = from
  /\ host'.at = to /\ host'.n = host.n /\ host'.pulsed = host.pulsed
  /\ host' \in [at : Lines, n : 1 .. Requests, pulsed : BOOLEAN]

LEMMA LineMoves ==
  ASSUME LinkTypes, NEW from, NEW to \in Lines, Line(from, to)
  PROVE  Moves(from, to)
<1>1. host \in [at : Lines, n : 1 .. Requests, pulsed : BOOLEAN]
  BY DEF LinkTypes, Lines
<1>2. host.at = from /\ host' = [host EXCEPT !.at = to]
  BY DEF Line
<1>3. host' \in [at : Lines, n : 1 .. Requests, pulsed : BOOLEAN]
  BY <1>1, <1>2
<1>4. host'.at = to /\ host'.n = host.n /\ host'.pulsed = host.pulsed
  BY <1>1, <1>2
<1> QED
  BY <1>2, <1>3, <1>4 DEF Moves

(* What each line writes. *)
RegIs(began, addr, length) == reg'.start = began /\ reg'.addr = addr /\ reg'.length = length

HostSteps ==
  \/ Moves("addr", "length") /\ RegIs(reg.start, P2PFlag(host.n), reg.length) /\ left' = left
  \/ Moves("length", "start") /\ RegIs(reg.start, reg.addr, Length[host.n]) /\ left' = left
  \/ /\ \/ host.pulsed /\ Moves("start", "lower")
        \/ ~host.pulsed /\ Moves("start", "send")
     /\ RegIs(TRUE, reg.addr, reg.length) /\ left' = left
  \/ Moves("send", "wait") /\ Settled /\ reg' = reg /\ left' = Length[host.n]
  \/ /\ \/ host.pulsed /\ Moves("wait", "next")
        \/ ~host.pulsed /\ Moves("wait", "lower")
     /\ P2PFlag(host.n) \in flags /\ reg' = reg /\ left' = left
  \/ /\ \/ host.pulsed /\ Moves("lower", "send")
        \/ ~host.pulsed /\ Moves("lower", "next")
     /\ RegIs(FALSE, reg.addr, reg.length) /\ left' = left
  \/ Moves("next", "done") /\ reg' = reg /\ left' = left
  \/ /\ host.at = "next" /\ host.n < Requests
     /\ host'.at = "addr" /\ host'.n = host.n + 1 /\ host'.pulsed = host.pulsed
     /\ reg' = reg /\ left' = left

LEMMA HostStepsAre ==
  ASSUME P2PInv, Host
  PROVE  /\ HostSteps
         /\ host' \in [at : Lines, n : 1 .. Requests, pulsed : BOOLEAN]
         /\ reg' \in [start : BOOLEAN, addr : Addrs, length : Nat]
         /\ left' \in Nat
         /\ UNCHANGED <<cross, ctr, unit, h2c, port, flags, clash>>
<1>1. /\ LinkTypes /\ host \in [at : Lines, n : 1 .. Requests, pulsed : BOOLEAN]
      /\ reg \in [start : BOOLEAN, addr : Addrs, length : Nat] /\ left \in Nat
  BY DEF P2PInv, LinkTypes, Lines
<1>2. Length[host.n] \in Nat /\ P2PFlag(host.n) \in Addrs /\ host.pulsed \in BOOLEAN
  BY <1>1, LengthAssumption DEF Addrs, Flags
<1>3. /\ {"addr", "length", "start", "send", "wait", "lower", "next", "done"} = Lines
      /\ (IF host.pulsed THEN "lower" ELSE "send") \in Lines
      /\ (IF host.pulsed THEN "next" ELSE "lower") \in Lines
      /\ (IF host.pulsed THEN "send" ELSE "next") \in Lines
  BY DEF Lines
<1>4. CASE WriteAddr
  <2>1. Line("addr", "length") /\ reg' = [reg EXCEPT !.addr = P2PFlag(host.n)]
        /\ UNCHANGED <<left, cross, ctr, unit, h2c, port, flags, clash>>
    BY <1>4 DEF WriteAddr
  <2>2. Moves("addr", "length")
    BY <1>1, <1>3, <2>1, LineMoves
  <2>3. RegIs(reg.start, P2PFlag(host.n), reg.length) /\ reg' \in [start : BOOLEAN, addr : Addrs, length : Nat]
    BY <1>1, <1>2, <2>1 DEF RegIs
  <2> QED
    BY <1>1, <2>1, <2>2, <2>3, Zenon DEF HostSteps, Moves
<1>5. CASE WriteLength
  <2>1. Line("length", "start") /\ reg' = [reg EXCEPT !.length = Length[host.n]]
        /\ UNCHANGED <<left, cross, ctr, unit, h2c, port, flags, clash>>
    BY <1>5 DEF WriteLength
  <2>2. Moves("length", "start")
    BY <1>1, <1>3, <2>1, LineMoves
  <2>3. RegIs(reg.start, reg.addr, Length[host.n]) /\ reg' \in [start : BOOLEAN, addr : Addrs, length : Nat]
    BY <1>1, <1>2, <2>1 DEF RegIs
  <2> QED
    BY <1>1, <2>1, <2>2, <2>3, Zenon DEF HostSteps, Moves
<1>6. CASE WriteStart
  <2>1. Line("start", IF host.pulsed THEN "lower" ELSE "send") /\ reg' = [reg EXCEPT !.start = TRUE]
        /\ UNCHANGED <<left, cross, ctr, unit, h2c, port, flags, clash>>
    BY <1>6 DEF WriteStart
  <2>2. Moves("start", IF host.pulsed THEN "lower" ELSE "send")
    BY <1>1, <1>3, <2>1, LineMoves
  <2>3. RegIs(TRUE, reg.addr, reg.length) /\ reg' \in [start : BOOLEAN, addr : Addrs, length : Nat]
    BY <1>1, <2>1 DEF RegIs
  <2> QED
    BY <1>1, <2>1, <2>2, <2>3, Zenon DEF HostSteps, Moves
<1>7. CASE Send
  <2>1. Line("send", "wait") /\ Settled /\ left' = Length[host.n]
        /\ UNCHANGED <<reg, cross, ctr, unit, h2c, port, flags, clash>>
    BY <1>7 DEF Send
  <2>2. Moves("send", "wait")
    BY <1>1, <1>3, <2>1, LineMoves
  <2> QED
    BY <1>1, <1>2, <2>1, <2>2, Zenon DEF HostSteps, Moves
<1>8. CASE SeeFlag
  <2>1. Line("wait", IF host.pulsed THEN "next" ELSE "lower") /\ P2PFlag(host.n) \in flags
        /\ UNCHANGED <<reg, left, cross, ctr, unit, h2c, port, flags, clash>>
    BY <1>8 DEF SeeFlag
  <2>2. Moves("wait", IF host.pulsed THEN "next" ELSE "lower")
    BY <1>1, <1>3, <2>1, LineMoves
  <2> QED
    BY <1>1, <2>1, <2>2, Zenon DEF HostSteps, Moves
<1>9. CASE LowerStart
  <2>1. Line("lower", IF host.pulsed THEN "send" ELSE "next") /\ reg' = [reg EXCEPT !.start = FALSE]
        /\ UNCHANGED <<left, cross, ctr, unit, h2c, port, flags, clash>>
    BY <1>9 DEF LowerStart
  <2>2. Moves("lower", IF host.pulsed THEN "send" ELSE "next")
    BY <1>1, <1>3, <2>1, LineMoves
  <2>3. RegIs(FALSE, reg.addr, reg.length) /\ reg' \in [start : BOOLEAN, addr : Addrs, length : Nat]
    BY <1>1, <2>1 DEF RegIs
  <2> QED
    BY <1>1, <2>1, <2>2, <2>3, Zenon DEF HostSteps, Moves
<1>10. CASE NextRequest
  <2>1. /\ host.at = "next"
        /\ host' = IF host.n < Requests THEN [host EXCEPT !.at = "addr", !.n = host.n + 1]
                                        ELSE [host EXCEPT !.at = "done"]
        /\ UNCHANGED <<reg, left, cross, ctr, unit, h2c, port, flags, clash>>
    BY <1>10 DEF NextRequest
  <2>2. CASE host.n < Requests
    <3> DEFINE n == host.n + 1
    <3>1. n \in 1 .. Requests /\ "addr" \in Lines
      BY <1>1, <2>2, LengthAssumption DEF Lines
    <3>2. host' = [host EXCEPT !.at = "addr", !.n = n]
      BY <2>1, <2>2
    <3> HIDE DEF n
    <3>3. /\ host'.at = "addr" /\ host'.n = n /\ host'.pulsed = host.pulsed
          /\ host' \in [at : Lines, n : 1 .. Requests, pulsed : BOOLEAN]
      BY <1>1, <3>1, <3>2
    <3>4. HostSteps
      BY <2>1, <2>2, <3>3, Zenon DEF HostSteps, n
    <3> QED
      BY <1>1, <2>1, <3>3, <3>4, Zenon
  <2>3. CASE ~(host.n < Requests)
    <3>1. Line("next", "done")
      BY <2>1, <2>3 DEF Line
    <3>2. Moves("next", "done")
      BY <1>1, <1>3, <3>1, LineMoves
    <3> QED
      BY <1>1, <2>1, <3>2, Zenon DEF HostSteps, Moves
  <2> QED
    BY <2>2, <2>3
<1> QED
  BY <1>4, <1>5, <1>6, <1>7, <1>8, <1>9, <1>10 DEF Host

LEMMA HostKeepsHostWrote ==
  ASSUME P2PInv, HostSteps
  PROVE  HostWrote'
<1>1. HostWrote
  BY DEF P2PInv
<1>2. CASE Moves("addr", "length") /\ RegIs(reg.start, P2PFlag(host.n), reg.length) /\ left' = left
  BY <1>2, Zenon DEF HostWrote, Moves, RegIs
<1>3. CASE Moves("length", "start") /\ RegIs(reg.start, reg.addr, Length[host.n]) /\ left' = left
  BY <1>1, <1>3 DEF HostWrote, Moves, RegIs
<1>4. CASE /\ \/ host.pulsed /\ Moves("start", "lower")
              \/ ~host.pulsed /\ Moves("start", "send")
           /\ RegIs(TRUE, reg.addr, reg.length) /\ left' = left
  BY <1>1, <1>4 DEF HostWrote, Moves, RegIs
<1>5. CASE Moves("send", "wait") /\ Settled /\ reg' = reg /\ left' = Length[host.n]
  BY <1>1, <1>5 DEF HostWrote, Moves
<1>6. CASE /\ \/ host.pulsed /\ Moves("wait", "next")
              \/ ~host.pulsed /\ Moves("wait", "lower")
           /\ P2PFlag(host.n) \in flags /\ reg' = reg /\ left' = left
  BY <1>1, <1>6 DEF HostWrote, Moves
<1>7. CASE /\ \/ host.pulsed /\ Moves("lower", "send")
              \/ ~host.pulsed /\ Moves("lower", "next")
           /\ RegIs(FALSE, reg.addr, reg.length) /\ left' = left
  BY <1>1, <1>7 DEF HostWrote, Moves, RegIs
<1>8. CASE Moves("next", "done") /\ reg' = reg /\ left' = left
  BY <1>1, <1>8 DEF HostWrote, Moves
<1>9. CASE /\ host.at = "next" /\ host.n < Requests
           /\ host'.at = "addr" /\ host'.n = host.n + 1 /\ host'.pulsed = host.pulsed
           /\ reg' = reg /\ left' = left
  BY <1>9 DEF HostWrote
<1> QED
  BY <1>2, <1>3, <1>4, <1>5, <1>6, <1>7, <1>8, <1>9 DEF HostSteps

LEMMA HostKeepsLengthFirst ==
  ASSUME P2PInv, HostSteps, UNCHANGED <<cross, ctr, unit, h2c, port, flags, clash>>
  PROVE  LengthFirst'
<1>1. /\ LengthFirst /\ HostWrote /\ host.n \in 1 .. Requests
      /\ \A n \in 1 .. Requests : Length[n] # 0
  BY LengthAssumption DEF P2PInv, LinkTypes
<1>2. cross' = cross /\ ctr' = ctr
  OBVIOUS
<1>3. reg'.length = reg.length \/ reg'.length # 0
  BY <1>1 DEF HostSteps, Moves, RegIs
<1>4. reg'.start => reg'.length # 0
  <2>1. CASE reg'.start = reg.start
    BY <1>1, <1>3, <2>1 DEF LengthFirst
  <2>2. CASE reg'.start # reg.start
    <3>1. \/ host.at = "start" /\ reg'.length = reg.length
          \/ reg'.start = FALSE
      BY <2>2, Zenon DEF HostSteps, Moves, RegIs
    <3>2. host.at = "start" => reg.length # 0
      BY <1>1 DEF HostWrote
    <3> QED
      BY <3>1, <3>2
  <2> QED
    BY <2>1, <2>2
<1> QED
  BY <1>1, <1>2, <1>3, <1>4 DEF LengthFirst

LEMMA HostKeepsUsedArrived ==
  ASSUME P2PInv, HostSteps, UNCHANGED <<cross, ctr, unit, h2c, port, flags, clash>>
  PROVE  UsedArrived'
<1>1. SUFFICES ASSUME NEW n \in 1 .. Requests, Used(n)'
               PROVE  Arrived(n)'
  BY DEF UsedArrived
<1>2. Arrived(n)
  BY <1>1 DEF P2PInv, UsedArrived, Used
<1>3. host.n \in 1 .. Requests /\ left \in Nat
  BY DEF P2PInv, LinkTypes
<1>4. host'.pulsed = host.pulsed
  BY Zenon DEF HostSteps, Moves
<1>5. CASE n < host.n
  <2>1. host'.n = host.n \/ host'.n = host.n + 1
    BY Zenon DEF HostSteps, Moves
  <2> QED
    BY <1>2, <1>3, <1>4, <1>5, <2>1 DEF Arrived
<1>6. CASE n = host.n /\ left = 0 /\ host.at \in {"wait", "lower", "next", "done"}
  <2>1. ~host.pulsed
    BY <1>2 DEF Arrived
  <2>2. \/ host'.n = host.n /\ left' = left /\ host'.at \in {"wait", "lower", "next", "done"}
        \/ host'.n = host.n + 1
    BY <1>6, <2>1 DEF HostSteps, Moves
  <2> QED
    BY <1>3, <1>4, <1>6, <2>1, <2>2 DEF Arrived
<1> QED
  BY <1>2, <1>5, <1>6 DEF Arrived

(* The flags of the host's request are as they were. *)
LEMMA UsedSame ==
  ASSUME UNCHANGED <<flags, unit, port>>, NEW n
  PROVE  Used(n)' <=> Used(n)
BY DEF Used

LEMMA HostKeepsCounterRight ==
  ASSUME P2PInv, HostSteps, UNCHANGED <<cross, ctr, unit, h2c, port, flags, clash>>
  PROVE  CounterRight'
<1>1. /\ CounterRight /\ HostWrote /\ UsedArrived
      /\ host.n \in 1 .. Requests /\ host.pulsed \in BOOLEAN /\ reg.start \in BOOLEAN
      /\ Length[host.n] \in Nat
      /\ Len(cross.start) = 7 /\ Len(cross.length) = 3
      /\ cross.start \in Seq(BOOLEAN) /\ cross.length \in Seq(Nat)
  BY LengthAssumption DEF P2PInv, LinkTypes
<1>2. DOMAIN cross.start = 1 .. 7 /\ DOMAIN cross.length = 1 .. 3
  BY <1>1, LenProperties
<1>3. CASE Moves("send", "wait") /\ Settled /\ reg' = reg /\ left' = Length[host.n]
  <2>1. /\ host.at = "send" /\ host'.at = "wait" /\ host'.n = host.n /\ host'.pulsed = host.pulsed
        /\ ~Waits /\ Waits'
    BY <1>3 DEF Moves, Waits
  <2>2. /\ \A i \in 1 .. 7 : cross.start[i] = reg.start
        /\ \A i \in 1 .. 3 : cross.length[i] = reg.length
        /\ ctr.working = reg.start /\ ~ctr.complete
    BY <1>2, <1>3 DEF Settled
  <2>3. reg.length = Length[host.n] /\ (host.pulsed => ~reg.start) /\ (~host.pulsed => reg.start)
    BY <1>1, <2>1, Zenon DEF HostWrote
  <2>4. ctr.counter = 0 /\ ~Asked
    BY <1>1, <2>1 DEF CounterRight, Quiet, Empty
  <2>5. CASE host.pulsed
    <3>1. Deaf
      BY <2>2, <2>3, <2>4, <2>5 DEF Deaf, Raised
    <3>2. Deaf'
      BY <3>1 DEF Deaf, Raised, Asked
    <3> QED
      BY <2>1, <2>5, <3>2 DEF CounterRight
  <2>6. CASE ~host.pulsed
    <3>1. StartHeld
      BY <2>2, <2>3, <2>6 DEF StartHeld
    <3>2. StartHeld'
      BY <1>3, <2>1, <3>1 DEF StartHeld
    <3>3. ~Used(host.n)
      BY <1>1, <2>1 DEF UsedArrived, Arrived
    <3>4. ~Used(host.n)'
      BY <2>1, <3>3 DEF Used
    <3>5. left' = Length[host'.n] /\ ctr'.counter = 0 /\ ~ctr'.complete /\ ~Asked'
      BY <1>3, <2>1, <2>2, <2>4 DEF Asked
    <3>6. ctr'.counter + left' = Length[host'.n]
      BY <1>1, <2>1, <3>5
    <3>7. Counting'
      BY <3>4, <3>5, <3>6 DEF Counting
    <3> QED
      BY <2>1, <2>6, <3>2, <3>7 DEF CounterRight
  <2> QED
    BY <2>5, <2>6
<1>4. CASE /\ \/ host.pulsed /\ Moves("wait", "next")
              \/ ~host.pulsed /\ Moves("wait", "lower")
           /\ P2PFlag(host.n) \in flags /\ reg' = reg /\ left' = left
  <2>1. Waits /\ ~Waits'
    BY <1>4 DEF Moves, Waits
  <2>2. Used(host.n) /\ ~host.pulsed
    BY <1>1, <1>4 DEF Used, UsedArrived, Arrived
  <2>3. Quiet
    BY <1>1, <2>1, <2>2 DEF CounterRight, Counting, Reached, Requested
  <2>4. Quiet'
    BY <1>4, <2>3 DEF Quiet, Empty, Raised, Asked
  <2> QED
    BY <2>1, <2>4 DEF CounterRight
<1>5. CASE ~Waits /\ ~Waits' /\ left' = left
  <2>1. Quiet
    BY <1>1, <1>5 DEF CounterRight
  <2>2. Quiet'
    BY <1>5, <2>1 DEF Quiet, Empty, Raised, Asked
  <2> QED
    BY <1>5, <2>2 DEF CounterRight
<1> QED
  BY <1>3, <1>4, <1>5 DEF HostSteps, Moves, Waits

(* The unit and its client are as they were. *)
LEMMA UnclashedSame ==
  ASSUME UnclashedRight, UNCHANGED <<unit, h2c, port, flags, clash>>
  PROVE  UnclashedRight'
<1>1. (Balanced <=> Balanced') /\ (NotAsked <=> NotAsked') /\ (Busy <=> Busy')
  BY DEF Balanced, Unasked, Busy, NotAsked
<1>2. ASSUME NEW n PROVE (Delivered(n) <=> Delivered(n)') /\ (Accepted(n) <=> Accepted(n)')
  BY DEF Delivered, Accepted
<1>3. (Delivered(h2c.n) <=> Delivered(h2c.n)') /\ (Accepted(h2c.n) <=> Accepted(h2c.n)')
  BY DEF Delivered, Accepted
<1>4. (Writing <=> Writing') /\ (Finished <=> Finished')
  BY <1>1, <1>3 DEF Writing, Finished
<1>5. H2cRight <=> H2cRight'
  BY <1>1, <1>2, <1>3, <1>4 DEF H2cRight
<1> QED
  BY <1>1, <1>5 DEF UnclashedRight

LEMMA UnitSame ==
  ASSUME UnitRight, UNCHANGED <<unit, h2c>>
  PROVE  UnitRight'
BY DEF UnitRight

LEMMA HostKeeps ==
  ASSUME P2PInv, Host
  PROVE  P2PInv'
<1>1. /\ HostSteps /\ UNCHANGED <<cross, ctr, unit, h2c, port, flags, clash>>
      /\ host' \in [at : Lines, n : 1 .. Requests, pulsed : BOOLEAN]
      /\ reg' \in [start : BOOLEAN, addr : Addrs, length : Nat] /\ left' \in Nat
  BY HostStepsAre
<1>2. HostWrote' /\ LengthFirst' /\ UsedArrived' /\ CounterRight'
  BY <1>1, HostKeepsHostWrote, HostKeepsLengthFirst, HostKeepsUsedArrived, HostKeepsCounterRight
<1>3. LinkTypes'
  BY <1>1 DEF P2PInv, LinkTypes, Lines
<1>4. UnitRight' /\ UnclashedRight'
  BY <1>1, UnitSame, UnclashedSame DEF P2PInv
<1> QED
  BY <1>2, <1>3, <1>4 DEF P2PInv

-----------------------------------------------------------------------------
(* An edge of hbm_clk. *)

(* What the counter's registers become. *)
LEMMA CounterSteps ==
  ASSUME LinkTypes, NEW beat \in BOOLEAN, NEW told \in BOOLEAN, HbmEdge(beat, told)
  PROVE  /\ ctr' \in [counter : Nat, length : Nat, complete : BOOLEAN, working : BOOLEAN,
                      was : BOOLEAN]
         /\ ctr'.counter = IF Match \/ ~cross.start[7] THEN 0
                           ELSE IF beat THEN ctr.counter + 1 ELSE ctr.counter
         /\ ctr'.length = IF cross.start[7] THEN cross.length[3] ELSE ctr.length
         /\ ctr'.working = cross.start[7]
         /\ ctr'.complete = ((Match \/ ctr.complete) /\ ~(told /\ ctr.complete))
         /\ ctr'.was = ctr.complete
         /\ (beat => left > 0) /\ left' = IF beat THEN left - 1 ELSE left
         /\ UNCHANGED <<host, reg, unit, h2c, port, flags, clash>>
<1> DEFINE counter == IF Match \/ ~cross.start[7] THEN 0
                      ELSE IF beat THEN ctr.counter + 1 ELSE ctr.counter
           length == IF cross.start[7] THEN cross.length[3] ELSE ctr.length
           working == cross.start[7]
           complete == (Match \/ ctr.complete) /\ ~(told /\ ctr.complete)
           was == ctr.complete
<1>1. /\ ctr' = [counter |-> counter, length |-> length, working |-> working,
                 complete |-> complete, was |-> was]
      /\ (beat => left > 0) /\ left' = (IF beat THEN left - 1 ELSE left)
      /\ UNCHANGED <<host, reg, unit, h2c, port, flags, clash>>
  BY Zenon DEF HbmEdge, CounterStep
<1>2. /\ ctr.counter \in Nat /\ ctr.length \in Nat /\ ctr.complete \in BOOLEAN
      /\ cross.start \in Seq(BOOLEAN) /\ Len(cross.start) = 7
      /\ cross.length \in Seq(Nat) /\ Len(cross.length) = 3
  BY DEF LinkTypes
<1>3. cross.start[7] \in BOOLEAN /\ cross.length[3] \in Nat
  BY <1>2, ElementOfSeq
<1>4. counter \in Nat
  BY <1>2
<1>5. length \in Nat
  BY <1>2, <1>3
<1>6. working \in BOOLEAN /\ complete \in BOOLEAN /\ was \in BOOLEAN
  BY <1>2, <1>3
<1> HIDE DEF counter, length, working, complete, was
<1>7. ctr' \in [counter : Nat, length : Nat, complete : BOOLEAN, working : BOOLEAN, was : BOOLEAN]
  BY <1>1, <1>4, <1>5, <1>6
<1>8. /\ ctr'.counter = counter /\ ctr'.length = length /\ ctr'.working = working
      /\ ctr'.complete = complete /\ ctr'.was = was
  BY <1>1, <1>4, <1>5, <1>6
<1> QED
  BY <1>1, <1>7, <1>8 DEF counter, length, working, complete, was

(* The edge in plain terms. *)
HbmStep(beat) ==
  /\ \A i \in 1 .. 4 : cross'.start[i] = cross.start[i]
  /\ cross'.start[5] = cross.start[4]
  /\ cross'.start[6] = cross.start[4] \/ cross'.start[6] = cross.start[5]
  /\ cross'.start[7] = cross.start[6]
  /\ cross'.length[1] = cross.length[1] /\ cross'.length[2] = cross.length[1]
  /\ cross'.length[3] = cross.length[1] \/ cross'.length[3] = cross.length[2]
  /\ cross'.seen = cross.seen
  /\ cross'.asked = IF Raised THEN ~cross.asked ELSE cross.asked
  /\ ctr'.counter = IF Match \/ ~cross.start[7] THEN 0
                    ELSE IF beat THEN ctr.counter + 1 ELSE ctr.counter
  /\ ctr'.length = IF cross.start[7] THEN cross.length[3] ELSE ctr.length
  /\ ctr'.working = cross.start[7]
  /\ ctr'.complete => Match \/ ctr.complete
  /\ Match /\ ~ctr.complete => ctr'.complete
  /\ ctr'.was = ctr.complete
  /\ (beat => left > 0) /\ left' = IF beat THEN left - 1 ELSE left
  /\ UNCHANGED <<host, reg, unit, h2c, port, flags, clash>>

HbmTypes ==
  /\ ctr \in [counter : Nat, length : Nat, complete : BOOLEAN, working : BOOLEAN, was : BOOLEAN]
  /\ cross \in [start : Seq(BOOLEAN), length : Seq(Nat),
                asked : BOOLEAN, seen : BOOLEAN, told : BOOLEAN, heard : BOOLEAN]
  /\ Len(cross.start) = 7 /\ Len(cross.length) = 3
  /\ left \in Nat

LEMMA HbmStepIs ==
  ASSUME LinkTypes, NEW beat \in BOOLEAN, NEW told \in BOOLEAN, HbmEdge(beat, told)
  PROVE  HbmStep(beat) /\ HbmTypes'
<1>1. ctr.complete \in BOOLEAN /\ left \in Nat
  BY DEF LinkTypes
<1>2. left' \in Nat
  BY <1>1, CounterSteps
<1>3. HbmTypes'
  BY <1>2, CounterSteps, HbmCross DEF HbmTypes
<1>4. /\ ctr'.complete => Match \/ ctr.complete
      /\ Match /\ ~ctr.complete => ctr'.complete
  BY <1>1, CounterSteps
<1> QED
  BY <1>3, <1>4, CounterSteps, HbmCross, Zenon DEF HbmStep

LEMMA HbmKeepsLengthFirst ==
  ASSUME LengthFirst, NEW beat, HbmStep(beat)
  PROVE  LengthFirst'
<1>1. /\ reg' = reg
      /\ \A i \in 1 .. 7 : cross'.start[i] => \E j \in 1 .. 7 : cross.start[j]
      /\ cross'.start[7] => cross.start[6]
      /\ cross'.length[1] = cross.length[1] /\ cross'.length[2] = cross.length[1]
      /\ cross'.length[3] = cross.length[1] \/ cross'.length[3] = cross.length[2]
      /\ ctr'.working = cross.start[7]
      /\ cross.start[7] => ctr'.length = cross.length[3]
  <2>1. ASSUME NEW i \in 1 .. 7, cross'.start[i] PROVE \E j \in 1 .. 7 : cross.start[j]
    BY <2>1 DEF HbmStep
  <2> QED
    BY <2>1 DEF HbmStep
<1>2. reg'.start => reg'.length # 0
  BY <1>1 DEF LengthFirst
<1>3. \A i \in 1 .. 7 : cross'.start[i] => reg'.length # 0 /\ cross'.length[1] # 0
  BY <1>1 DEF LengthFirst
<1>4. \A i \in 5 .. 7 : cross'.start[i] => cross'.length[2] # 0
  BY <1>1, <1>3
<1>5. cross'.start[7] => cross'.length[3] # 0
  BY <1>1 DEF LengthFirst
<1>6. ctr'.working => ctr'.length # 0 /\ reg'.length # 0 /\ \A i \in 1 .. 3 : cross'.length[i] # 0
  <2> SUFFICES ASSUME ctr'.working
               PROVE  ctr'.length # 0 /\ reg'.length # 0 /\ \A i \in 1 .. 3 : cross'.length[i] # 0
    OBVIOUS
  <2>1. cross.start[7]
    BY <1>1
  <2>2. cross.length[1] # 0 /\ cross.length[2] # 0 /\ cross.length[3] # 0 /\ reg.length # 0
    BY <2>1 DEF LengthFirst
  <2>3. \A i \in 1 .. 3 : i = 1 \/ i = 2 \/ i = 3
    OBVIOUS
  <2>4. cross'.length[1] # 0 /\ cross'.length[2] # 0 /\ cross'.length[3] # 0
    BY <1>1, <2>2
  <2> QED
    BY <1>1, <2>1, <2>2, <2>3, <2>4, Zenon
<1> QED
  BY <1>2, <1>3, <1>4, <1>5, <1>6, Zenon DEF LengthFirst

LEMMA HbmKeepsUsedArrived ==
  ASSUME UsedArrived, left \in Nat, NEW beat \in BOOLEAN, HbmStep(beat)
  PROVE  UsedArrived'
<1>1. host' = host /\ (left = 0 => left' = 0)
  BY DEF HbmStep
<1>2. ASSUME NEW n PROVE Used(n)' <=> Used(n)
  BY DEF HbmStep, Used
<1>3. ASSUME NEW n PROVE Arrived(n) => Arrived(n)'
  BY <1>1, Zenon DEF Arrived
<1> QED
  BY <1>2, <1>3, Zenon DEF UsedArrived

LEMMA HbmKeepsCounterRight ==
  ASSUME CounterRight, LengthFirst, HbmTypes, host.n \in 1 .. Requests, host.pulsed \in BOOLEAN,
         NEW beat \in BOOLEAN, HbmStep(beat)
  PROVE  CounterRight'
<1>1. /\ ctr.counter \in Nat /\ ctr.length \in Nat /\ left \in Nat
      /\ ctr.complete \in BOOLEAN /\ ctr.was \in BOOLEAN /\ ctr.working \in BOOLEAN
      /\ cross.asked \in BOOLEAN /\ cross.seen \in BOOLEAN
  BY DEF HbmTypes
<1>2. Length[host.n] \in Nat /\ Length[host.n] # 0
  BY LengthAssumption
<1>3. host' = host /\ reg' = reg /\ (Waits' <=> Waits) /\ (Used(host.n)' <=> Used(host.n))
  BY DEF HbmStep, Waits, Used
<1>4. ctr.counter = 0 => ~Match
  BY DEF Match, LengthFirst
<1>5. ASSUME Empty, ~Raised
      PROVE  Empty' /\ ~Raised' /\ (Asked' <=> Asked)
  <2>1. ~Match /\ left = 0 /\ ctr.counter = 0
    BY <1>4, <1>5 DEF Empty
  <2>2. left' = 0 /\ ctr'.counter = 0
    BY <2>1 DEF HbmStep
  <2>3. cross'.asked = cross.asked /\ cross'.seen = cross.seen
    BY <1>5 DEF HbmStep
  <2>4. ~Raised'
    BY <2>1, Zenon DEF Raised, HbmStep
  <2> QED
    BY <2>2, <2>3, <2>4 DEF Empty, Asked
<1>6. Quiet => Quiet'
  BY <1>5 DEF Quiet
<1>7. CASE ~Waits
  BY <1>3, <1>6, <1>7 DEF CounterRight
<1>8. CASE Waits /\ host.pulsed
  <2>1. Deaf
    BY <1>8 DEF CounterRight
  <2>2. ~Match /\ ~cross.start[7] /\ \A i \in 1 .. 7 : ~cross.start[i]
    BY <2>1 DEF Deaf, Match
  <2>3. \A i \in 1 .. 7 : ~cross'.start[i]
    <3>1. /\ ~cross'.start[1] /\ ~cross'.start[2] /\ ~cross'.start[3] /\ ~cross'.start[4]
          /\ ~cross'.start[5] /\ ~cross'.start[6] /\ ~cross'.start[7]
      BY <2>2 DEF HbmStep
    <3>2. \A i \in 1 .. 7 : i = 1 \/ i = 2 \/ i = 3 \/ i = 4 \/ i = 5 \/ i = 6 \/ i = 7
      OBVIOUS
    <3> QED
      BY <3>1, <3>2, Zenon
  <2>4. ctr'.counter = 0 /\ ~ctr'.working
    BY <2>2 DEF HbmStep
  <2>5. ~Raised' /\ ~Asked'
    BY <2>1, <2>2 DEF Deaf, Raised, Asked, HbmStep
  <2> QED
    BY <1>3, <1>8, <2>3, <2>4, <2>5 DEF CounterRight, Deaf
<1>9. CASE Waits /\ ~host.pulsed
  <2>1. StartHeld /\ (Counting \/ Reached \/ Requested \/ Quiet)
    BY <1>9 DEF CounterRight
  <2>2. StartHeld'
    <3>1. /\ cross'.start[1] /\ cross'.start[2] /\ cross'.start[3] /\ cross'.start[4]
          /\ cross'.start[5] /\ cross'.start[6] /\ cross'.start[7] /\ ctr'.working
      BY <2>1 DEF StartHeld, HbmStep
    <3>2. \A i \in 1 .. 7 : i = 1 \/ i = 2 \/ i = 3 \/ i = 4 \/ i = 5 \/ i = 6 \/ i = 7
      OBVIOUS
    <3>3. \A i \in 1 .. 7 : cross'.start[i]
      BY <3>1, <3>2, Zenon
    <3>4. \A i \in 1 .. 3 : cross'.length[i] = Length[host.n]
      <4>1. \A i \in 1 .. 3 : i = 1 \/ i = 2 \/ i = 3
        OBVIOUS
      <4>2. /\ cross'.length[1] = Length[host.n] /\ cross'.length[2] = Length[host.n]
            /\ cross'.length[3] = Length[host.n]
        BY <2>1 DEF StartHeld, HbmStep
      <4> QED
        BY <4>1, <4>2, Zenon
    <3> QED
      BY <1>3, <2>1, <3>1, <3>3, <3>4, Zenon DEF StartHeld
  <2>3. cross.start[7] /\ cross.length[3] = Length[host.n]
    BY <2>1 DEF StartHeld
  <2>4. CASE Counting
    <3>1. ~ctr.complete /\ ~ctr'.was /\ ctr'.length = Length[host'.n]
      BY <1>3, <2>3, <2>4 DEF Counting, HbmStep
    <3>2. ~Asked'
      BY <2>4, <3>1 DEF Counting, Asked, Raised, HbmStep
    <3>3. CASE Match
      <4>1. left = 0
        BY <1>1, <1>2, <1>4, <2>4, <3>3 DEF Counting, Match
      <4>2. left' = 0 /\ ctr'.counter = 0
        BY <3>3, <4>1 DEF HbmStep
      <4>3. ctr'.complete
        BY <3>1, <3>3 DEF HbmStep
      <4>4. Reached'
        BY <1>3, <2>4, <3>1, <3>2, <4>2, <4>3 DEF Reached, Empty, Raised, Counting
      <4> QED
        BY <1>3, <1>9, <2>2, <4>4 DEF CounterRight
    <3>4. CASE ~Match
      <4>1. /\ ctr'.counter = IF beat THEN ctr.counter + 1 ELSE ctr.counter
            /\ left' = IF beat THEN left - 1 ELSE left
        BY <2>3, <3>4, Zenon DEF HbmStep
      <4>2. ctr.counter + left = Length[host.n]
        BY <2>4 DEF Counting
      <4>3. ctr'.counter + left' = Length[host.n]
        BY <1>1, <4>1, <4>2
      <4>4. ~ctr'.complete
        BY <3>1, <3>4 DEF HbmStep
      <4>5. Counting'
        BY <1>3, <2>4, <3>1, <3>2, <4>3, <4>4 DEF Counting
      <4> QED
        BY <1>3, <1>9, <2>2, <4>5 DEF CounterRight
    <3> QED
      BY <3>3, <3>4
  <2>5. CASE Reached
    <3>1. ~Match /\ left = 0 /\ ctr.complete /\ ~Asked /\ Raised
      BY <1>4, <2>5 DEF Reached, Empty, Raised
    <3>2. left' = 0 /\ ctr'.counter = 0
      BY <2>5, <3>1 DEF HbmStep, Reached, Empty
    <3>3. Asked' /\ ~Raised'
      BY <1>1, <3>1 DEF Asked, Raised, HbmStep
    <3>4. Requested'
      BY <1>3, <2>5, <3>2, <3>3 DEF Reached, Requested, Empty
    <3> QED
      BY <1>3, <1>9, <2>2, <3>4 DEF CounterRight
  <2>6. CASE Requested
    <3>1. Requested'
      BY <1>3, <1>5, <2>6 DEF Requested
    <3> QED
      BY <1>3, <1>9, <2>2, <3>1 DEF CounterRight
  <2>7. CASE Quiet
    BY <1>3, <1>6, <1>9, <2>2, <2>7 DEF CounterRight
  <2> QED
    BY <2>1, <2>4, <2>5, <2>6, <2>7
<1> QED
  BY <1>7, <1>8, <1>9

LEMMA HbmKeeps ==
  ASSUME P2PInv, NEW beat \in BOOLEAN, NEW told \in BOOLEAN, HbmEdge(beat, told)
  PROVE  P2PInv'
<1>1. /\ LinkTypes /\ UnitRight /\ HostWrote /\ LengthFirst /\ UsedArrived /\ CounterRight
      /\ UnclashedRight
  BY DEF P2PInv
<1>2. HbmStep(beat) /\ HbmTypes'
  BY <1>1, HbmStepIs
<1>3. UNCHANGED <<host, reg, unit, h2c, port, flags, clash>>
  BY <1>2 DEF HbmStep
<1>4. /\ HbmTypes /\ host.n \in 1 .. Requests /\ host.pulsed \in BOOLEAN /\ left \in Nat
  BY <1>1 DEF LinkTypes, HbmTypes
<1>5. LinkTypes'
  BY <1>1, <1>2, <1>3 DEF LinkTypes, HbmTypes
<1>6. HostWrote'
  BY <1>1, <1>3 DEF HostWrote
<1>7. LengthFirst' /\ UsedArrived' /\ CounterRight'
  BY <1>1, <1>2, <1>4, HbmKeepsLengthFirst, HbmKeepsUsedArrived, HbmKeepsCounterRight
<1>8. UnitRight' /\ UnclashedRight'
  BY <1>1, <1>3, UnitSame, UnclashedSame
<1> QED
  BY <1>5, <1>6, <1>7, <1>8 DEF P2PInv

-----------------------------------------------------------------------------
(* An edge of user_clk: types, and the wires' addresses. *)

InputsTyped(in) ==
  /\ in.h2c_start => in.h2c_addr \in Addrs
  /\ in.c2h_start => in.c2h_addr \in Addrs
  /\ in.p2p_addr \in Addrs
  /\ in.h2c_start \in BOOLEAN /\ in.c2h_start \in BOOLEAN
  /\ in.h2c_complete \in BOOLEAN /\ in.c2h_complete \in BOOLEAN /\ in.p2p_complete \in BOOLEAN
  /\ in.cmd_ready \in BOOLEAN /\ in.data_ready \in BOOLEAN

LEMMA UnitStepTyped ==
  ASSUME NEW c \in UnitType, NEW in, InputsTyped(in)
  PROVE  UnitStep(c, in) \in UnitType
<1>1. /\ c.h2c_cpt_complete \in BOOLEAN /\ c.c2h_cpt_complete \in BOOLEAN
      /\ c.p2p_cpt_complete \in BOOLEAN
      /\ c.h2c_cpt_addr \in Addrs /\ c.c2h_cpt_addr \in Addrs /\ c.cpt_addr \in Addrs
      /\ c.cmd_valid \in BOOLEAN /\ c.data_valid \in BOOLEAN
      /\ c.cmd_fire \in BOOLEAN /\ c.data_fire \in BOOLEAN
      /\ c.h2c_started \in BOOLEAN /\ c.c2h_started \in BOOLEAN /\ c.p2p_started \in BOOLEAN
  BY DEF UnitType
<1> DEFINE e1 == in.h2c_complete
           e2 == in.c2h_complete
           e3 == IF in.h2c_start THEN in.h2c_addr ELSE c.h2c_cpt_addr
           e4 == IF in.c2h_start THEN in.c2h_addr ELSE c.c2h_cpt_addr
           e5 == Told(c, c.h2c_started, c.h2c_cpt_complete, in.h2c_start)
           e6 == Told(c, c.c2h_started, c.c2h_cpt_complete, in.c2h_start)
           e7 == Told(c, c.p2p_started, c.p2p_cpt_complete, c.p2p_cpt_complete)
           e8 == Started(c, c.h2c_started, H2cGo(c, in))
           e9 == Started(c, c.c2h_started, C2hGo(c, in))
           e10 == Started(c, c.p2p_started, in.p2p_complete)
           e11 == (c.cmd_valid \/ Go(c, in)) /\ ~CmdFire(c, in)
           e12 == (c.data_valid \/ Go(c, in)) /\ ~DataFire(c, in)
           e13 == (c.cmd_fire \/ CmdFire(c, in)) /\ ~Written(c)
           e14 == (c.data_fire \/ DataFire(c, in)) /\ ~Written(c)
           e15 == IF C2hGo(c, in) THEN c.c2h_cpt_addr
                  ELSE IF H2cGo(c, in) THEN c.h2c_cpt_addr
                  ELSE IF in.p2p_complete THEN in.p2p_addr ELSE c.cpt_addr
<1>2. e3 \in Addrs /\ e4 \in Addrs /\ e15 \in Addrs
  <2>1. e3 \in Addrs
    BY <1>1 DEF InputsTyped
  <2>2. e4 \in Addrs
    BY <1>1 DEF InputsTyped
  <2>3. e15 \in Addrs
    BY <1>1, Zenon DEF InputsTyped
  <2> QED
    BY <2>1, <2>2, <2>3
<1>3. e1 \in BOOLEAN /\ e2 \in BOOLEAN /\ e5 \in BOOLEAN /\ e6 \in BOOLEAN /\ e7 \in BOOLEAN
  BY <1>1 DEF Told, Written, InputsTyped
<1>4. e8 \in BOOLEAN /\ e9 \in BOOLEAN /\ e10 \in BOOLEAN
  BY <1>1 DEF Started, Written, H2cGo, C2hGo, InputsTyped
<1>5. e11 \in BOOLEAN /\ e12 \in BOOLEAN /\ e13 \in BOOLEAN /\ e14 \in BOOLEAN
  BY <1>1 DEF Go, H2cGo, C2hGo, CmdFire, DataFire, Written, InputsTyped
<1>6. UnitStep(c, in) =
        [c EXCEPT !.h2c_was = e1, !.c2h_was = e2, !.h2c_cpt_addr = e3, !.c2h_cpt_addr = e4,
                  !.h2c_cpt_complete = e5, !.c2h_cpt_complete = e6, !.p2p_cpt_complete = e7, !.h2c_started = e8,
                  !.c2h_started = e9, !.p2p_started = e10, !.cmd_valid = e11, !.data_valid = e12,
                  !.cmd_fire = e13, !.data_fire = e14,
                  !.cpt_addr = e15]
  BY Zenon DEF UnitStep
<1> HIDE DEF e1, e2, e3, e4, e5, e6, e7, e8, e9, e10, e11, e12, e13, e14, e15
<1> DEFINE c1 == [c EXCEPT !.h2c_was = e1, !.c2h_was = e2, !.h2c_cpt_addr = e3]
           c2 == [c1 EXCEPT !.c2h_cpt_addr = e4, !.h2c_cpt_complete = e5, !.c2h_cpt_complete = e6]
           c3 == [c2 EXCEPT !.p2p_cpt_complete = e7, !.h2c_started = e8, !.c2h_started = e9]
           c4 == [c3 EXCEPT !.p2p_started = e10, !.cmd_valid = e11, !.data_valid = e12]
           c5 == [c4 EXCEPT !.cmd_fire = e13, !.data_fire = e14, !.cpt_addr = e15]
<1>7. UnitStep(c, in) = c5
  BY <1>6, Zenon
<1>8. c1 \in UnitType
  BY <1>2, <1>3 DEF UnitType
<1>9. c2 \in UnitType
  <2> HIDE DEF c1
  <2> QED
    BY <1>2, <1>3, <1>8 DEF UnitType
<1>10. c3 \in UnitType
  <2> HIDE DEF c2
  <2> QED
    BY <1>3, <1>4, <1>9 DEF UnitType
<1>11. c4 \in UnitType
  <2> HIDE DEF c3
  <2> QED
    BY <1>4, <1>5, <1>10 DEF UnitType
<1>12. c5 \in UnitType
  <2> HIDE DEF c4
  <2> QED
    BY <1>2, <1>5, <1>11 DEF UnitType
<1> QED
  BY <1>7, <1>12, Zenon

(* The edge in plain terms: a and b are the QDMA's two ready inputs. *)
UnitWires(p2p, a, b, began) ==
  /\ unit'.h2c_was = (h2c.at = "done") /\ ~unit'.c2h_was
  /\ unit'.h2c_cpt_addr = IF began THEN H2CFlag(h2c.n + 1) ELSE unit.h2c_cpt_addr
  /\ unit'.h2c_cpt_complete = ((Written(unit) /\ unit.h2c_started) \/ (unit.h2c_cpt_complete /\ ~began))
  /\ unit'.h2c_started = IF unit.h2c_started THEN ~Written(unit) ELSE HGo
  /\ unit'.cmd_valid = ((unit.cmd_valid \/ p2p \/ HGo) /\ ~(unit.cmd_valid /\ a))
  /\ unit'.data_valid = ((unit.data_valid \/ p2p \/ HGo) /\ ~(unit.data_valid /\ b))
  /\ unit'.cmd_fire = ((unit.cmd_fire \/ (unit.cmd_valid /\ a)) /\ ~Written(unit))
  /\ unit'.data_fire = ((unit.data_fire \/ (unit.data_valid /\ b)) /\ ~Written(unit))
  /\ unit'.cpt_addr = IF HGo THEN unit.h2c_cpt_addr ELSE IF p2p THEN reg.addr ELSE unit.cpt_addr
  /\ port'.cmds = IF unit.cmd_valid /\ a THEN Append(port.cmds, unit.cpt_addr) ELSE port.cmds
  /\ port'.beats = IF unit.data_valid /\ b THEN port.beats + 1 ELSE port.beats
  /\ clash' = (clash \/ (p2p /\ HGo) \/ ((p2p \/ HGo) /\ Outstanding))

ClientMoves(began) ==
  \/ /\ began /\ h2c.at = "idle" /\ h2c.n < Commands
     /\ h2c'.at = "busy" /\ h2c'.n = h2c.n + 1
  \/ /\ ~began /\ h2c'.n = h2c.n
     /\ \/ h2c'.at = h2c.at
        \/ h2c.at = "busy" /\ h2c'.at = "done"
        \/ h2c.at = "done" /\ unit.h2c_cpt_complete /\ h2c'.at = "idle"

CrossWires(p2p) ==
  /\ cross'.start[1] = reg.start
  /\ \A i \in 2 .. 4 : cross'.start[i] = cross.start[i - 1]
  /\ \A i \in 5 .. 7 : cross'.start[i] = cross.start[i]
  /\ cross'.length[1] = reg.length
  /\ \A i \in 2 .. 3 : cross'.length[i] = cross.length[i]
  /\ cross'.asked = cross.asked
  /\ cross'.seen = IF p2p THEN cross.asked ELSE cross.seen
  /\ UNCHANGED <<host, reg, left, ctr, flags>>

UserStep(p2p, a, b, began) ==
  (p2p => Asked) /\ UnitWires(p2p, a, b, began) /\ ClientMoves(began) /\ CrossWires(p2p)

UserTypes ==
  /\ cross \in [start : Seq(BOOLEAN), length : Seq(Nat),
                asked : BOOLEAN, seen : BOOLEAN, told : BOOLEAN, heard : BOOLEAN]
  /\ Len(cross.start) = 7 /\ Len(cross.length) = 3
  /\ h2c \in [at : {"idle", "busy", "done"}, n : 0 .. Commands]
  /\ unit \in UnitType /\ clash \in BOOLEAN

LEMMA ClientMovesIs ==
  ASSUME LinkTypes, NEW p2p, NEW ready, NEW began, NEW ended, AnEdge(p2p, ready, began, ended)
  PROVE  ClientMoves(began) /\ h2c' \in [at : {"idle", "busy", "done"}, n : 0 .. Commands]
<1>1. h2c \in [at : {"idle", "busy", "done"}, n : 0 .. Commands] /\ Commands \in Nat
  BY LengthAssumption DEF LinkTypes
<1>2. /\ began \in BOOLEAN /\ ended \in BOOLEAN
      /\ began => h2c.at = "idle" /\ h2c.n < Commands
      /\ ended => h2c.at = "busy"
      /\ h2c' = CASE began -> [at |-> "busy", n |-> h2c.n + 1]
                  [] ended -> [h2c EXCEPT !.at = "done"]
                  [] h2c.at = "done" /\ unit.h2c_cpt_complete -> [h2c EXCEPT !.at = "idle"]
                  [] OTHER -> h2c
  BY DEF AnEdge
<1>3. CASE began
  <2> DEFINE n == h2c.n + 1
  <2>1. n \in 0 .. Commands
    BY <1>1, <1>2, <1>3
  <2>2. h2c' = [at |-> "busy", n |-> n]
    BY <1>2, <1>3
  <2> HIDE DEF n
  <2>3. h2c' \in [at : {"idle", "busy", "done"}, n : 0 .. Commands] /\ h2c'.at = "busy" /\ h2c'.n = n
    BY <2>1, <2>2
  <2> QED
    BY <1>2, <1>3, <2>3 DEF ClientMoves, n
<1>4. CASE ~began /\ ended
  <2>1. h2c' = [h2c EXCEPT !.at = "done"]
    BY <1>2, <1>4
  <2> QED
    BY <1>1, <1>2, <1>4, <2>1 DEF ClientMoves
<1>5. CASE ~began /\ ~ended /\ h2c.at = "done" /\ unit.h2c_cpt_complete
  <2>1. h2c' = [h2c EXCEPT !.at = "idle"]
    BY <1>2, <1>5
  <2> QED
    BY <1>1, <1>2, <1>5, <2>1 DEF ClientMoves
<1>6. CASE ~began /\ ~ended /\ ~(h2c.at = "done" /\ unit.h2c_cpt_complete)
  <2>1. h2c' = h2c
    BY <1>2, <1>6
  <2> QED
    BY <1>1, <1>2, <1>6, <2>1 DEF ClientMoves
<1> QED
  BY <1>2, <1>3, <1>4, <1>5, <1>6

LEMMA UserStepIs ==
  ASSUME P2PInv, NEW p2p \in BOOLEAN, NEW ready \in BOOLEAN \X BOOLEAN, UserEdge(p2p, ready)
  PROVE  \E a, b, began \in BOOLEAN : UserStep(p2p, a, b, began) /\ UserTypes'
<1>1. PICK began \in BOOLEAN, ended \in BOOLEAN : AnEdge(p2p, ready, began, ended)
  BY UserEdgeIs
<1>2. LinkTypes /\ UnitRight
  BY DEF P2PInv
<1>3. PICK a \in BOOLEAN, b \in BOOLEAN : a = ready[1] /\ b = ready[2]
  OBVIOUS
<1>4. UnitWires(p2p, a, b, began)
  <2>1. UnitWires(p2p, ready[1], ready[2], began)
    BY <1>1, <1>2, UserWires, Zenon DEF UnitWires
  <2> QED
    BY <1>3, <2>1, Zenon
<1>5. ClientMoves(began) /\ h2c' \in [at : {"idle", "busy", "done"}, n : 0 .. Commands]
  BY <1>1, <1>2, ClientMovesIs
<1>6. /\ CrossWires(p2p)
      /\ cross' \in [start : Seq(BOOLEAN), length : Seq(Nat),
                     asked : BOOLEAN, seen : BOOLEAN, told : BOOLEAN, heard : BOOLEAN]
      /\ Len(cross'.start) = 7 /\ Len(cross'.length) = 3
  <2>1. UNCHANGED <<host, reg, left, ctr, flags>>
    BY <1>1 DEF AnEdge
  <2> QED
    BY <1>1, <1>2, <2>1, UserCross, Zenon DEF CrossWires
<1>7. p2p => Asked
  BY <1>1 DEF AnEdge
<1>8. unit' \in UnitType
  <2>1. PICK in : Sampled(in, began, p2p, ready)
    BY DEF Sampled
  <2>2. SampledAre(in, began, p2p, ready)
    BY <1>1, <2>1, InputsAre, Zenon
  <2>3. unit' = UnitStep(unit, in)
    BY <1>1, <2>1 DEF AnEdge, Sampled
  <2>4. unit \in UnitType /\ reg.addr \in Addrs
    BY <1>2 DEF UnitRight, LinkTypes
  <2>5. began => H2CFlag(h2c.n + 1) \in Addrs
    <3>1. began => h2c.n + 1 \in 1 .. Commands
      <4>1. h2c.n \in Nat /\ Commands \in Nat
        BY <1>2, LengthAssumption DEF LinkTypes
      <4>2. began => h2c.n < Commands
        BY <1>1, Zenon DEF AnEdge
      <4> QED
        BY <4>1, <4>2
    <3> QED
      BY <3>1 DEF Addrs, Flags
  <2>6. /\ began \in BOOLEAN /\ p2p \in BOOLEAN /\ FALSE \in BOOLEAN
        /\ (h2c.at = "done") \in BOOLEAN /\ ready[1] \in BOOLEAN /\ ready[2] \in BOOLEAN
    OBVIOUS
  <2>7. InputsTyped(in)
    BY <2>2, <2>4, <2>5, <2>6, Zenon DEF SampledAre, InputsTyped
  <2> QED
    BY <2>3, <2>4, <2>7, UnitStepTyped
<1>9. clash' \in BOOLEAN
  BY <1>2, <1>4 DEF UnitWires, LinkTypes
<1> QED
  BY <1>4, <1>5, <1>6, <1>7, <1>8, <1>9, Zenon DEF UserStep, UserTypes

(* The unit is asked for a request's flag while the host waits for it, with  *)
(* the request's address in the register and all its beats there.           *)
LEMMA AskedFor ==
  ASSUME P2PInv, Asked
  PROVE  /\ Waits /\ ~host.pulsed /\ Requested
         /\ reg.addr = P2PFlag(host.n) /\ host.n \in 1 .. Requests
<1>1. Waits /\ ~host.pulsed /\ Requested
  BY DEF P2PInv, CounterRight, Quiet, Deaf, Counting, Reached
<1>2. reg.addr = P2PFlag(host.n)
  BY <1>1 DEF P2PInv, HostWrote, Waits
<1> QED
  BY <1>1, <1>2 DEF P2PInv, LinkTypes

LEMMA UserKeepsTypes ==
  ASSUME P2PInv, NEW p2p \in BOOLEAN, NEW a \in BOOLEAN, NEW b \in BOOLEAN, NEW began \in BOOLEAN,
         UserStep(p2p, a, b, began), UserTypes',
         port' = [cmds |-> port'.cmds, beats |-> port'.beats]
  PROVE  LinkTypes'
<1>1. /\ LinkTypes /\ UnitRight /\ port.cmds \in Seq(Flags) /\ port.beats \in Nat
  BY DEF P2PInv, LinkTypes
<1>2. port'.cmds \in Seq(Flags)
  <2>1. unit.cmd_valid => unit.cpt_addr \in Flags
    BY <1>1 DEF UnitRight
  <2>2. port'.cmds = port.cmds \/ (unit.cmd_valid /\ port'.cmds = Append(port.cmds, unit.cpt_addr))
    BY DEF UserStep, UnitWires
  <2>3. CASE port'.cmds = port.cmds
    BY <1>1, <2>3
  <2>4. CASE unit.cmd_valid /\ port'.cmds = Append(port.cmds, unit.cpt_addr)
    BY <1>1, <2>1, <2>4, AppendProperties
  <2> QED
    BY <2>2, <2>3, <2>4
<1>3. port'.beats \in Nat
  <2>1. port'.beats = port.beats \/ port'.beats = port.beats + 1
    BY DEF UserStep, UnitWires
  <2> QED
    BY <1>1, <2>1
<1>4. port' \in [cmds : Seq(Flags), beats : Nat]
  <2>1. PICK cmds, beats : cmds = port'.cmds /\ beats = port'.beats
    OBVIOUS
  <2>2. port' = [cmds |-> cmds, beats |-> beats] /\ cmds \in Seq(Flags) /\ beats \in Nat
    BY <1>2, <1>3, <2>1
  <2> QED
    BY <2>2
<1>5. UNCHANGED <<host, reg, left, ctr, flags>>
  BY DEF UserStep, CrossWires
<1> QED
  BY <1>1, <1>4, <1>5 DEF LinkTypes, UserTypes

LEMMA UserKeepsUnitRight ==
  ASSUME P2PInv, NEW p2p \in BOOLEAN, NEW a \in BOOLEAN, NEW b \in BOOLEAN, NEW began \in BOOLEAN,
         UserStep(p2p, a, b, began), UserTypes'
  PROVE  UnitRight'
<1>1. /\ UnitRight /\ UnitWires(p2p, a, b, began) /\ ClientMoves(began)
      /\ h2c.n \in 0 .. Commands /\ Commands \in Nat /\ (p2p => Asked)
  BY LengthAssumption DEF P2PInv, UserStep, LinkTypes
<1>2. unit'.cmd_valid => unit'.cpt_addr \in Flags
  <2>1. CASE HGo
    <3>1. unit'.cpt_addr = H2CFlag(h2c.n) /\ h2c.n \in 1 .. Commands
      BY <1>1, <2>1 DEF UnitWires, HGo, UnitRight
    <3> QED
      BY <3>1 DEF Flags
  <2>2. CASE ~HGo /\ p2p
    <3>1. unit'.cpt_addr = P2PFlag(host.n) /\ host.n \in 1 .. Requests
      BY <1>1, <2>2, AskedFor, Zenon DEF UnitWires
    <3> QED
      BY <3>1 DEF Flags
  <2>3. CASE ~HGo /\ ~p2p
    BY <1>1, <2>3, Zenon DEF UnitWires, UnitRight
  <2> QED
    BY <2>1, <2>2, <2>3
<1>3. h2c'.at # "idle" => h2c'.n > 0 /\ unit'.h2c_cpt_addr = H2CFlag(h2c'.n)
  <2>1. CASE began
    BY <1>1, <2>1 DEF UnitWires, ClientMoves
  <2>2. CASE ~began
    BY <1>1, <2>2 DEF UnitWires, ClientMoves, UnitRight
  <2> QED
    BY <2>1, <2>2
<1>4. \A n \in 1 .. Requests : unit'.h2c_cpt_addr # P2PFlag(n)
  BY <1>1, FlagsDiffer, Zenon DEF UnitWires, UnitRight
<1>5. ~unit'.c2h_was /\ unit' \in UnitType
  BY <1>1 DEF UnitWires, UserTypes
<1> QED
  BY <1>2, <1>3, <1>4, <1>5, Zenon DEF UnitRight

LEMMA UserKeepsLengthFirst ==
  ASSUME LengthFirst, NEW p2p, CrossWires(p2p)
  PROVE  LengthFirst'
<1>1. reg' = reg /\ ctr' = ctr
  BY DEF CrossWires
<1>2. ASSUME NEW i \in 1 .. 7, cross'.start[i]
      PROVE  reg.length # 0
  <2>1. CASE i = 1
    BY <1>2, <2>1 DEF CrossWires, LengthFirst
  <2>2. CASE i \in 2 .. 4
    <3>1. cross.start[i - 1] /\ i - 1 \in 1 .. 7
      BY <1>2, <2>2 DEF CrossWires
    <3> QED
      BY <3>1, Zenon DEF LengthFirst
  <2>3. CASE i \in 5 .. 7
    BY <1>2, <2>3 DEF CrossWires, LengthFirst
  <2> QED
    BY <2>1, <2>2, <2>3
<1>3. cross'.length[1] = reg.length /\ \A i \in 2 .. 3 : cross'.length[i] = cross.length[i]
  BY DEF CrossWires
<1>4. \A i \in 5 .. 7 : cross'.start[i] => cross'.length[2] # 0
  BY <1>3 DEF CrossWires, LengthFirst
<1>5. cross'.start[7] => cross'.length[3] # 0
  BY <1>3 DEF CrossWires, LengthFirst
<1>6. ctr.working => \A i \in 1 .. 3 : cross'.length[i] # 0
  <2>1. \A i \in 1 .. 3 : i = 1 \/ i \in 2 .. 3
    OBVIOUS
  <2> QED
    BY <1>3, <2>1, Zenon DEF LengthFirst
<1> QED
  BY <1>1, <1>2, <1>3, <1>4, <1>5, <1>6, Zenon DEF LengthFirst

(* Nothing becomes used at an edge but the flag that is asked for. *)
LEMMA UserUses ==
  ASSUME P2PInv, NEW p2p \in BOOLEAN, NEW a \in BOOLEAN, NEW b \in BOOLEAN, NEW began \in BOOLEAN,
         UserStep(p2p, a, b, began), NEW n \in 1 .. Requests, Used(n)'
  PROVE  Used(n) \/ (p2p /\ n = host.n)
<1>1. /\ UnitRight /\ UnitWires(p2p, a, b, began) /\ flags' = flags /\ (p2p => Asked)
      /\ port.cmds \in Seq(Flags)
  BY DEF P2PInv, UserStep, CrossWires, LinkTypes
<1>2. CASE P2PFlag(n) \in flags'
  BY <1>1, <1>2 DEF Used
<1>3. CASE unit'.cpt_addr = P2PFlag(n)
  <2>1. CASE HGo
    <3>1. unit.h2c_cpt_addr = P2PFlag(n)
      BY <1>1, <1>3, <2>1, Zenon DEF UnitWires
    <3> QED
      BY <1>1, <3>1, Zenon DEF UnitRight
  <2>2. CASE ~HGo /\ p2p
    <3>1. P2PFlag(n) = P2PFlag(host.n)
      BY <1>1, <1>3, <2>2, AskedFor, Zenon DEF UnitWires
    <3> QED
      BY <2>2, <3>1, FlagsDiffer, Zenon
  <2>3. CASE ~HGo /\ ~p2p
    <3>1. unit.cpt_addr = P2PFlag(n)
      BY <1>1, <1>3, <2>3, Zenon DEF UnitWires
    <3> QED
      BY <3>1, Zenon DEF Used
  <2> QED
    BY <2>1, <2>2, <2>3
<1>4. CASE \E i \in DOMAIN port'.cmds : port'.cmds[i] = P2PFlag(n)
  <2>1. CASE port'.cmds = port.cmds
    BY <1>4, <2>1, Zenon DEF Used
  <2>2. CASE unit.cmd_valid /\ port'.cmds = Append(port.cmds, unit.cpt_addr)
    <3>1. unit.cpt_addr \in Flags
      BY <1>1, <2>2 DEF UnitRight
    <3>2. /\ DOMAIN port.cmds = 1 .. Len(port.cmds) /\ Len(port.cmds) \in Nat
          /\ DOMAIN Append(port.cmds, unit.cpt_addr) = 1 .. Len(port.cmds) + 1
          /\ \A i \in 1 .. Len(port.cmds) : Append(port.cmds, unit.cpt_addr)[i] = port.cmds[i]
          /\ Append(port.cmds, unit.cpt_addr)[Len(port.cmds) + 1] = unit.cpt_addr
      BY <1>1, <3>1
    <3>3. PICK i \in 1 .. Len(port.cmds) + 1 : Append(port.cmds, unit.cpt_addr)[i] = P2PFlag(n)
      BY <1>4, <2>2, <3>2, Zenon
    <3>4. i \in 1 .. Len(port.cmds) \/ i = Len(port.cmds) + 1
      BY <3>2
    <3> QED
      BY <3>2, <3>3, <3>4, Zenon DEF Used
  <2> QED
    BY <1>1, <2>1, <2>2 DEF UnitWires
<1> QED
  BY <1>2, <1>3, <1>4 DEF Used

LEMMA UserKeepsUsedArrived ==
  ASSUME P2PInv, NEW p2p \in BOOLEAN, NEW a \in BOOLEAN, NEW b \in BOOLEAN, NEW began \in BOOLEAN,
         UserStep(p2p, a, b, began)
  PROVE  UsedArrived'
<1>1. SUFFICES ASSUME NEW n \in 1 .. Requests, Used(n)'
               PROVE  Arrived(n)'
  BY Zenon DEF UsedArrived
<1>2. UNCHANGED <<host, left>> /\ (p2p => Asked)
  BY DEF UserStep, CrossWires
<1>3. Used(n) => Arrived(n)
  BY DEF P2PInv, UsedArrived
<1>4. p2p /\ n = host.n => Arrived(n)
  BY <1>2, AskedFor DEF Arrived, Requested, Empty, Waits
<1>5. Arrived(n)
  BY <1>1, <1>3, <1>4, UserUses
<1> QED
  BY <1>2, <1>5 DEF Arrived

LEMMA UserKeepsCounterRight ==
  ASSUME P2PInv, NEW p2p \in BOOLEAN, NEW a \in BOOLEAN, NEW b \in BOOLEAN, NEW began \in BOOLEAN,
         UserStep(p2p, a, b, began)
  PROVE  CounterRight'
<1>1. /\ CounterRight /\ HostWrote /\ host.n \in 1 .. Requests
      /\ UNCHANGED <<host, reg, left, ctr, flags>> /\ (p2p => Asked)
      /\ cross'.asked = cross.asked /\ cross'.seen = IF p2p THEN cross.asked ELSE cross.seen
  BY DEF P2PInv, LinkTypes, UserStep, CrossWires
<1>2. Asked' <=> Asked /\ ~p2p
  BY <1>1 DEF Asked
<1>3. (Waits' <=> Waits) /\ (Empty' <=> Empty) /\ (Raised' <=> Raised)
  BY <1>1 DEF Waits, Empty, Raised
<1>4. ~p2p /\ ~Used(host.n) => ~Used(host.n)'
  BY <1>1, UserUses DEF Used
<1>5. Quiet => Quiet'
  BY <1>2, <1>3 DEF Quiet
<1>6. CASE ~Waits
  BY <1>1, <1>3, <1>5, <1>6 DEF CounterRight
<1>7. CASE Waits /\ host.pulsed
  <2>1. Deaf /\ ~reg.start
    BY <1>1, <1>7 DEF CounterRight, HostWrote, Waits
  <2>2. \A i \in 1 .. 7 : ~cross'.start[i]
    <3> SUFFICES ASSUME NEW i \in 1 .. 7 PROVE ~cross'.start[i]
      OBVIOUS
    <3>1. CASE i = 1
      BY <2>1, <3>1 DEF UserStep, CrossWires
    <3>2. CASE i \in 2 .. 4
      <4>1. cross'.start[i] = cross.start[i - 1] /\ i - 1 \in 1 .. 7
        BY <3>2 DEF UserStep, CrossWires
      <4> QED
        BY <2>1, <4>1, Zenon DEF Deaf
    <3>3. CASE i \in 5 .. 7
      BY <2>1, <3>3 DEF UserStep, CrossWires, Deaf
    <3> QED
      BY <3>1, <3>2, <3>3
  <2>3. Deaf'
    BY <1>1, <1>2, <1>3, <2>1, <2>2, Zenon DEF Deaf
  <2> QED
    BY <1>1, <1>3, <1>7, <2>3 DEF CounterRight
<1>8. CASE Waits /\ ~host.pulsed
  <2>1. StartHeld /\ (Counting \/ Reached \/ Requested \/ Quiet) /\ reg.length = Length[host.n]
    BY <1>1, <1>8 DEF CounterRight, HostWrote, Waits
  <2>2. \A i \in 1 .. 7 : cross'.start[i]
    <3> SUFFICES ASSUME NEW i \in 1 .. 7 PROVE cross'.start[i]
      OBVIOUS
    <3>1. CASE i = 1
      BY <2>1, <3>1 DEF UserStep, CrossWires, StartHeld
    <3>2. CASE i \in 2 .. 4
      <4>1. cross'.start[i] = cross.start[i - 1] /\ i - 1 \in 1 .. 7
        BY <3>2 DEF UserStep, CrossWires
      <4> QED
        BY <2>1, <4>1, Zenon DEF StartHeld
    <3>3. CASE i \in 5 .. 7
      BY <2>1, <3>3 DEF UserStep, CrossWires, StartHeld
    <3> QED
      BY <3>1, <3>2, <3>3
  <2>3. \A i \in 1 .. 3 : cross'.length[i] = Length[host.n]
    <3>1. \A i \in 1 .. 3 : i = 1 \/ i \in 2 .. 3
      OBVIOUS
    <3> QED
      BY <2>1, <3>1, Zenon DEF UserStep, CrossWires, StartHeld
  <2>4. StartHeld'
    BY <1>1, <2>1, <2>2, <2>3, Zenon DEF StartHeld
  <2>5. CASE Counting
    <3>1. ~p2p /\ ~Used(host.n)' /\ ~Asked'
      BY <1>1, <1>2, <1>4, <2>5 DEF Counting
    <3>2. Counting'
      BY <1>1, <2>5, <3>1 DEF Counting
    <3> QED
      BY <1>1, <1>3, <1>8, <2>4, <3>2 DEF CounterRight
  <2>6. CASE Reached
    <3>1. ~p2p /\ ~Used(host.n)' /\ ~Asked'
      BY <1>1, <1>2, <1>4, <2>6 DEF Reached
    <3>2. Reached'
      BY <1>3, <2>6, <3>1 DEF Reached
    <3> QED
      BY <1>1, <1>3, <1>8, <2>4, <3>2 DEF CounterRight
  <2>7. CASE Requested
    <3>1. CASE p2p
      <4>1. Quiet'
        BY <1>2, <1>3, <2>7, <3>1 DEF Requested, Quiet
      <4> QED
        BY <1>1, <1>3, <1>8, <2>4, <4>1 DEF CounterRight
    <3>2. CASE ~p2p
      <4>1. Requested'
        BY <1>2, <1>3, <1>4, <2>7, <3>2 DEF Requested
      <4> QED
        BY <1>1, <1>3, <1>8, <2>4, <4>1 DEF CounterRight
    <3> QED
      BY <3>1, <3>2
  <2>8. CASE Quiet
    BY <1>1, <1>3, <1>5, <1>8, <2>4, <2>8 DEF CounterRight
  <2> QED
    BY <2>1, <2>5, <2>6, <2>7, <2>8
<1> QED
  BY <1>6, <1>7, <1>8

(* The lists only grow at an edge. *)
LEMMA GrowingLists ==
  ASSUME NEW S, NEW s \in Seq(S), NEW x \in S
  PROVE  /\ DOMAIN s = 1 .. Len(s) /\ Len(s) \in Nat
         /\ DOMAIN Append(s, x) = 1 .. Len(s) + 1 /\ Len(Append(s, x)) = Len(s) + 1
         /\ \A i \in DOMAIN s : i \in DOMAIN Append(s, x) /\ Append(s, x)[i] = s[i]
         /\ Len(s) + 1 \in DOMAIN Append(s, x) /\ Append(s, x)[Len(s) + 1] = x
OBVIOUS

LEMMA UserGrows ==
  ASSUME P2PInv, NEW p2p \in BOOLEAN, NEW a \in BOOLEAN, NEW b \in BOOLEAN, NEW began \in BOOLEAN,
         UserStep(p2p, a, b, began)
  PROVE  /\ \A i \in DOMAIN port.cmds : i \in DOMAIN port'.cmds /\ port'.cmds[i] = port.cmds[i]
         /\ unit.cmd_valid /\ a => \E i \in DOMAIN port'.cmds : port'.cmds[i] = unit.cpt_addr
         /\ Len(port'.cmds) = Len(port.cmds) + One(unit.cmd_valid /\ a)
         /\ port'.beats = port.beats + One(unit.data_valid /\ b)
         /\ Len(port.cmds) \in Nat /\ port.beats \in Nat /\ DOMAIN port.cmds = 1 .. Len(port.cmds)
<1>1. /\ UnitRight /\ UnitWires(p2p, a, b, began)
      /\ port.cmds \in Seq(Flags) /\ port.beats \in Nat
  BY DEF P2PInv, UserStep, LinkTypes
<1>2. port'.beats = port.beats + One(unit.data_valid /\ b)
  BY <1>1 DEF UnitWires, One
<1>3. CASE ~(unit.cmd_valid /\ a)
  <2>1. port'.cmds = port.cmds /\ One(unit.cmd_valid /\ a) = 0
    BY <1>1, <1>3, Zenon DEF UnitWires, One
  <2>2. Len(port.cmds) \in Nat /\ DOMAIN port.cmds = 1 .. Len(port.cmds)
    BY <1>1, LenProperties
  <2>3. Len(port'.cmds) = Len(port.cmds) + One(unit.cmd_valid /\ a)
    BY <2>1, <2>2
  <2>4. \A i \in DOMAIN port.cmds : i \in DOMAIN port'.cmds /\ port'.cmds[i] = port.cmds[i]
    BY <2>1, Zenon
  <2> QED
    BY <1>1, <1>2, <1>3, <2>2, <2>3, <2>4
<1>4. CASE unit.cmd_valid /\ a
  <2>1. port'.cmds = Append(port.cmds, unit.cpt_addr) /\ One(unit.cmd_valid /\ a) = 1
    BY <1>1, <1>4, Zenon DEF UnitWires, One
  <2>2. unit.cpt_addr \in Flags
    BY <1>1, <1>4 DEF UnitRight
  <2>3. /\ DOMAIN port.cmds = 1 .. Len(port.cmds) /\ Len(port.cmds) \in Nat
        /\ Len(port'.cmds) = Len(port.cmds) + 1
        /\ \A i \in DOMAIN port.cmds : i \in DOMAIN port'.cmds /\ port'.cmds[i] = port.cmds[i]
        /\ Len(port.cmds) + 1 \in DOMAIN port'.cmds /\ port'.cmds[Len(port.cmds) + 1] = unit.cpt_addr
    BY <1>1, <2>1, <2>2, GrowingLists
  <2> QED
    BY <1>1, <1>2, <2>1, <2>3, Zenon
<1> QED
  BY <1>3, <1>4

(* What the QDMA has it keeps until the flag is written. *)
LEMMA UserKeepsDelivered ==
  ASSUME P2PInv, NEW p2p \in BOOLEAN, NEW a \in BOOLEAN, NEW b \in BOOLEAN, NEW began \in BOOLEAN,
         UserStep(p2p, a, b, began), NEW n, NEW m, m = n
  PROVE  (Delivered(n) => Delivered(m)') /\ (Accepted(n) => Accepted(m)')
<1>1. /\ flags' = flags
      /\ \A i \in DOMAIN port.cmds : i \in DOMAIN port'.cmds /\ port'.cmds[i] = port.cmds[i]
      /\ port.beats \in Nat /\ (port'.beats = port.beats \/ port'.beats = port.beats + 1)
  BY UserGrows DEF UserStep, CrossWires, UnitWires
<1>2. \A i \in 1 .. port.beats : i \in 1 .. port'.beats
  BY <1>1
<1>3. Delivered(n) => Delivered(m)'
  BY <1>1, <1>2, Zenon DEF Delivered
<1>4. Accepted(n) => Accepted(m)'
  BY <1>1, Zenon DEF Accepted
<1> QED
  BY <1>3, <1>4

(* Without a clash, a request finds no write outstanding. *)
LEMMA UserKeepsBalanced ==
  ASSUME P2PInv, NEW p2p \in BOOLEAN, NEW a \in BOOLEAN, NEW b \in BOOLEAN, NEW began \in BOOLEAN,
         UserStep(p2p, a, b, began), ~clash'
  PROVE  Balanced' /\ ((Busy /\ ~Written(unit)) => Busy') /\ (HGo => Busy')
<1>1. /\ UnitWires(p2p, a, b, began) /\ ~clash /\ ~(p2p /\ HGo)
      /\ (p2p \/ HGo) => ~Outstanding
  BY DEF UserStep, UnitWires
<1>2. Balanced
  BY <1>1 DEF P2PInv, UnclashedRight
<1>3. /\ unit.cmd_valid \in BOOLEAN /\ unit.data_valid \in BOOLEAN
      /\ unit.cmd_fire \in BOOLEAN /\ unit.data_fire \in BOOLEAN
  BY DEF P2PInv, UnitRight, UnitType
<1>4. /\ unit'.cmd_valid = ((unit.cmd_valid \/ p2p \/ HGo) /\ ~(unit.cmd_valid /\ a))
      /\ unit'.data_valid = ((unit.data_valid \/ p2p \/ HGo) /\ ~(unit.data_valid /\ b))
      /\ unit'.cmd_fire = ((unit.cmd_fire \/ (unit.cmd_valid /\ a)) /\ ~Written(unit))
      /\ unit'.data_fire = ((unit.data_fire \/ (unit.data_valid /\ b)) /\ ~Written(unit))
  BY <1>1 DEF UnitWires
<1>5. /\ Len(port'.cmds) = Len(port.cmds) + One(unit.cmd_valid /\ a)
      /\ port'.beats = port.beats + One(unit.data_valid /\ b)
      /\ Len(port.cmds) \in Nat /\ port.beats \in Nat
  BY UserGrows
<1>6. Len(port.cmds) + One(unit.data_fire) = port.beats + One(unit.cmd_fire)
  BY <1>2 DEF Balanced
<1>7. CASE Unasked
  <2>1. ~Busy
    BY <1>7 DEF Unasked, Busy, Half
  <2>2. /\ unit'.cmd_valid = (p2p \/ HGo) /\ unit'.data_valid = (p2p \/ HGo)
        /\ ~unit'.cmd_fire /\ ~unit'.data_fire
    BY <1>4, <1>7 DEF Unasked
  <2>3. (p2p \/ HGo) => Busy'
    BY <2>2 DEF Busy, Half
  <2>4. ~(p2p \/ HGo) => Unasked'
    BY <2>2 DEF Unasked
  <2>5. /\ One(unit.cmd_valid /\ a) = 0 /\ One(unit.data_valid /\ b) = 0
        /\ One(unit.cmd_fire) = 0 /\ One(unit.data_fire) = 0
        /\ One(unit'.cmd_fire) = 0 /\ One(unit'.data_fire) = 0
    BY <1>7, <2>2 DEF Unasked, One
  <2>6. Len(port'.cmds) + One(unit'.data_fire) = port'.beats + One(unit'.cmd_fire)
    BY <1>5, <1>6, <2>5
  <2> QED
    BY <2>1, <2>3, <2>4, <2>6 DEF Balanced
<1>8. CASE Busy /\ Written(unit)
  <2>1. unit.cmd_fire /\ unit.data_fire /\ ~unit.cmd_valid /\ ~unit.data_valid
    BY <1>8 DEF Busy, Half, Written
  <2>2. /\ unit'.cmd_valid = (p2p \/ HGo) /\ unit'.data_valid = (p2p \/ HGo)
        /\ ~unit'.cmd_fire /\ ~unit'.data_fire
    BY <1>4, <1>8, <2>1
  <2>3. (p2p \/ HGo) => Busy'
    BY <2>2 DEF Busy, Half
  <2>4. ~(p2p \/ HGo) => Unasked'
    BY <2>2 DEF Unasked
  <2>5. /\ One(unit.cmd_valid /\ a) = 0 /\ One(unit.data_valid /\ b) = 0
        /\ One(unit.cmd_fire) = 1 /\ One(unit.data_fire) = 1
        /\ One(unit'.cmd_fire) = 0 /\ One(unit'.data_fire) = 0
    BY <2>1, <2>2 DEF One
  <2>6. Len(port'.cmds) + One(unit'.data_fire) = port'.beats + One(unit'.cmd_fire)
    BY <1>5, <1>6, <2>5
  <2> QED
    BY <1>8, <2>3, <2>4, <2>6 DEF Balanced
<1>9. CASE Busy /\ ~Written(unit)
  <2>1. ~p2p /\ ~HGo
    BY <1>1, <1>3, <1>9 DEF Outstanding, Busy, Half
  <2>2. /\ unit'.cmd_valid = (unit.cmd_valid /\ ~a) /\ unit'.data_valid = (unit.data_valid /\ ~b)
        /\ unit'.cmd_fire = (unit.cmd_fire \/ (unit.cmd_valid /\ a))
        /\ unit'.data_fire = (unit.data_fire \/ (unit.data_valid /\ b))
    BY <1>4, <1>9, <2>1
  <2>3. Busy'
    BY <1>3, <1>9, <2>2 DEF Busy, Half
  <2>4. One(unit'.cmd_fire) = One(unit.cmd_fire) + One(unit.cmd_valid /\ a)
    BY <1>3, <1>9, <2>2 DEF Busy, Half, One
  <2>5. One(unit'.data_fire) = One(unit.data_fire) + One(unit.data_valid /\ b)
    BY <1>3, <1>9, <2>2 DEF Busy, Half, One
  <2>6. /\ One(unit.cmd_fire) \in Nat /\ One(unit.data_fire) \in Nat
        /\ One(unit.cmd_valid /\ a) \in Nat /\ One(unit.data_valid /\ b) \in Nat
    BY DEF One
  <2>7. Len(port'.cmds) + One(unit'.data_fire) = port'.beats + One(unit'.cmd_fire)
    <3> DEFINE cf == One(unit.cmd_fire)
               df == One(unit.data_fire)
               c  == One(unit.cmd_valid /\ a)
               d  == One(unit.data_valid /\ b)
               cn == One(unit'.cmd_fire)
               dn == One(unit'.data_fire)
               l  == Len(port.cmds)
               ln == Len(port'.cmds)
    <3>1. /\ cf \in Nat /\ df \in Nat /\ c \in Nat /\ d \in Nat /\ l \in Nat /\ port.beats \in Nat
          /\ cn = cf + c /\ dn = df + d /\ ln = l + c /\ port'.beats = port.beats + d
          /\ l + df = port.beats + cf
      BY <1>5, <1>6, <2>4, <2>5, <2>6, Zenon
    <3> HIDE DEF cf, df, c, d, cn, dn, l, ln
    <3>2. ln + dn = port'.beats + cn
      BY <3>1
    <3> QED
      BY <3>2 DEF cn, dn, ln
  <2> QED
    BY <2>1, <2>3, <2>7 DEF Balanced
<1> QED
  BY <1>2, <1>7, <1>8, <1>9 DEF Balanced

LEMMA UserKeepsH2cRight ==
  ASSUME P2PInv, NEW p2p \in BOOLEAN, NEW a \in BOOLEAN, NEW b \in BOOLEAN, NEW began \in BOOLEAN,
         UserStep(p2p, a, b, began), ~clash'
  PROVE  H2cRight'
<1>1. /\ UnitRight /\ UnitWires(p2p, a, b, began) /\ ClientMoves(began) /\ ~clash
      /\ (p2p \/ HGo) => ~Outstanding
      /\ h2c.n \in 0 .. Commands /\ Commands \in Nat /\ h2c.at \in {"idle", "busy", "done"}
  BY LengthAssumption DEF P2PInv, UserStep, UnitWires, LinkTypes
<1>2. Balanced /\ H2cRight
  BY <1>1 DEF P2PInv, UnclashedRight
<1>3. /\ unit.h2c_started \in BOOLEAN /\ unit.h2c_cpt_complete \in BOOLEAN
      /\ unit.h2c_was \in BOOLEAN /\ unit.cmd_fire \in BOOLEAN /\ unit.cmd_valid \in BOOLEAN
  BY <1>1 DEF UnitRight, UnitType
<1>4. ASSUME NEW n PROVE \A m : m = n => ((Delivered(n) => Delivered(m)') /\ (Accepted(n) => Accepted(m)'))
  BY UserKeepsDelivered
<1>5. CASE began
  <2>1. /\ h2c.at = "idle" /\ h2c'.at = "busy" /\ h2c'.n = h2c.n + 1
        /\ ~unit.h2c_started
    BY <1>1, <1>2, <1>5 DEF ClientMoves, H2cRight
  <2>2. NotAsked'
    BY <1>1, <1>3, <1>5, <2>1 DEF UnitWires, NotAsked, HGo
  <2>3. \A n \in 1 .. h2c'.n : n < h2c'.n => Delivered(n)'
    <3> SUFFICES ASSUME NEW n \in 1 .. h2c'.n, n < h2c'.n PROVE Delivered(n)'
      OBVIOUS
    <3>1. n \in 1 .. h2c.n /\ (n < h2c.n \/ n = h2c.n) /\ h2c.n > 0
      BY <1>1, <2>1
    <3>2. Delivered(n)
      BY <1>2, <2>1, <3>1 DEF H2cRight
    <3> QED
      BY <1>4, <3>2
  <2> QED
    BY <2>1, <2>2, <2>3 DEF H2cRight
<1>6. CASE ~began
  <2>1. h2c'.n = h2c.n
    BY <1>1, <1>6 DEF ClientMoves
  <2>2. \A n \in 1 .. h2c'.n : n < h2c'.n => Delivered(n)'
    <3> SUFFICES ASSUME NEW n \in 1 .. h2c'.n, n < h2c'.n PROVE Delivered(n)'
      OBVIOUS
    <3>1. Delivered(n)
      BY <1>2, <2>1 DEF H2cRight
    <3> QED
      BY <1>4, <3>1
  <2>3. (Delivered(h2c.n) => Delivered(h2c.n)') /\ (Accepted(h2c.n) => Accepted(h2c.n)')
    <3>1. PICK n : n = h2c.n
      OBVIOUS
    <3>2. (Delivered(n) => Delivered(h2c.n)') /\ (Accepted(n) => Accepted(h2c.n)')
      <4>1. h2c'.n = n
        BY <2>1, <3>1
      <4>2. (Delivered(n) => Delivered(n)') /\ (Accepted(n) => Accepted(n)')
        BY UserKeepsDelivered
      <4> QED
        BY <4>1, <4>2 DEF Delivered, Accepted
    <3> QED
      BY <3>1, <3>2
  <2>4. CASE h2c.at = "idle"
    <3>1. h2c'.at = "idle" /\ ~unit.h2c_started /\ unit.h2c_cpt_complete /\ ~HGo
      BY <1>1, <1>2, <1>6, <2>4 DEF ClientMoves, H2cRight, HGo
    <3>2. ~unit'.h2c_started /\ unit'.h2c_cpt_complete
      BY <1>1, <1>6, <3>1 DEF UnitWires
    <3>3. h2c'.n > 0 => Delivered(h2c.n)'
      BY <1>2, <2>1, <2>3, <2>4 DEF H2cRight
    <3> QED
      BY <2>2, <3>1, <3>2, <3>3 DEF H2cRight
  <2>5. CASE h2c.at = "busy"
    <3>1. NotAsked /\ ~HGo /\ (h2c'.at = "busy" \/ h2c'.at = "done")
      BY <1>1, <1>2, <1>6, <2>5 DEF ClientMoves, H2cRight, HGo
    <3>2. NotAsked'
      BY <1>1, <2>5, <3>1 DEF UnitWires, NotAsked
    <3> QED
      BY <2>2, <3>1, <3>2 DEF H2cRight
  <2>6. CASE h2c.at = "done"
    <3>1. /\ unit'.h2c_was
          /\ h2c'.at = "done" \/ (unit.h2c_cpt_complete /\ h2c'.at = "idle")
      BY <1>1, <1>6, <2>6 DEF ClientMoves, UnitWires
    <3>2. CASE NotAsked
      <4>1. HGo
        BY <2>6, <3>2 DEF HGo, NotAsked
      <4>2. h2c'.at = "done" /\ unit'.h2c_started /\ ~unit'.h2c_cpt_complete
        BY <1>1, <3>1, <3>2, <4>1 DEF NotAsked, UnitWires
      <4>3. Busy'
        BY <4>1, UserKeepsBalanced
      <4>4. unit'.cpt_addr = H2CFlag(h2c'.n)
        BY <1>1, <2>1, <2>6, <4>1, Zenon DEF UnitWires, UnitRight
      <4>5. ~unit'.cmd_fire
        <5>1. Unasked \/ Written(unit)
          BY <1>1, <4>1 DEF Outstanding, Unasked
        <5>2. CASE Written(unit)
          BY <1>1, <5>2 DEF UnitWires
        <5>3. CASE Unasked
          BY <1>1, <5>3 DEF UnitWires, Unasked
        <5> QED
          BY <5>1, <5>2, <5>3
      <4>6. Writing'
        BY <3>1, <4>2, <4>3, <4>4, <4>5 DEF Writing
      <4> QED
        BY <2>2, <4>2, <4>6 DEF H2cRight
    <3>3. CASE Writing
      <4>1. ~HGo /\ h2c'.at = "done" /\ Busy
        BY <3>1, <3>3 DEF Writing, HGo
      <4>2. CASE Written(unit)
        <5>1. ~unit'.h2c_started /\ unit'.h2c_cpt_complete
          BY <1>1, <3>3, <4>2 DEF Writing, UnitWires
        <5>2. Accepted(h2c.n)
          BY <3>3, <4>2 DEF Writing, Written
        <5>3. Len(port.cmds) = port.beats /\ DOMAIN port.cmds = 1 .. port.beats
          <6>1. /\ Len(port.cmds) + 1 = port.beats + 1
                /\ Len(port.cmds) \in Nat /\ port.beats \in Nat
                /\ DOMAIN port.cmds = 1 .. Len(port.cmds)
            BY <1>2, <4>2, UserGrows DEF Balanced, Written, One
          <6> QED
            BY <6>1
        <5>4. Delivered(h2c.n)
          BY <5>2, <5>3, Zenon DEF Accepted, Delivered
        <5>5. Finished'
          BY <2>3, <5>1, <5>4 DEF Finished
        <5> QED
          BY <2>2, <3>1, <4>1, <5>5 DEF H2cRight
      <4>3. CASE ~Written(unit)
        <5>1. unit'.h2c_started /\ ~unit'.h2c_cpt_complete
          BY <1>1, <3>3, <4>3 DEF Writing, UnitWires
        <5>2. Busy'
          BY <4>1, <4>3, UserKeepsBalanced
        <5>3. ~p2p
          BY <1>1, <4>1, <4>3 DEF Outstanding, Busy, Half
        <5>4. unit'.cpt_addr = unit.cpt_addr /\ unit.cpt_addr = H2CFlag(h2c.n)
          BY <1>1, <3>3, <4>1, <5>3, Zenon DEF UnitWires, Writing
        <5>5. unit'.cmd_fire => Accepted(h2c.n)'
          <6>1. unit'.cmd_fire => unit.cmd_fire \/ (unit.cmd_valid /\ a)
            BY <1>1, Zenon DEF UnitWires
          <6>2. unit.cmd_fire => Accepted(h2c.n)'
            BY <2>3, <3>3 DEF Writing
          <6>3. unit.cmd_valid /\ a => \E i \in DOMAIN port'.cmds : port'.cmds[i] = H2CFlag(h2c'.n)
            BY <2>1, <5>4, UserGrows
          <6> QED
            BY <6>1, <6>2, <6>3 DEF Accepted
        <5>6. Writing'
          BY <2>1, <3>1, <5>1, <5>2, <5>4, <5>5 DEF Writing
        <5> QED
          BY <2>2, <4>1, <5>6 DEF H2cRight
      <4> QED
        BY <4>2, <4>3
    <3>4. CASE Finished /\ unit.h2c_was
      <4>1. ~HGo /\ ~unit.h2c_started /\ unit.h2c_cpt_complete /\ Delivered(h2c.n)
        BY <3>4 DEF Finished, HGo
      <4>2. ~unit'.h2c_started /\ unit'.h2c_cpt_complete
        BY <1>1, <1>6, <4>1 DEF UnitWires
      <4>3. Finished'
        BY <2>3, <4>1, <4>2 DEF Finished
      <4> QED
        BY <2>2, <3>1, <4>3 DEF H2cRight, Finished
    <3> QED
      BY <1>2, <2>6, <3>2, <3>3, <3>4 DEF H2cRight
  <2> QED
    BY <1>1, <2>4, <2>5, <2>6
<1> QED
  BY <1>5, <1>6

LEMMA UserKeeps ==
  ASSUME P2PInv, NEW p2p \in BOOLEAN, NEW ready \in BOOLEAN \X BOOLEAN, UserEdge(p2p, ready)
  PROVE  P2PInv'
<1>1. PICK a \in BOOLEAN, b \in BOOLEAN, began \in BOOLEAN :
        UserStep(p2p, a, b, began) /\ UserTypes'
  BY UserStepIs
<1>2. port' = [cmds |-> port'.cmds, beats |-> port'.beats]
  <2>1. PICK cmds, beats : port' = [cmds |-> cmds, beats |-> beats]
    BY Zenon DEF UserEdge
  <2>2. port'.cmds = cmds /\ port'.beats = beats
    BY <2>1
  <2> QED
    BY <2>1, <2>2
<1>3. LinkTypes' /\ UnitRight' /\ UsedArrived' /\ CounterRight'
  BY <1>1, <1>2, UserKeepsTypes, UserKeepsUnitRight, UserKeepsUsedArrived, UserKeepsCounterRight
<1>4. HostWrote'
  BY <1>1 DEF P2PInv, UserStep, CrossWires, HostWrote
<1>5. LengthFirst'
  BY <1>1, UserKeepsLengthFirst DEF P2PInv, UserStep
<1>6. UnclashedRight'
  BY <1>1, UserKeepsBalanced, UserKeepsH2cRight DEF UnclashedRight
<1> QED
  BY <1>3, <1>4, <1>5, <1>6 DEF P2PInv

-----------------------------------------------------------------------------
(* The QDMA writes a flag. *)

LEMMA ShrinkingLists ==
  ASSUME NEW S, NEW s \in Seq(S), s # <<>>
  PROVE  /\ DOMAIN s = 1 .. Len(s) /\ Len(s) \in Nat \ {0} /\ Head(s) = s[1] /\ Head(s) \in S
         /\ Tail(s) \in Seq(S) /\ Len(Tail(s)) = Len(s) - 1 /\ DOMAIN Tail(s) = 1 .. Len(s) - 1
         /\ \A i \in 1 .. Len(s) - 1 : Tail(s)[i] = s[i + 1]
<1>1. DOMAIN s = 1 .. Len(s) /\ Len(s) \in Nat \ {0}
  BY EmptySeq, LenProperties
<1>2. /\ Head(s) \in S /\ Tail(s) \in Seq(S) /\ Len(Tail(s)) = Len(s) - 1
      /\ \A i \in 1 .. Len(Tail(s)) : Tail(s)[i] = s[i + 1]
  BY HeadTailProperties
<1>3. DOMAIN Tail(s) = 1 .. Len(s) - 1
  BY <1>2, LenProperties
<1>4. Head(s) = s[1]
  OBVIOUS
<1> QED
  BY <1>1, <1>2, <1>3, <1>4

Shrinks ==
  /\ port.cmds # <<>> /\ port.beats > 0
  /\ port'.cmds = Tail(port.cmds) /\ port'.beats = port.beats - 1
  /\ flags' = flags \cup {Head(port.cmds)}
  /\ UNCHANGED <<host, reg, left, cross, ctr, unit, h2c, clash>>

LEMMA WriteKeepsLists ==
  ASSUME LinkTypes, Shrinks, NEW f
  PROVE  /\ \A n \in 1 .. port'.beats : n + 1 \in 1 .. port.beats
         /\ (\E i \in DOMAIN port'.cmds : port'.cmds[i] = f)
              => \E i \in DOMAIN port.cmds : port.cmds[i] = f
         /\ (\E i \in DOMAIN port.cmds : port.cmds[i] = f)
              => f \in flags' \/ \E i \in DOMAIN port'.cmds : port'.cmds[i] = f
         /\ (\E i \in 1 .. port.beats : i \in DOMAIN port.cmds /\ port.cmds[i] = f)
              => f \in flags' \/ \E i \in 1 .. port'.beats : i \in DOMAIN port'.cmds /\ port'.cmds[i] = f
         /\ f \in flags' => f \in flags \/ \E i \in DOMAIN port.cmds : port.cmds[i] = f
<1>1. /\ port.cmds \in Seq(Flags) /\ port.cmds # <<>> /\ port.beats \in Nat /\ port.beats > 0
      /\ port'.cmds = Tail(port.cmds) /\ port'.beats = port.beats - 1
      /\ flags' = flags \cup {Head(port.cmds)}
  BY DEF LinkTypes, Shrinks
<1>2. PICK s, t, l : s = port.cmds /\ t = port'.cmds /\ l = Len(port.cmds)
  OBVIOUS
<1>3. /\ DOMAIN s = 1 .. l /\ l \in Nat \ {0} /\ Head(s) = s[1]
      /\ DOMAIN t = 1 .. l - 1 /\ \A i \in 1 .. l - 1 : t[i] = s[i + 1]
  BY <1>1, <1>2, ShrinkingLists
<1>4. \A n \in 1 .. port'.beats : n + 1 \in 1 .. port.beats
  BY <1>1
<1>5. ASSUME NEW i \in DOMAIN t, t[i] = f PROVE \E j \in DOMAIN s : s[j] = f
  <2>1. i + 1 \in 1 .. l /\ t[i] = s[i + 1]
    BY <1>3
  <2> QED
    BY <1>3, <1>5, <2>1
<1>6. ASSUME NEW i \in DOMAIN s, s[i] = f
      PROVE  f \in flags' \/ (i - 1 \in DOMAIN t /\ t[i - 1] = f)
  <2>1. CASE i = 1
    BY <1>1, <1>2, <1>3, <1>6, <2>1
  <2>2. CASE i # 1
    <3>1. i - 1 \in 1 .. l - 1 /\ (i - 1) + 1 = i
      BY <1>3, <2>2
    <3> QED
      BY <1>3, <1>6, <3>1
  <2> QED
    BY <2>1, <2>2
<1>7. ASSUME NEW i \in 1 .. port.beats, i \in DOMAIN s, s[i] = f
      PROVE  f \in flags' \/ \E j \in 1 .. port'.beats : j \in DOMAIN t /\ t[j] = f
  <2>1. i = 1 \/ i - 1 \in 1 .. port'.beats
    BY <1>1
  <2>2. i = 1 => f \in flags'
    BY <1>1, <1>2, <1>3, <1>7
  <2> QED
    BY <1>6, <1>7, <2>1, <2>2, Zenon
<1>8. f \in flags' => f \in flags \/ \E i \in DOMAIN s : s[i] = f
  <2>1. 1 \in DOMAIN s
    BY <1>3
  <2> QED
    BY <1>1, <1>2, <1>3, <2>1
<1> QED
  BY <1>2, <1>4, <1>5, <1>6, <1>7, <1>8, Zenon

LEMMA WriteKeeps ==
  ASSUME P2PInv, WriteFlag
  PROVE  P2PInv'
<1>1. /\ LinkTypes /\ UnitRight /\ HostWrote /\ LengthFirst /\ UsedArrived /\ CounterRight
      /\ UnclashedRight
  BY DEF P2PInv
<1>2. /\ port.cmds # <<>> /\ port.beats > 0
      /\ port' = [cmds |-> Tail(port.cmds), beats |-> port.beats - 1]
      /\ flags' = flags \cup {Head(port.cmds)}
      /\ UNCHANGED <<host, reg, left, cross, ctr, unit, h2c, clash>>
      /\ port.cmds \in Seq(Flags) /\ port.beats \in Nat /\ flags \subseteq Flags
  BY <1>1 DEF WriteFlag, LinkTypes
<1>3. /\ Tail(port.cmds) \in Seq(Flags) /\ Head(port.cmds) \in Flags
      /\ Len(Tail(port.cmds)) = Len(port.cmds) - 1 /\ Len(port.cmds) \in Nat \ {0}
  BY <1>2, ShrinkingLists
<1>4. Shrinks /\ port' \in [cmds : Seq(Flags), beats : Nat]
  <2> DEFINE cmds == Tail(port.cmds)
             beats == port.beats - 1
  <2>1. cmds \in Seq(Flags) /\ beats \in Nat
    BY <1>2, <1>3
  <2>2. port' = [cmds |-> cmds, beats |-> beats]
    BY <1>2
  <2> HIDE DEF cmds, beats
  <2>3. port' \in [cmds : Seq(Flags), beats : Nat] /\ port'.cmds = cmds /\ port'.beats = beats
    BY <2>1, <2>2
  <2> QED
    BY <1>2, <2>3 DEF Shrinks, cmds, beats
<1>5. LinkTypes'
  BY <1>1, <1>2, <1>3, <1>4 DEF LinkTypes
<1>6. UnitRight' /\ HostWrote' /\ LengthFirst'
  BY <1>1, <1>2, UnitSame DEF HostWrote, LengthFirst
<1>7. ASSUME NEW n PROVE Used(n)' => Used(n)
  BY <1>1, <1>2, <1>4, WriteKeepsLists, Zenon DEF Used
<1>8. UsedArrived'
  <2>1. ASSUME NEW n PROVE Arrived(n) => Arrived(n)'
    BY <1>2 DEF Arrived
  <2> QED
    BY <1>1, <1>7, <2>1, Zenon DEF UsedArrived
<1>9. Used(host.n)' => Used(host.n)
  <2>1. PICK n : n = host.n
    OBVIOUS
  <2>2. Used(n)' => Used(n)
    BY <1>7
  <2>3. Used(host.n)' => Used(n)'
    BY <1>2, <2>1 DEF Used
  <2> QED
    BY <2>1, <2>2, <2>3
<1>10. CounterRight'
  <2>1. /\ (Waits' <=> Waits) /\ (StartHeld' <=> StartHeld) /\ (Deaf' <=> Deaf) /\ (Quiet' <=> Quiet)
        /\ host' = host
    BY <1>2 DEF Waits, StartHeld, Deaf, Quiet, Empty, Raised, Asked
  <2>2. (Counting => Counting') /\ (Reached => Reached') /\ (Requested => Requested')
    BY <1>2, <1>9 DEF Counting, Reached, Requested, Empty, Raised, Asked
  <2> QED
    BY <1>1, <2>1, <2>2 DEF CounterRight
<1>11. UnclashedRight'
  <2> SUFFICES ASSUME ~clash PROVE Balanced' /\ H2cRight'
    BY <1>2 DEF UnclashedRight
  <2>1. Balanced /\ H2cRight
    BY <1>1 DEF UnclashedRight
  <2>2. Balanced'
    <3> DEFINE cf == One(unit.cmd_fire)
               df == One(unit.data_fire)
               l  == Len(port.cmds)
               ln == Len(port'.cmds)
    <3>1. /\ cf \in Nat /\ df \in Nat /\ l \in Nat \ {0} /\ port.beats \in Nat
          /\ ln = l - 1 /\ port'.beats = port.beats - 1 /\ l + df = port.beats + cf
      <4>1. cf \in Nat /\ df \in Nat
        BY DEF One
      <4>2. ln = l - 1 /\ l \in Nat \ {0}
        <5>1. port'.cmds = Tail(port.cmds)
          BY <1>4 DEF Shrinks
        <5> QED
          BY <1>3, <5>1, Zenon
      <4>3. l + df = port.beats + cf /\ port'.beats = port.beats - 1
        BY <1>4, <2>1, Zenon DEF Balanced, Shrinks
      <4> QED
        BY <1>2, <1>3, <4>1, <4>2, <4>3, Zenon
    <3> DEFINE b == port.beats
               bn == port'.beats
    <3>2. /\ cf \in Nat /\ df \in Nat /\ l \in Nat /\ b \in Nat
          /\ ln = l - 1 /\ bn = b - 1 /\ l + df = b + cf
      <4>1. l \in Nat
        BY <3>1
      <4> QED
        BY <3>1, <4>1, Zenon
    <3> HIDE DEF cf, df, l, ln, b, bn
    <3>3. ln + df = bn + cf
      BY <3>2
    <3>4. One(unit.cmd_fire) = One(unit'.cmd_fire) /\ One(unit.data_fire) = One(unit'.data_fire)
      BY <1>2
    <3>5. Len(port'.cmds) + One(unit'.data_fire) = port'.beats + One(unit'.cmd_fire)
      BY <3>3, <3>4, Zenon DEF cf, df, ln, bn
    <3>6. Unasked' \/ Busy'
      BY <1>2, <2>1 DEF Balanced, Unasked, Busy
    <3> QED
      BY <3>5, <3>6, Zenon DEF Balanced
  <2>3. ASSUME NEW n PROVE (Delivered(n) => Delivered(n)') /\ (Accepted(n) => Accepted(n)')
    <3>1. H2CFlag(n) \in flags => H2CFlag(n) \in flags'
      BY <1>2
    <3> QED
      BY <1>1, <1>4, <3>1, WriteKeepsLists, Zenon DEF Delivered, Accepted
  <2>4. (Delivered(h2c.n) => Delivered(h2c.n)') /\ (Accepted(h2c.n) => Accepted(h2c.n)')
    <3>1. PICK n : n = h2c.n /\ n = h2c'.n
      BY <1>2
    <3>2. (Delivered(n) => Delivered(n)') /\ (Accepted(n) => Accepted(n)')
      BY <2>3
    <3> QED
      BY <3>1, <3>2 DEF Delivered, Accepted
  <2>5. (NotAsked => NotAsked') /\ (Writing => Writing') /\ (Finished => Finished')
    BY <1>2, <2>4 DEF NotAsked, Writing, Finished, Busy
  <2>6. unit' = unit /\ h2c' = h2c
    BY <1>2
  <2>7. H2cRight'
    BY <2>1, <2>3, <2>4, <2>5, <2>6 DEF H2cRight
  <2> QED
    BY <2>2, <2>7
<1> QED
  BY <1>5, <1>6, <1>8, <1>10, <1>11 DEF P2PInv

-----------------------------------------------------------------------------
(* The invariant from the start, and what it means for the flags. *)

LEMMA InitRight ==
  ASSUME P2PInit
  PROVE  P2PInv
<1>1. PICK pulsed \in BOOLEAN : host = [at |-> "addr", n |-> 1, pulsed |-> pulsed]
  BY DEF P2PInit
<1>2. /\ reg = [start |-> FALSE, addr |-> NoFlag, length |-> 0] /\ left = 0
      /\ ctr = [counter |-> 0, length |-> 0, complete |-> FALSE, working |-> FALSE, was |-> FALSE]
      /\ unit = UnitReset(NoFlag) /\ h2c = [at |-> "idle", n |-> 0]
      /\ port = [cmds |-> <<>>, beats |-> 0] /\ flags = {} /\ clash = FALSE
  BY DEF P2PInit
<1>3. /\ Requests \in Nat \ {0} /\ Commands \in Nat
      /\ host \in [at : Lines, n : 1 .. Requests, pulsed : BOOLEAN] /\ host.at = "addr" /\ host.n = 1
  BY <1>1, LengthAssumption DEF Lines
<1>4. PICK z : z = <<FALSE, FALSE, FALSE, FALSE, FALSE, FALSE, FALSE>>
  OBVIOUS
<1>5. /\ z \in Seq(BOOLEAN) /\ Len(z) = 7
      /\ \A i \in 1 .. 7 : ~z[i]
  BY <1>4
<1>6. PICK o : o = <<0, 0, 0>>
  OBVIOUS
<1>7. o \in Seq(Nat) /\ Len(o) = 3
  BY <1>6
<1>8. cross = [start |-> z, length |-> o,
               asked |-> FALSE, seen |-> FALSE, told |-> FALSE, heard |-> FALSE]
  BY <1>4, <1>6 DEF P2PInit
<1>9. /\ cross \in [start : Seq(BOOLEAN), length : Seq(Nat),
                    asked : BOOLEAN, seen : BOOLEAN, told : BOOLEAN, heard : BOOLEAN]
      /\ cross.start = z /\ cross.length = o /\ cross.asked = cross.seen
  BY <1>5, <1>7, <1>8
<1>10. /\ reg \in [start : BOOLEAN, addr : Addrs, length : Nat] /\ ~reg.start
       /\ ctr \in [counter : Nat, length : Nat, complete : BOOLEAN, working : BOOLEAN, was : BOOLEAN]
       /\ ctr.counter = 0 /\ ~ctr.complete /\ ~ctr.working
       /\ h2c \in [at : {"idle", "busy", "done"}, n : 0 .. Commands] /\ h2c.at = "idle" /\ h2c.n = 0
  BY <1>2, <1>3 DEF Addrs
<1>11. port \in [cmds : Seq(Flags), beats : Nat] /\ port.cmds = <<>> /\ port.beats = 0
  <2>1. PICK e : e = <<>>
    OBVIOUS
  <2>2. e \in Seq(Flags)
    BY <2>1, EmptySeq
  <2>3. port = [cmds |-> e, beats |-> 0]
    BY <1>2, <2>1
  <2> QED
    BY <2>1, <2>2, <2>3
<1>12. LinkTypes
  BY <1>2, <1>3, <1>5, <1>7, <1>9, <1>10, <1>11 DEF LinkTypes, Lines
<1>13. /\ unit \in UnitType /\ ~unit.cmd_valid /\ ~unit.data_valid /\ ~unit.cmd_fire /\ ~unit.data_fire
       /\ ~unit.c2h_was /\ ~unit.h2c_started /\ unit.h2c_cpt_complete
       /\ unit.h2c_cpt_addr = NoFlag /\ unit.cpt_addr = NoFlag
  BY <1>2 DEF UnitReset, UnitType, Addrs
<1>14. UnitRight
  BY <1>10, <1>13, FlagsDiffer DEF UnitRight
<1>15. HostWrote
  BY <1>3, <1>10 DEF HostWrote
<1>16. LengthFirst
  BY <1>5, <1>9, <1>10 DEF LengthFirst
<1>17. UsedArrived
  <2>1. DOMAIN port.cmds = {}
    BY <1>11
  <2>2. ASSUME NEW n, Used(n) PROVE FALSE
    BY <1>2, <1>13, <2>1, <2>2, FlagsDiffer DEF Used
  <2> QED
    BY <2>2 DEF UsedArrived
<1>18. CounterRight
  BY <1>2, <1>3, <1>9, <1>10 DEF CounterRight, Quiet, Empty, Raised, Asked, Waits
<1>19. UnclashedRight
  <2>1. Unasked
    BY <1>13 DEF Unasked
  <2>2. Len(port.cmds) = 0 /\ One(unit.cmd_fire) = 0 /\ One(unit.data_fire) = 0
    BY <1>11, <1>13 DEF One
  <2>3. Balanced
    BY <1>11, <2>1, <2>2 DEF Balanced
  <2>4. H2cRight
    BY <1>10, <1>13 DEF H2cRight
  <2> QED
    BY <2>3, <2>4 DEF UnclashedRight
<1> QED
  BY <1>12, <1>14, <1>15, <1>16, <1>17, <1>18, <1>19 DEF P2PInv

LEMMA NextKeeps ==
  ASSUME P2PInv, P2PNext
  PROVE  P2PInv'
<1>1. CASE Host
  BY <1>1, HostKeeps
<1>2. ASSUME NEW beat \in BOOLEAN, NEW told \in BOOLEAN, HbmEdge(beat, told)
      PROVE  P2PInv'
  BY <1>2, HbmKeeps
<1>3. ASSUME NEW p2p \in BOOLEAN, NEW ready \in BOOLEAN \X BOOLEAN, UserEdge(p2p, ready)
      PROVE  P2PInv'
  BY <1>3, UserKeeps
<1>4. CASE WriteFlag
  BY <1>4, WriteKeeps
<1> QED
  BY <1>1, <1>2, <1>3, <1>4 DEF P2PNext

LEMMA StutterKeeps ==
  ASSUME P2PInv, UNCHANGED p2pVars
  PROVE  P2PInv'
<1>1. UNCHANGED <<host, reg, left, cross, ctr, unit, h2c, port, flags, clash>>
  BY DEF p2pVars
<1>2. LinkTypes' /\ HostWrote' /\ LengthFirst'
  BY <1>1 DEF P2PInv, LinkTypes, HostWrote, LengthFirst
<1>3. UnitRight' /\ UnclashedRight'
  BY <1>1, UnitSame, UnclashedSame DEF P2PInv
<1>4. UsedArrived'
  BY <1>1 DEF P2PInv, UsedArrived, Used, Arrived
<1>5. CounterRight'
  BY <1>1 DEF P2PInv, CounterRight, Waits, StartHeld, Deaf, Quiet, Counting, Reached, Requested,
              Empty, Raised, Asked, Used
<1> QED
  BY <1>2, <1>3, <1>4, <1>5 DEF P2PInv

LEMMA InvMeans ==
  ASSUME P2PInv
  PROVE  FlagsRight
<1>1. /\ LinkTypes /\ UsedArrived /\ UnclashedRight /\ UnitRight
  BY DEF P2PInv
<1>2. P2PTypeOK
  BY <1>1 DEF LinkTypes, P2PTypeOK, Flags
<1>3. FlagAfterData
  BY <1>1 DEF UsedArrived, Used, Arrived, FlagAfterData
<1>4. ToldIfWritten
  <2> SUFFICES ASSUME ~clash
               PROVE  /\ unit.h2c_cpt_complete => \A n \in 1 .. h2c.n : Delivered(n)
                      /\ ~unit.cmd_valid /\ ~unit.data_valid => Len(port.cmds) = port.beats
    BY DEF ToldIfWritten, Delivered
  <2>1. Balanced /\ H2cRight /\ h2c.n \in 0 .. Commands /\ h2c.at \in {"idle", "busy", "done"}
    BY <1>1 DEF UnclashedRight, LinkTypes
  <2>2. unit.h2c_cpt_complete => \A n \in 1 .. h2c.n : Delivered(n)
    <3> SUFFICES ASSUME unit.h2c_cpt_complete, NEW n \in 1 .. h2c.n PROVE Delivered(n)
      OBVIOUS
    <3>1. CASE n < h2c.n
      BY <2>1, <3>1 DEF H2cRight
    <3>2. CASE n = h2c.n
      <4>1. h2c.n > 0
        BY <2>1, <3>2, LengthAssumption
      <4>2. Delivered(h2c.n)
        BY <2>1, <4>1 DEF H2cRight, NotAsked, Writing, Finished
      <4> QED
        BY <3>2, <4>2
    <3> QED
      BY <2>1, <3>1, <3>2, LengthAssumption
  <2>3. ~unit.cmd_valid /\ ~unit.data_valid => Len(port.cmds) = port.beats
    <3> SUFFICES ASSUME ~unit.cmd_valid, ~unit.data_valid PROVE Len(port.cmds) = port.beats
      OBVIOUS
    <3>1. One(unit.cmd_fire) = One(unit.data_fire)
      BY <2>1 DEF Balanced, Unasked, Busy, Half, One
    <3>2. Len(port.cmds) \in Nat /\ port.beats \in Nat /\ One(unit.cmd_fire) \in Nat
      BY <1>1 DEF LinkTypes, One
    <3>3. PICK c : c = One(unit.cmd_fire)
      OBVIOUS
    <3>4. c \in Nat /\ Len(port.cmds) + c = port.beats + c
      BY <2>1, <3>1, <3>2, <3>3, Zenon DEF Balanced
    <3> QED
      BY <3>2, <3>4
  <2> QED
    BY <2>2, <2>3
<1> QED
  BY <1>2, <1>3, <1>4 DEF FlagsRight

(* The host finds a request's flag only after the last beat of the           *)
(* request's data, whatever the clocks do, and the completion unit tells the *)
(* host-to-device path of a flag only when the QDMA has all of it, unless two *)
(* clients met in the unit.                                                  *)
THEOREM FlagsCorrect == P2PSpec => []FlagsRight
<1>1. P2PInit => P2PInv
  BY InitRight
<1>2. P2PInv /\ [P2PNext]_p2pVars => P2PInv'
  BY NextKeeps, StutterKeeps
<1>3. P2PInv => FlagsRight
  BY InvMeans
<1> QED
  BY <1>1, <1>2, <1>3, PTL DEF P2PSpec

-----------------------------------------------------------------------------
(* The bursts. *)

End == job.from + job.length

Bits == [now : BOOLEAN, init : BOOLEAN]
Burst == [addr : Nat, beats : Nat]
CursorType ==
  [state : {"idle", "addr", "data", "finish"}, addr : 0 .. Space - 1, valid : BOOLEAN,
   len : 0 .. Block - 1, tmp : 0 .. Space - 1, next : 0 .. Space - 1, end : 0 .. Space - 1]
WriterType == [beat : 0 .. Block - 1, wlast : BOOLEAN, due : Int]
FifoType == [words : Nat, data_valid : BOOLEAN, tmpreg : BOOLEAN]
USE BlockAssumption DEF WriterType, FifoType

SeenType == [empty : BOOLEAN, tmpreg : BOOLEAN]
ReaderType ==
  [due : Int, hold1 : 0 .. Hold1, hold2 : 0 .. Hold2, owed : Nat, queue : Nat,
   out : {"none", "valid", "tmpreg"}, seen : [1 .. Lag -> SeenType]]

(* The types of all variables, BurstTypeOK's and those it leaves out. *)
JobTypes ==
  /\ job \in [dir : {"read", "write"}, from : 0 .. Block - 1, length : 0 .. MaxLen,
              last : BOOLEAN, n : 0 .. Packets]
  /\ job.from % 2 = 0 /\ job.length % 2 = 0 /\ End =< Space \div 2

Types ==
  /\ JobTypes
  /\ start \in Bits
  /\ cur \in CursorType
  /\ done \in [complete : BOOLEAN, clear : BOOLEAN]
  /\ wr \in WriterType
  /\ fifo \in FifoType
  /\ rd \in ReaderType
  /\ issued \in Seq(Burst)

(* start and init are pulses before the first burst; the engine is busy then. *)
Phases ==
  /\ ~(start.now /\ start.init)
  /\ start.now \/ start.init => cur.state = "idle" /\ issued = <<>>
  /\ start.now \/ start.init \/ cur.state # "idle" => job.length > 0
  /\ start.now => done.complete
  /\ start.init \/ cur.state # "idle" => ~done.complete
  /\ cur.state = "data" => job.dir = "write"

(* next is where the burst from tmp has to end. *)
GoodCut(tmp, next, end) ==
  tmp < end => /\ tmp < next /\ next =< end /\ next - tmp =< Block
               /\ BlockOf(tmp) = BlockOf(next - 1)
               /\ next < end => next % Block = 0
               /\ next % 2 = 0

(* What the cursor will issue after the burst on the address bus, and that *)
(* burst: it ends at tmp, within its block and the packet.                 *)
Ahead(c) == c.end = End /\ GoodCut(c.tmp, c.next, End) /\ c.tmp % 2 = 0

OnBus(c) ==
  /\ c.addr >= job.from /\ c.addr % 2 = 0 /\ c.addr + c.len + 1 = c.tmp /\ c.tmp =< End
  /\ BlockOf(c.addr) = BlockOf(c.tmp - 1)

Cursor ==
  /\ start.init => cur.tmp = job.from
  /\ start.init \/ cur.state \in {"addr", "data"} => Ahead(cur)
  /\ cur.state \in {"addr", "data"} => OnBus(cur)

(* What was issued ends where the burst on the bus begins. *)
Issued ==
  /\ cur.state = "addr" => IF issued = <<>> THEN cur.addr = job.from
                           ELSE Ends(LastIssued) = cur.addr
  /\ cur.state = "data" => /\ issued # <<>> /\ LastIssued.addr = cur.addr
                           /\ Ends(LastIssued) = cur.tmp
  /\ cur.state = "finish" => issued # <<>> /\ Ends(LastIssued) = End

(* The clauses of BurstsTile, for the bursts that are issued. *)
Tiled ==
  \A i \in DOMAIN issued :
    /\ issued[i].addr = IF i = 1 THEN job.from ELSE Ends(issued[i - 1])
    /\ BlockOf(issued[i].addr) = BlockOf(Ends(issued[i]) - 1)
    /\ Ends(issued[i]) =< End

(* wlast is set by the beat before the last, and cleared by the last. *)
Beats ==
  /\ cur.state # "data" => wr.beat = 0 /\ ~wr.wlast
  /\ cur.state = "data" => wr.beat =< cur.len /\ (wr.wlast <=> wr.beat = cur.len)

ReadAhead == ~(fifo.data_valid /\ fifo.tmpreg)

BurstInv == /\ Types /\ Phases /\ Cursor /\ Issued /\ Tiled /\ Beats
            /\ ReadAhead /\ NoWordLost

-----------------------------------------------------------------------------
(* Quotient and remainder by the size of a block. *)
LEMMA DivMod ==
  ASSUME NEW a \in Int
  PROVE  /\ a \div Block \in Int /\ a % Block \in 0 .. Block - 1
         /\ a = Block * (a \div Block) + (a % Block)
  OBVIOUS

(* Distinct multiples of Block are a block apart. *)
LEMMA Multiple ==
  ASSUME NEW q \in Int, NEW p \in Int, p < q
  PROVE  Block * p + Block =< Block * q
<1>1. q - p - 1 \in Nat
  OBVIOUS
<1>2. Block * (q - p - 1) >= 0
  BY <1>1
<1>3. Block * (q - p - 1) = Block * q - Block * p - Block
  OBVIOUS
<1>4. QED
  BY <1>2, <1>3

(* The block that an address lies in is the only one that bounds it. *)
LEMMA Quotient ==
  ASSUME NEW a \in Int, NEW q \in Int, Block * q =< a, a < Block * q + Block
  PROVE  a \div Block = q /\ a % Block = a - Block * q
<1> DEFINE p == a \div Block
<1>1. p \in Int /\ a % Block \in 0 .. Block - 1 /\ a = Block * p + (a % Block)
  BY DivMod
<1> HIDE DEF p
<1>2. Block * p \in Int /\ Block * q \in Int
  BY <1>1
<1>3. ~(p < q)
  BY <1>1, <1>2, Multiple
<1>4. ~(q < p)
  BY <1>1, <1>2, Multiple
<1>5. p = q
  BY <1>1, <1>3, <1>4
<1>6. QED
  BY <1>1, <1>2, <1>5 DEF p

(* The adders of the address registers do not wrap below Space. *)
LEMMA AddSmall ==
  ASSUME NEW a \in Nat, NEW b \in Nat, a + b < Space
  PROVE  Add(a, b) = a + b
  BY DEF Add

LEMMA AddTypes ==
  ASSUME NEW a \in Int, NEW b \in Int
  PROVE  Add(a, b) \in 0 .. Space - 1
  BY DEF Add

(* A boundary: the block that starts there, and the boundary after it. *)
LEMMA Whole ==
  ASSUME NEW a \in Int, a % Block = 0
  PROVE  /\ a = Block * BlockOf(a) /\ BlockOf(a) \in Int
         /\ \A b \in a .. a + Block - 1 : BlockOf(b) = BlockOf(a)
         /\ BlockOf(a + Block) = BlockOf(a) + 1 /\ (a + Block) % Block = 0
<1> DEFINE q == BlockOf(a)
<1>1. q \in Int /\ a = Block * q
  BY DivMod DEF BlockOf
<1> HIDE DEF q
<1>2. \A b \in a .. a + Block - 1 : BlockOf(b) = q
  BY <1>1, Quotient DEF BlockOf
<1>3. q + 1 \in Int /\ Block * (q + 1) = a + Block
  BY <1>1
<1>4. BlockOf(a + Block) = q + 1 /\ (a + Block) % Block = (a + Block) - Block * (q + 1)
  BY <1>1, <1>3, Quotient DEF BlockOf
<1>5. QED
  BY <1>1, <1>2, <1>3, <1>4 DEF q

(* The first burst of a packet and every later one end where GoodCut says. *)
LEMMA FirstCutGood ==
  ASSUME NEW a \in 0 .. Block - 1, NEW n \in Nat, n > 0, a + n =< Space \div 2,
         a % 2 = 0, n % 2 = 0
  PROVE  FirstCut(a, n) \in 0 .. Space - 1 /\ GoodCut(a, FirstCut(a, n), a + n)
<1>1. a \div Block = 0 /\ a % Block = a
  BY Quotient
<1>2. a + n < Space /\ a + n \in Nat
  OBVIOUS
<1>3. CASE Block < a + n
  <2>1. FirstCut(a, n) = Block
    BY <1>1, <1>2, <1>3, AddSmall DEF FirstCut, BlockOf
  <2>2. BlockOf(a) = 0 /\ BlockOf(Block - 1) = 0 /\ Block % Block = 0
    BY Quotient DEF BlockOf
  <2>3. QED
    BY <1>2, <1>3, <2>1, <2>2 DEF GoodCut
<1>4. CASE ~(Block < a + n)
  <2>1. FirstCut(a, n) = a + n
    BY <1>1, <1>2, <1>4, AddSmall, SMTT(30) DEF FirstCut, BlockOf
  <2>2. BlockOf(a) = 0 /\ BlockOf(a + n - 1) = 0
    BY <1>4, Quotient DEF BlockOf
  <2>3. QED
    BY <1>2, <1>4, <2>1, <2>2 DEF GoodCut
<1>5. QED
  BY <1>3, <1>4

LEMMA NextCutGood ==
  ASSUME NEW a \in Nat, NEW e \in Nat, a % Block = 0, a < e, e =< Space \div 2,
         a % 2 = 0, e % 2 = 0
  PROVE  GoodCut(a, NextCut(a, e), e)
<1>1. /\ BlockOf(a) \in Int /\ BlockOf(e) \in Int /\ a = Block * BlockOf(a)
      /\ e = Block * BlockOf(e) + (e % Block) /\ e % Block \in 0 .. Block - 1
  BY DivMod DEF BlockOf
<1>2. CASE BlockOf(a) < BlockOf(e)
  <2>1. a + Block =< e
    BY <1>1, <1>2, Multiple
  <2>2. NextCut(a, e) = a + Block
    <3>1. a + Block < Space /\ Block \in Nat
      BY <2>1
    <3>2. Add(a, Block) = a + Block
      BY <3>1, AddSmall
    <3>3. BlockOf(a) + 1 =< BlockOf(e)
      BY <1>1, <1>2
    <3>4. QED
      BY <3>2, <3>3 DEF NextCut
  <2>3. BlockOf(a + Block - 1) = BlockOf(a) /\ (a + Block) % Block = 0
    BY Whole
  <2>4. QED
    BY <2>1, <2>2, <2>3 DEF GoodCut
<1>3. CASE ~(BlockOf(a) < BlockOf(e))
  <2>1. NextCut(a, e) = e
    BY <1>1, <1>3 DEF NextCut
  <2>2. e < a + Block
    <3> SUFFICES ASSUME a + Block =< e PROVE FALSE
      OBVIOUS
    <3>1. Block * BlockOf(a) + Block =< e
      BY <1>1
    <3>2. BlockOf(e) = BlockOf(a) \/ BlockOf(e) < BlockOf(a)
      BY <1>1, <1>3
    <3>3. QED
      BY <1>1, <3>1, <3>2, Multiple
  <2>3. BlockOf(e - 1) = BlockOf(a)
    BY <2>2, Whole
  <2>4. QED
    BY <2>1, <2>2, <2>3 DEF GoodCut
<1>4. QED
  BY <1>2, <1>3

LEMMA NextCutTypes ==
  ASSUME NEW a \in 0 .. Space - 1, NEW e \in 0 .. Space - 1
  PROVE  NextCut(a, e) \in 0 .. Space - 1
<1>1. Block \in Int /\ a \in Int
  OBVIOUS
<1>2. Add(a, Block) \in 0 .. Space - 1
  BY <1>1, AddTypes
<1>3. QED
  BY <1>2 DEF NextCut

(* The length field of a burst of at most a block is one less than its beats. *)
LEMMA AxLenGood ==
  ASSUME NEW t \in Nat, NEW n \in Nat, t < n, n - t =< Block
  PROVE  AxLen(t, n) = n - t - 1
<1>1. CASE n - t = Block
  <2>1. (n - t) % Block = 0
    BY <1>1, Quotient
  <2>2. QED
    BY <1>1, <2>1, Quotient DEF AxLen
<1>2. CASE n - t < Block
  <2>1. (n - t) % Block = n - t
    BY <1>2, Quotient
  <2>2. (n - t + Block - 1) % Block = n - t - 1
    <3>1. Block * 1 = Block
      OBVIOUS
    <3>2. QED
      BY <1>2, <3>1, Quotient
  <2>3. QED
    BY <1>2, <2>1, <2>2 DEF AxLen
<1>3. QED
  BY <1>1, <1>2

LEMMA AxLenTypes ==
  ASSUME NEW t \in Int, NEW n \in Int
  PROVE  AxLen(t, n) \in 0 .. Block - 1
  BY DivMod DEF AxLen

-----------------------------------------------------------------------------
(* The cursor. *)

(* start: the registers cover the packet, from its first beat. *)
LEMMA LoadedCursor ==
  ASSUME JobTypes, job.length > 0, cur \in CursorType
  PROVE  /\ Loaded(cur) \in CursorType /\ Loaded(cur).state = cur.state
         /\ Ahead(Loaded(cur)) /\ Loaded(cur).tmp = job.from
<1> DEFINE cut == FirstCut(job.from, job.length)
<1>1. /\ job.from \in 0 .. Block - 1 /\ job.length \in Nat /\ End =< Space \div 2
      /\ job.from % 2 = 0 /\ job.length % 2 = 0 /\ End = job.from + job.length
  BY DEF JobTypes, End
<1>2. cut \in 0 .. Space - 1 /\ GoodCut(job.from, cut, End)
  BY <1>1, FirstCutGood
<1>3. End < Space
  BY <1>1
<1>4. Add(job.from, job.length) = End
  BY <1>1, <1>3, AddSmall
<1>5. job.from \in 0 .. Space - 1 /\ End \in 0 .. Space - 1
  BY <1>1, <1>3
<1>6. Loaded(cur) = [cur EXCEPT !.tmp = job.from, !.next = cut, !.end = End]
  BY <1>4 DEF Loaded
<1> HIDE DEF cut
<1>7. QED
  BY <1>1, <1>2, <1>5, <1>6 DEF CursorType, Ahead

(* The next burst goes to the address bus: it stays in its block and in the *)
(* packet, and the cursor moves past it.                                    *)
LEMMA MovedTypes ==
  ASSUME NEW c \in CursorType, NEW s \in {"idle", "addr", "data", "finish"}
  PROVE  /\ Moved(c, s) \in CursorType
         /\ Moved(c, s).state = s /\ Moved(c, s).addr = c.tmp
<1>1. NextCut(c.next, c.end) \in 0 .. Space - 1 /\ AxLen(c.tmp, c.next) \in 0 .. Block - 1
  BY NextCutTypes, AxLenTypes, SMTT(30) DEF CursorType
<1>2. QED
  BY <1>1 DEF Moved, CursorType

LEMMA MovedCursor ==
  ASSUME NEW c \in CursorType, NEW s \in {"idle", "addr", "data", "finish"},
         JobTypes, Ahead(c), c.tmp < End, job.from =< c.tmp
  PROVE  /\ Ahead(Moved(c, s)) /\ OnBus(Moved(c, s))
         /\ Moved(c, s).addr = c.tmp
<1> DEFINE d == Moved(c, s)
           cut == NextCut(c.next, End)
<1>1. /\ d.addr = c.tmp /\ d.tmp = c.next /\ d.next = cut /\ d.end = End
      /\ d.len = AxLen(c.tmp, c.next)
  BY DEF Moved, Ahead, CursorType
<1> HIDE DEF d
<1>2. /\ c.tmp \in Nat /\ c.next \in Nat /\ End \in Nat /\ End =< Space \div 2
      /\ End % 2 = 0 /\ job.from \in Nat
  BY DEF CursorType, JobTypes, End
<1>3. /\ c.tmp < c.next /\ c.next =< End /\ c.next - c.tmp =< Block
      /\ BlockOf(c.tmp) = BlockOf(c.next - 1)
      /\ c.next < End => c.next % Block = 0
      /\ c.next % 2 = 0
  BY DEF Ahead, GoodCut
<1>4. d.len = c.next - c.tmp - 1
  BY <1>1, <1>2, <1>3, AxLenGood
<1>5. OnBus(d)
  BY <1>1, <1>2, <1>3, <1>4 DEF OnBus, Ahead
<1>6. GoodCut(c.next, cut, End)
  <2>1. CASE c.next < End
    BY <1>2, <1>3, <2>1, NextCutGood
  <2>2. CASE ~(c.next < End)
    BY <2>2 DEF GoodCut
  <2>3. QED
    BY <2>1, <2>2
<1>7. Ahead(d)
  BY <1>1, <1>3, <1>6 DEF Ahead
<1>8. QED
  BY <1>1, <1>5, <1>7 DEF d

(* A burst that is accepted is added to the tiles. *)
LEMMA IssueTiled ==
  ASSUME Types, Cursor, Issued, Tiled, cur.state = "addr", Issue, job' = job
  PROVE  /\ issued' \in Seq(Burst) /\ issued' # <<>> /\ Tiled'
         /\ LastIssued'.addr = cur.addr /\ Ends(LastIssued') = cur.tmp
<1> DEFINE b == [addr |-> cur.addr, beats |-> cur.len + 1]
           n == Len(issued)
<1>1. cur.addr \in Nat /\ cur.len \in Nat /\ issued \in Seq(Burst) /\ n \in Nat
  BY DEF Types, CursorType
<1>2. b \in Burst /\ b.addr = cur.addr /\ b.beats = cur.len + 1
  BY <1>1 DEF Burst
<1>3. OnBus(cur)
  BY DEF Cursor
<1>4. Ends(b) = cur.tmp
  BY <1>1, <1>2, <1>3 DEF Ends, OnBus
<1>5. issued' = Append(issued, b)
  BY DEF Issue
<1> HIDE DEF b
<1>6. /\ issued' \in Seq(Burst) /\ Len(issued') = n + 1 /\ issued'[n + 1] = b
      /\ \A i \in 1 .. n : issued'[i] = issued[i]
  BY <1>1, <1>2, <1>5
<1>7. LastIssued' = b /\ issued' # <<>>
  BY <1>1, <1>6 DEF LastIssued
<1>8. b.addr = IF n + 1 = 1 THEN job.from ELSE Ends(issued[n])
  <2>1. n = 0 <=> issued = <<>>
    BY <1>1
  <2>2. QED
    BY <1>1, <1>2, <2>1 DEF Issued, LastIssued
<1>9. Tiled'
  <2> SUFFICES ASSUME NEW i \in 1 .. n + 1
               PROVE  /\ issued'[i].addr = IF i = 1 THEN job.from ELSE Ends(issued'[i - 1])
                      /\ BlockOf(issued'[i].addr) = BlockOf(Ends(issued'[i]) - 1)
                      /\ Ends(issued'[i]) =< End
    BY <1>1, <1>6 DEF Tiled, End
  <2>1. CASE i = n + 1
    <3>1. i # 1 => issued'[i - 1] = issued[n]
      BY <1>1, <1>6, <2>1
    <3>2. QED
      BY <1>2, <1>3, <1>4, <1>6, <1>8, <2>1, <3>1 DEF OnBus
  <2>2. CASE i # n + 1
    <3>1. i \in 1 .. n /\ (i # 1 => i - 1 \in 1 .. n) /\ i \in DOMAIN issued
      BY <1>1, <2>2
    <3>2. QED
      BY <1>6, <3>1 DEF Tiled
  <2>3. QED
    BY <2>1, <2>2
<1>10. QED
  BY <1>2, <1>4, <1>6, <1>7, <1>9

-----------------------------------------------------------------------------
(* Steps that leave the cursor's part of the invariant alone. *)
CursorInv == Phases /\ Cursor /\ Issued /\ Tiled

LEMMA InitialInv == BurstInit => BurstInv
<1> SUFFICES ASSUME BurstInit PROVE BurstInv
  OBVIOUS
<1>1. Types
  <2>1. JobTypes
    BY DEF BurstInit, JobTypes, End
  <2>2. cur \in CursorType
    BY DEF BurstInit, Idle, CursorType
  <2>3. rd \in ReaderType
    BY DEF BurstInit, ReaderType, SeenType
  <2>4. QED
    BY <2>1, <2>2, <2>3 DEF BurstInit, Types, Bits
<1>2. Phases /\ Cursor /\ Issued
  BY DEF BurstInit, Idle, Phases, Cursor, Issued
<1>3. Tiled /\ Beats /\ ReadAhead /\ NoWordLost
  BY DEF BurstInit, Idle, Tiled, Beats, ReadAhead, NoWordLost
<1>4. QED
  BY <1>1, <1>2, <1>3 DEF BurstInv

(* A new packet: the pulse comes before anything is issued for it. *)
LEMMA PostInv ==
  ASSUME BurstInv,
         NEW dir \in {"read", "write"}, NEW from \in 0 .. Block - 1, NEW length \in 1 .. MaxLen,
         from % 2 = 0, length % 2 = 0, from + length =< Space \div 2,
         \E last \in BOOLEAN : Post(dir, from, length, last)
  PROVE  BurstInv'
<1>1. /\ done.complete /\ cur.state = "idle" /\ ~start.now /\ ~start.init
      /\ job.n < Packets /\ issued' = <<>>
      /\ start' = [start EXCEPT !.now = TRUE]
      /\ fifo' = IF dir = "write" THEN [fifo EXCEPT !.words = @ + length] ELSE fifo
      /\ cur' = cur /\ done' = done /\ wr' = wr /\ rd' = rd
  BY Zenon DEF Post
<1>2. Types /\ Phases /\ Cursor /\ Beats /\ ReadAhead /\ NoWordLost
  BY DEF BurstInv
<1>3. job' \in [dir : {"read", "write"}, from : 0 .. Block - 1, length : 0 .. MaxLen,
                last : BOOLEAN, n : 0 .. Packets]
  <2>1. length \in 0 .. MaxLen
    OBVIOUS
  <2>2. job.n \in 0 .. Packets
    BY <1>2 DEF Types, JobTypes
  <2>3. job.n + 1 \in 0 .. Packets
    <3>1. PICK n : n = job.n
      OBVIOUS
    <3>2. n < Packets /\ n \in 0 .. Packets
      BY <1>1, <2>2, <3>1, Zenon
    <3>3. n + 1 \in 0 .. Packets
      BY <3>2
    <3> QED
      BY <3>1, <3>3, Zenon
  <2>4. PICK last \in BOOLEAN :
          job' = [dir |-> dir, from |-> from, length |-> length, last |-> last, n |-> job.n + 1]
    BY Zenon DEF Post
  <2>5. QED
    BY <2>1, <2>3, <2>4
<1>4. job'.dir = dir /\ job'.from = from /\ job'.length = length
  <2>1. PICK last \in BOOLEAN :
          job' = [dir |-> dir, from |-> from, length |-> length, last |-> last, n |-> job.n + 1]
    BY Zenon DEF Post
  <2>2. QED
    BY <2>1
<1>5. JobTypes'
  BY <1>1, <1>3, <1>4 DEF JobTypes, End
<1>6. start' \in Bits /\ start'.now /\ ~start'.init
  BY <1>1, <1>2 DEF Types, Bits
<1>7. /\ fifo' \in FifoType
      /\ fifo'.data_valid = fifo.data_valid /\ fifo'.tmpreg = fifo.tmpreg
      /\ fifo'.words = fifo.words + (IF dir = "write" THEN length ELSE 0)
  <2>1. fifo \in FifoType
    BY <1>2 DEF Types
  <2>2. fifo' = IF dir = "write" THEN [fifo EXCEPT !.words = @ + length] ELSE fifo
    BY <1>1
  <2>3. QED
    BY <2>1, <2>2
<1>8. Types'
  BY <1>1, <1>2, <1>5, <1>6, <1>7 DEF Types
<1>9. Phases' /\ Cursor' /\ Issued'
  <2>1. cur'.state = "idle" /\ ~start'.init /\ issued' = <<>> /\ done'.complete /\ job'.length > 0
    BY <1>1, <1>4, <1>6
  <2>2. Phases'
    BY <2>1 DEF Phases
  <2>3. Cursor' /\ Issued'
    BY <2>1 DEF Cursor, Issued
  <2> QED
    BY <2>2, <2>3
<1>10. Tiled' /\ Beats'
  <2>1. issued' = <<>> /\ cur.state = "idle" /\ cur'.state = "idle" /\ wr' = wr
    BY <1>1
  <2>2. Tiled'
    <3>1. DOMAIN issued' = {}
      BY <2>1
    <3> QED
      BY <3>1, Zenon DEF Tiled
  <2>3. Beats'
    BY <1>2, <2>1 DEF Beats
  <2> QED
    BY <2>2, <2>3
<1>11. ReadAhead' /\ NoWordLost'
  <2>1. wr.due \in Int /\ fifo.words \in Nat /\ ~start.now /\ wr' = wr
    BY <1>1, <1>2 DEF Types
  <2>2. ReadAhead'
    BY <1>2, <1>7 DEF ReadAhead
  <2>3. fifo.words + (IF fifo.data_valid \/ fifo.tmpreg THEN 1 ELSE 0) = wr.due
    BY <1>2, <2>1 DEF NoWordLost
  <2>4. QED
    BY <1>4, <1>6, <1>7, <2>1, <2>2, <2>3 DEF NoWordLost
<1>12. QED
  BY <1>8, <1>9, <1>10, <1>11 DEF BurstInv

-----------------------------------------------------------------------------
(* What both engines do before the first burst. *)
LEMMA BeginCursor ==
  ASSUME Types, CursorInv, Beats, cur.state = "idle", Begin("addr"), job' = job,
         start.now => ~done'.complete, ~start.now => done' = done,
         wr'.beat = wr.beat, wr'.wlast => wr.wlast
  PROVE  /\ start' = [now |-> FALSE, init |-> start.now] /\ start' \in Bits
         /\ cur' \in CursorType /\ CursorInv' /\ Beats'
<1> USE DEF CursorInv
<1>1. /\ start' \in Bits /\ ~start'.now /\ start'.init = start.now
      /\ start' = [now |-> FALSE, init |-> start.now] /\ issued' = issued
  BY DEF Begin, Types, Bits
<1>2. Tiled'
  BY <1>1 DEF Tiled, End
<1>3. CASE start.now
  <2>1. cur' = Loaded(cur) /\ job.length > 0 /\ JobTypes
    BY <1>3 DEF Begin, Phases, Types
  <2>2. cur' \in CursorType /\ cur'.state = "idle" /\ Ahead(cur') /\ cur'.tmp = job.from
    BY <2>1, LoadedCursor DEF Types
  <2>3. Phases'
    BY <1>1, <1>3, <2>1, <2>2 DEF Phases
  <2>4. Cursor'
    BY <1>1, <2>2 DEF Cursor, Ahead, End
  <2>5. Issued' /\ Beats'
    BY <2>2 DEF Issued, Beats
  <2>6. QED
    BY <1>1, <1>2, <2>2, <2>3, <2>4, <2>5
<1>4. CASE ~start.now /\ start.init
  <2>1. /\ cur' = Moved(cur, "addr") /\ job.length > 0 /\ JobTypes /\ cur \in CursorType
        /\ ~done.complete /\ done' = done /\ issued = <<>>
    BY <1>4 DEF Begin, Phases, Types
  <2>2. Ahead(cur) /\ cur.tmp = job.from /\ cur.tmp < End
    BY <1>4, <2>1 DEF Cursor, JobTypes, End
  <2>3. cur' \in CursorType /\ cur'.state = "addr"
    BY <2>1, MovedTypes
  <2>4. Ahead(cur') /\ OnBus(cur') /\ cur'.addr = job.from
    <3>1. job.from =< cur.tmp
      BY <2>1, <2>2 DEF JobTypes
    <3>2. QED
      BY <2>1, <2>2, <3>1, MovedCursor
  <2>5. Phases'
    BY <1>1, <1>4, <2>1, <2>3 DEF Phases
  <2>6. Cursor'
    BY <1>1, <1>4, <2>3, <2>4 DEF Cursor, Ahead, OnBus, End
  <2>7. Issued' /\ Beats'
    BY <1>1, <2>1, <2>3, <2>4 DEF Issued, Beats, Types
  <2>8. QED
    BY <1>1, <1>2, <2>3, <2>5, <2>6, <2>7
<1>5. CASE ~start.now /\ ~start.init
  <2>1. cur' = cur /\ done' = done
    BY <1>5 DEF Begin
  <2>2. Phases' /\ Cursor' /\ Issued' /\ Beats'
    BY <1>1, <1>5, <2>1 DEF Phases, Cursor, Ahead, OnBus, End, Issued, LastIssued, Beats
  <2>3. QED
    BY <1>1, <1>2, <2>1, <2>2 DEF Types
<1>6. QED
  BY <1>3, <1>4, <1>5

-----------------------------------------------------------------------------
(* The writer. *)
Stored == fifo.words + (IF fifo.data_valid \/ fifo.tmpreg THEN 1 ELSE 0)

(* The read-ahead loses no word, and hands one on when the slave is ready. *)
LEMMA ReadFifoStep ==
  ASSUME Types, ReadAhead, NEW ready \in BOOLEAN, NEW word \in BOOLEAN,
         word => fifo.words > 0 /\ ready, ReadFifo(ready, word)
  PROVE  /\ fifo' \in FifoType
         /\ ReadAhead'
         /\ Stored' = Stored - (IF ready /\ (fifo.data_valid \/ fifo.tmpreg) THEN 1 ELSE 0)
<1>1. fifo \in FifoType
  BY DEF Types
<1>2. fifo' = [words |-> IF word THEN fifo.words - 1 ELSE fifo.words,
               data_valid |-> word, tmpreg |-> Held(ready)]
  BY DEF ReadFifo
<1>3. Held(ready) = ((fifo.tmpreg \/ fifo.data_valid) /\ ~ready)
  BY DEF Held
<1>4. CASE word
  <2>1. fifo' = [words |-> fifo.words - 1, data_valid |-> TRUE, tmpreg |-> FALSE]
    BY <1>2, <1>3, <1>4
  <2>2. fifo.words - 1 \in Nat
    BY <1>1, <1>4
  <2>3. QED
    BY <1>1, <1>4, <2>1, <2>2 DEF ReadAhead, Stored
<1>5. CASE ~word
  <2>1. fifo' = [words |-> fifo.words, data_valid |-> FALSE, tmpreg |-> Held(ready)]
    BY <1>2, <1>5
  <2>2. Held(ready) \in BOOLEAN
    BY <1>3
  <2>3. QED
    BY <1>1, <1>3, <1>5, <2>1, <2>2 DEF ReadAhead, Stored
<1>6. QED
  BY <1>4, <1>5

LEMMA ReadFifoStalls ==
  ASSUME Types, ReadAhead, ReadFifo(FALSE, FALSE)
  PROVE  /\ fifo' \in FifoType
         /\ ReadAhead' /\ Stored' = Stored
<1>1. Stored \in Int
  BY DEF Types, Stored
<1>2. /\ fifo' \in FifoType
      /\ ReadAhead'
      /\ Stored' = Stored - (IF FALSE /\ (fifo.data_valid \/ fifo.tmpreg) THEN 1 ELSE 0)
  BY ReadFifoStep, Zenon
<1>3. QED
  BY <1>1, <1>2

LEMMA WriterIdle ==
  ASSUME BurstInv, NEW axready \in BOOLEAN, NEW wready \in BOOLEAN, NEW word \in BOOLEAN,
         WriterEdge(axready, wready, word), cur.state = "idle"
  PROVE  BurstInv'
<1>1. /\ job.dir = "write" /\ job' = job /\ rd' = rd /\ Begin("addr")
      /\ ReadFifo(FALSE, FALSE)
      /\ wr' = IF start.now THEN [wr EXCEPT !.wlast = FALSE, !.due = @ + job.length] ELSE wr
      /\ done' = IF start.now THEN [complete |-> FALSE, clear |-> FALSE] ELSE done
  BY DEF WriterEdge
<1>2. Types /\ CursorInv /\ Beats /\ ReadAhead /\ NoWordLost
  BY DEF BurstInv, CursorInv
<1>3. /\ fifo' \in FifoType
      /\ ReadAhead' /\ Stored' = Stored
  BY <1>1, <1>2, ReadFifoStalls
<1>4. /\ wr' \in WriterType
      /\ wr'.due = wr.due + (IF start.now THEN job.length ELSE 0)
      /\ wr'.beat = wr.beat /\ (wr'.wlast => wr.wlast)
  <2>1. wr \in WriterType /\ job.length \in Nat
    BY <1>2 DEF Types, JobTypes
  <2>2. wr' = IF start.now THEN [wr EXCEPT !.wlast = FALSE, !.due = @ + job.length] ELSE wr
    BY <1>1
  <2>3. CASE start.now
    <3> DEFINE d == wr.due + job.length
    <3>1. wr' = [wr EXCEPT !.wlast = FALSE, !.due = d] /\ d \in Int
      BY <2>1, <2>2, <2>3
    <3>2. d = wr.due + job.length
      OBVIOUS
    <3> HIDE DEF d
    <3>3. wr'.due = d /\ wr'.beat = wr.beat /\ ~wr'.wlast
      BY <2>1, <3>1
    <3>4. wr' \in WriterType
      BY <2>1, <3>1
    <3>5. QED
      BY <2>3, <3>2, <3>3, <3>4
  <2>4. CASE ~start.now
    BY <2>1, <2>2, <2>4
  <2>5. QED
    BY <2>3, <2>4
<1>5. done' \in [complete : BOOLEAN, clear : BOOLEAN] /\ (start.now => ~done'.complete)
  BY <1>1, <1>2 DEF Types
<1>6. /\ start' = [now |-> FALSE, init |-> start.now] /\ start' \in Bits
      /\ cur' \in CursorType /\ CursorInv' /\ Beats'
  BY <1>1, <1>2, <1>4, <1>5, BeginCursor
<1>7. Types'
  BY <1>1, <1>2, <1>3, <1>4, <1>5, <1>6 DEF Types, JobTypes, End, Begin
<1>8. NoWordLost'
  <2>1. wr.due \in Int /\ job.length \in Nat /\ ~start'.now
    BY <1>2, <1>6 DEF Types, JobTypes
  <2>2. Stored = wr.due + (IF start.now THEN job.length ELSE 0)
    BY <1>1, <1>2 DEF NoWordLost, Stored
  <2>3. Stored' = wr'.due
    BY <1>3, <1>4, <2>1, <2>2
  <2>4. QED
    BY <1>1, <2>1, <2>3 DEF NoWordLost, Stored
<1>9. QED
  BY <1>3, <1>6, <1>7, <1>8 DEF BurstInv, CursorInv

LEMMA WriterAddr ==
  ASSUME BurstInv, NEW axready \in BOOLEAN, NEW wready \in BOOLEAN, NEW word \in BOOLEAN,
         WriterEdge(axready, wready, word), cur.state = "addr"
  PROVE  BurstInv'
<1>1. /\ job.dir = "write" /\ job' = job /\ rd' = rd
      /\ ReadFifo(FALSE, FALSE)
      /\ IF axready THEN Issue /\ cur' = [cur EXCEPT !.valid = FALSE, !.state = "data"]
                    ELSE issued' = issued /\ cur' = cur
      /\ start' = start /\ done' = done /\ wr' = wr
  BY DEF WriterEdge
<1>2. Types /\ Phases /\ Cursor /\ Issued /\ Tiled /\ Beats /\ ReadAhead /\ NoWordLost
  BY DEF BurstInv
<1>3. /\ fifo' \in FifoType
      /\ ReadAhead' /\ Stored' = Stored
  BY <1>1, <1>2, ReadFifoStalls
<1>4. NoWordLost'
  BY <1>1, <1>2, <1>3 DEF NoWordLost, Stored, Types
<1>5. CASE axready
  <2>1. /\ cur' \in CursorType /\ cur'.state = "data" /\ cur'.addr = cur.addr
        /\ cur'.len = cur.len /\ cur'.tmp = cur.tmp /\ cur'.next = cur.next /\ cur'.end = cur.end
    <3>1. cur' = [cur EXCEPT !.valid = FALSE, !.state = "data"] /\ cur \in CursorType
      BY <1>1, <1>2, <1>5 DEF Types
    <3>2. QED
      BY <3>1 DEF CursorType
  <2>2. /\ issued' \in Seq(Burst) /\ issued' # <<>> /\ Tiled'
        /\ LastIssued'.addr = cur.addr /\ Ends(LastIssued') = cur.tmp
    BY <1>1, <1>2, <1>5, IssueTiled
  <2>3. Types'
    BY <1>1, <1>2, <1>3, <2>1, <2>2 DEF Types, JobTypes, End
  <2>4. Phases' /\ Issued'
    BY <1>1, <1>2, <2>1, <2>2 DEF Phases, Issued
  <2>5. Cursor'
    BY <1>1, <1>2, <2>1 DEF Phases, Cursor, Ahead, OnBus, End
  <2>6. Beats'
    <3>1. wr.beat = 0 /\ ~wr.wlast /\ cur.len \in Nat /\ cur.addr \in Nat /\ cur.tmp \in Nat
      BY <1>2 DEF Beats, Types, CursorType
    <3>2. cur.addr % 2 = 0 /\ cur.tmp % 2 = 0 /\ cur.addr + cur.len + 1 = cur.tmp
      BY <1>2 DEF Cursor, Ahead, OnBus
    <3>3. cur.len # 0
      BY <3>1, <3>2
    <3>4. QED
      BY <1>1, <2>1, <3>1, <3>3 DEF Beats
  <2>7. QED
    BY <1>3, <1>4, <2>2, <2>3, <2>4, <2>5, <2>6 DEF BurstInv
<1>6. CASE ~axready
  <2>1. issued' = issued /\ cur' = cur
    BY <1>1, <1>6
  <2>2. Types'
    BY <1>1, <1>2, <1>3, <2>1 DEF Types, JobTypes, End
  <2>3. Phases' /\ Cursor' /\ Issued' /\ Tiled' /\ Beats'
    BY <1>1, <1>2, <2>1
       DEF Phases, Cursor, Ahead, OnBus, End, Issued, LastIssued, Tiled, Beats
  <2>4. QED
    BY <1>3, <1>4, <2>2, <2>3 DEF BurstInv
<1>7. QED
  BY <1>5, <1>6

LEMMA WriterFinish ==
  ASSUME BurstInv, NEW axready \in BOOLEAN, NEW wready \in BOOLEAN, NEW word \in BOOLEAN,
         WriterEdge(axready, wready, word), cur.state = "finish"
  PROVE  BurstInv'
<1> DEFINE ends == job.last => wr.due = 0
<1>1. /\ job.dir = "write" /\ job' = job /\ rd' = rd /\ ReadFifo(FALSE, FALSE)
      /\ start' = start /\ issued' = issued
      /\ ends => /\ cur' = Idle
                 /\ done' = [complete |-> TRUE, clear |-> job.last]
                 /\ wr' = [wr EXCEPT !.wlast = FALSE, !.beat = 0]
      /\ ~ends => cur' = cur /\ done' = done /\ wr' = wr
  BY DEF WriterEdge
<1>2. Types /\ Phases /\ Cursor /\ Issued /\ Tiled /\ Beats /\ ReadAhead /\ NoWordLost
  BY DEF BurstInv
<1>3. /\ fifo' \in FifoType
      /\ ReadAhead' /\ Stored' = Stored
  BY <1>1, <1>2, ReadFifoStalls
<1>4. ~start.now /\ ~start.init
  BY <1>2 DEF Phases
<1>5. Tiled'
  BY <1>1, <1>2 DEF Tiled, End
<1> HIDE DEF ends
<1>6. CASE ends
  <2>1. cur' \in CursorType /\ cur'.state = "idle"
    <3>1. cur' = Idle
      BY <1>1, <1>6
    <3>2. QED
      BY <3>1 DEF Idle, CursorType
  <2>2. /\ wr' \in WriterType
        /\ wr'.due = wr.due /\ wr'.beat = 0 /\ ~wr'.wlast
    <3>1. wr' = [wr EXCEPT !.wlast = FALSE, !.beat = 0]
      BY <1>1, <1>6
    <3>2. wr \in WriterType /\ 0 \in 0 .. Block - 1
      BY <1>2 DEF Types
    <3>3. wr' \in WriterType
      BY <3>1, <3>2
    <3>4. wr'.due = wr.due /\ wr'.beat = 0 /\ ~wr'.wlast
      BY <3>1, <3>2
    <3>5. QED
      BY <3>3, <3>4
  <2>3. done' \in [complete : BOOLEAN, clear : BOOLEAN]
    <3>1. done' = [complete |-> TRUE, clear |-> job.last]
      BY <1>1, <1>6
    <3>2. job.last \in BOOLEAN
      BY <1>2 DEF Types, JobTypes
    <3>3. QED
      BY <3>1, <3>2
  <2>4. Types'
    BY <1>1, <1>2, <1>3, <2>1, <2>2, <2>3 DEF Types, JobTypes, End
  <2>5. Phases' /\ Cursor' /\ Issued'
    BY <1>1, <1>4, <2>1 DEF Phases, Cursor, Issued
  <2>6. Beats'
    BY <2>1, <2>2 DEF Beats
  <2>7. NoWordLost'
    BY <1>1, <1>2, <1>3, <1>4, <2>2 DEF NoWordLost, Stored, Types
  <2>8. QED
    BY <1>3, <1>5, <2>4, <2>5, <2>6, <2>7 DEF BurstInv
<1>7. CASE ~ends
  <2>1. cur' = cur /\ done' = done /\ wr' = wr
    BY <1>1, <1>7
  <2>2. Types'
    BY <1>1, <1>2, <1>3, <2>1 DEF Types, JobTypes, End
  <2>3. Phases' /\ Cursor' /\ Issued' /\ Beats'
    BY <1>1, <1>2, <2>1 DEF Phases, Cursor, Ahead, OnBus, End, Issued, LastIssued, Beats
  <2>4. NoWordLost'
    BY <1>1, <1>2, <1>3, <1>4, <2>1 DEF NoWordLost, Stored, Types
  <2>5. QED
    BY <1>3, <1>5, <2>2, <2>3, <2>4 DEF BurstInv
<1>8. QED
  BY <1>6, <1>7

(* The last beat of a burst moves the cursor on, unless the packet is out. *)
LEMMA WriteBeatCursor ==
  ASSUME Types, Phases, Cursor, Issued, Beats, cur.state = "data", WriteBeat,
         job' = job, start' = start, done' = done, issued' = issued
  PROVE  /\ cur' \in CursorType /\ Phases' /\ Cursor' /\ Issued'
         /\ wr' \in WriterType
         /\ wr'.due = wr.due - 1 /\ Beats'
<1>1. /\ wr.beat \in 0 .. Block - 1 /\ wr.due \in Int /\ cur.len \in 0 .. Block - 1
      /\ wr \in WriterType
      /\ cur \in CursorType /\ wr.beat =< cur.len /\ JobTypes
      /\ cur.state \in {"idle", "addr", "data", "finish"}
  BY DEF Types, CursorType, Beats
<1>2. /\ wr' = [wr EXCEPT !.beat = IF wr.beat = cur.len THEN 0 ELSE @ + 1,
                          !.wlast = WlastNext, !.due = @ - 1]
      /\ wr.beat # cur.len => cur' = cur
      /\ wr.beat = cur.len /\ cur.tmp = cur.end => cur' = [cur EXCEPT !.state = "finish"]
      /\ wr.beat = cur.len /\ cur.tmp # cur.end => cur' = Moved(cur, "addr")
  BY DEF WriteBeat
<1>3. WlastNext \in BOOLEAN
  BY DEF WlastNext
<1>4. /\ wr' \in WriterType
      /\ wr'.due = wr.due - 1 /\ wr'.wlast = WlastNext
      /\ wr'.beat = IF wr.beat = cur.len THEN 0 ELSE wr.beat + 1
  <2> DEFINE b == IF wr.beat = cur.len THEN 0 ELSE wr.beat + 1
             d == wr.due - 1
             l == WlastNext
  <2>1. b \in 0 .. Block - 1 /\ d \in Int /\ l \in BOOLEAN
    BY <1>1, <1>3
  <2>2. wr' = [wr EXCEPT !.beat = b, !.wlast = l, !.due = d]
    BY <1>2
  <2> HIDE DEF b, d, l
  <2>3. wr' \in WriterType
    BY <1>1, <2>1, <2>2
  <2>4. wr'.due = d /\ wr'.wlast = l /\ wr'.beat = b
    BY <1>1, <2>2
  <2>5. QED
    BY <2>3, <2>4 DEF b, d, l
<1>5. /\ Ahead(cur) /\ OnBus(cur) /\ cur.tmp =< End /\ cur.end = End
      /\ job.from =< cur.tmp /\ cur.len # 0
  <2>1. Ahead(cur) /\ OnBus(cur)
    BY DEF Cursor
  <2>2. /\ cur.addr \in Nat /\ cur.tmp \in Nat /\ job.from \in Nat /\ cur.addr >= job.from
        /\ cur.addr % 2 = 0 /\ cur.tmp % 2 = 0 /\ cur.addr + cur.len + 1 = cur.tmp
    BY <1>1, <2>1 DEF CursorType, JobTypes, Ahead, OnBus
  <2>3. QED
    BY <1>1, <2>1, <2>2 DEF Ahead, OnBus
<1>6. WlastNext <=> wr.beat = cur.len - 1
  <2>1. (cur.len + Block - 1) % Block = cur.len - 1
    <3>1. Block * 1 = Block /\ cur.len + Block - 1 \in Int
      BY <1>1
    <3>2. Block * 1 =< cur.len + Block - 1 /\ cur.len + Block - 1 < Block * 1 + Block
      BY <1>1, <1>5, <3>1
    <3>3. QED
      BY <1>1, <3>1, <3>2, Quotient
  <2>2. QED
    BY <2>1 DEF WlastNext
<1>7. CASE wr.beat # cur.len
  <2>1. cur' = cur /\ wr'.beat = wr.beat + 1
    BY <1>2, <1>4, <1>7
  <2>2. Phases' /\ Cursor' /\ Issued'
    BY <2>1 DEF Phases, Cursor, Ahead, OnBus, End, Issued, LastIssued
  <2>3. wr'.wlast <=> wr'.beat = cur.len
    BY <1>1, <1>4, <1>6, <2>1
  <2>4. Beats'
    BY <1>1, <1>7, <2>1, <2>3 DEF Beats
  <2>5. QED
    BY <1>1, <1>4, <2>1, <2>2, <2>4
<1>8. CASE wr.beat = cur.len
  <2>1. wr'.beat = 0 /\ ~wr'.wlast
    BY <1>1, <1>4, <1>6, <1>8
  <2>2. CASE cur.tmp = cur.end
    <3>1. cur' = [cur EXCEPT !.state = "finish"]
      BY <1>2, <1>8, <2>2
    <3>2. cur' \in CursorType /\ cur'.state = "finish"
      BY <1>1, <3>1 DEF CursorType
    <3>3. Phases' /\ Cursor' /\ Issued' /\ Beats'
      BY <1>5, <2>1, <2>2, <3>2 DEF Phases, Cursor, Issued, LastIssued, Beats, End
    <3>4. QED
      BY <1>4, <3>2, <3>3
  <2>3. CASE cur.tmp # cur.end
    <3>1. cur' = Moved(cur, "addr")
      BY <1>2, <1>8, <2>3
    <3>2. cur.tmp < End
      <4>1. cur.tmp \in Int /\ End \in Int
        BY <1>1 DEF CursorType, JobTypes, End
      <4>2. QED
        BY <1>5, <2>3, <4>1
    <3>3. /\ cur' \in CursorType /\ cur'.state = "addr"
          /\ Ahead(cur') /\ OnBus(cur') /\ cur'.addr = cur.tmp
      BY <1>1, <1>5, <3>1, <3>2, MovedTypes, MovedCursor
    <3>4. Phases' /\ Issued' /\ Beats'
      BY <2>1, <3>3 DEF Phases, Issued, LastIssued, Beats
    <3>5. Cursor'
      BY <3>3 DEF Cursor, Phases, Ahead, OnBus, End
    <3>6. QED
      BY <1>4, <3>3, <3>4, <3>5
  <2>4. QED
    BY <2>2, <2>3
<1>9. QED
  BY <1>7, <1>8

LEMMA WriterData ==
  ASSUME BurstInv, NEW axready \in BOOLEAN, NEW wready \in BOOLEAN, NEW word \in BOOLEAN,
         WriterEdge(axready, wready, word), cur.state = "data"
  PROVE  BurstInv'
<1>1. /\ job.dir = "write" /\ job' = job /\ rd' = rd
      /\ word => fifo.words > 0 /\ wready
      /\ ReadFifo(wready, word)
      /\ Offered /\ wready => WriteBeat
      /\ ~(Offered /\ wready) => wr' = wr /\ cur' = cur
      /\ start' = start /\ done' = done /\ issued' = issued
  BY DEF WriterEdge
<1>2. Types /\ Phases /\ Cursor /\ Issued /\ Tiled /\ Beats /\ ReadAhead /\ NoWordLost
  BY DEF BurstInv
<1> DEFINE taken == wready /\ (fifo.data_valid \/ fifo.tmpreg)
<1>3. /\ fifo' \in FifoType
      /\ ReadAhead'
      /\ Stored' = Stored - (IF taken THEN 1 ELSE 0)
  BY <1>1, <1>2, ReadFifoStep, Zenon
<1>4. taken <=> Offered /\ wready
  BY <1>2 DEF Offered, ReadAhead, Types
<1>5. ~start.now /\ wr.due \in Int /\ Stored = wr.due
  BY <1>2 DEF Phases, NoWordLost, Stored, Types
<1> HIDE DEF taken
<1>6. Tiled'
  BY <1>1, <1>2 DEF Tiled, End
<1>7. CASE taken
  <2>1. /\ cur' \in CursorType /\ Phases' /\ Cursor' /\ Issued' /\ Beats'
        /\ wr' \in WriterType
        /\ wr'.due = wr.due - 1
    BY <1>1, <1>2, <1>4, <1>7, WriteBeatCursor
  <2>2. Types'
    BY <1>1, <1>2, <1>3, <2>1 DEF Types, JobTypes, End
  <2>3. NoWordLost'
    BY <1>1, <1>3, <1>5, <1>7, <2>1 DEF NoWordLost, Stored
  <2>4. QED
    BY <1>3, <1>6, <2>1, <2>2, <2>3 DEF BurstInv
<1>8. CASE ~taken
  <2>1. cur' = cur /\ wr' = wr
    BY <1>1, <1>4, <1>8
  <2>2. Types'
    BY <1>1, <1>2, <1>3, <2>1 DEF Types, JobTypes, End
  <2>3. Phases' /\ Cursor' /\ Issued' /\ Beats'
    BY <1>1, <1>2, <2>1 DEF Phases, Cursor, Ahead, OnBus, End, Issued, LastIssued, Beats
  <2>4. NoWordLost'
    BY <1>1, <1>3, <1>5, <1>8, <2>1 DEF NoWordLost, Stored
  <2>5. QED
    BY <1>3, <1>6, <2>2, <2>3, <2>4 DEF BurstInv
<1>9. QED
  BY <1>7, <1>8

LEMMA WriterInv ==
  ASSUME BurstInv, NEW axready \in BOOLEAN, NEW wready \in BOOLEAN, NEW word \in BOOLEAN,
         WriterEdge(axready, wready, word)
  PROVE  BurstInv'
<1>1. cur.state \in {"idle", "addr", "data", "finish"}
  BY DEF BurstInv, Types, CursorType
<1>2. QED
  BY <1>1, WriterIdle, WriterAddr, WriterData, WriterFinish, Zenon

-----------------------------------------------------------------------------
(* The reader. *)

(* What hbm_clk sees of the FIFO moves up by an edge. *)
LEMMA Shifted ==
  ASSUME NEW S, NEW f \in [1 .. Lag -> S], NEW e \in S
  PROVE  /\ Append(Tail(f), e) \in [1 .. Lag -> S]
         /\ \A i \in 1 .. Lag :
              Append(Tail(f), e)[i] = IF i = Lag THEN e ELSE f[i + 1]
<1>1. f \in Seq(S) /\ Len(f) = Lag
  <2>1. Lag \in Nat
    OBVIOUS
  <2>2. QED
    <3>1. f \in Seq(S)
      BY <2>1, SeqDef
    <3>2. DOMAIN f = 1 .. Lag /\ Len(f) \in Nat /\ DOMAIN f = 1 .. Len(f)
      BY <3>1, LenProperties
    <3>3. QED
      BY <2>1, <3>1, <3>2
<1>2. f # <<>>
  BY <1>1
<1>3. /\ Tail(f) \in Seq(S) /\ Len(Tail(f)) = Lag - 1
      /\ \A i \in 1 .. Lag - 1 : Tail(f)[i] = f[i + 1]
  BY <1>1, <1>2, HeadTailProperties
<1> DEFINE t == Tail(f)
<1>4. t \in Seq(S) /\ Len(t) = Lag - 1 /\ \A i \in 1 .. Lag - 1 : t[i] = f[i + 1]
  BY <1>3
<1> HIDE DEF t
<1>5. /\ Append(t, e) \in Seq(S) /\ Len(Append(t, e)) = Lag
      /\ \A i \in 1 .. Lag - 1 : Append(t, e)[i] = t[i]
      /\ Append(t, e)[Lag] = e
  BY <1>4
<1>6. Append(t, e) \in [1 .. Lag -> S]
  BY <1>5, LenProperties
<1>7. QED
  BY <1>4, <1>5, <1>6 DEF t

(* An edge of the user side: beats enter and leave the FIFO. *)
LEMMA StreamFields ==
  ASSUME rd \in ReaderType, NEW r \in ReaderType, r.queue = rd.queue,
         NEW beat \in BOOLEAN, NEW ready \in BOOLEAN, beat => r.owed > 0
  PROVE  LET s == Stream(r, beat, ready)
             in == IF beat THEN 1 ELSE 0
             read == IF ready /\ rd.queue > 0 THEN 1 ELSE 0
         IN  /\ s \in ReaderType
             /\ s.owed = r.owed - in /\ s.due = r.due - in
             /\ s.queue = rd.queue + in - read
             /\ s.out = IF ready /\ rd.queue > 0 THEN "valid"
                        ELSE IF rd.out # "none" /\ ~ready THEN "tmpreg" ELSE "none"
             /\ s.hold1 = r.hold1 /\ s.hold2 = r.hold2
             /\ \A i \in 1 .. Lag :
                  s.seen[i] = IF i = Lag
                              THEN [empty |-> rd.queue = 0, tmpreg |-> rd.out = "tmpreg"]
                              ELSE r.seen[i + 1]
<1> DEFINE in == IF beat THEN 1 ELSE 0
           read == IF ready /\ rd.queue > 0 THEN 1 ELSE 0
           e == [empty |-> rd.queue = 0, tmpreg |-> rd.out = "tmpreg"]
           owed == r.owed - in
           due == r.due - in
           queue == rd.queue + in - read
           out == IF ready /\ rd.queue > 0 THEN "valid"
                  ELSE IF rd.out # "none" /\ ~ready THEN "tmpreg" ELSE "none"
           seen == Append(Tail(r.seen), e)
<1>1. r.owed \in Nat /\ r.due \in Int /\ rd.queue \in Nat /\ r.seen \in [1 .. Lag -> SeenType]
  BY DEF ReaderType
<1>2. e \in SeenType
  BY DEF SeenType
<1> HIDE DEF e
<1>3. /\ seen \in [1 .. Lag -> SeenType]
      /\ \A i \in 1 .. Lag : seen[i] = IF i = Lag THEN e ELSE r.seen[i + 1]
  <2> DEFINE f == r.seen
  <2>1. f \in [1 .. Lag -> SeenType]
    BY <1>1
  <2> HIDE DEF f
  <2>2. /\ Append(Tail(f), e) \in [1 .. Lag -> SeenType]
        /\ \A i \in 1 .. Lag : Append(Tail(f), e)[i] = IF i = Lag THEN e ELSE f[i + 1]
    BY <1>2, <2>1, Shifted, SMTT(40)
  <2>3. QED
    BY <2>2 DEF f
<1>4. owed \in Nat /\ due \in Int /\ queue \in Nat
  BY <1>1
<1>5. out \in {"none", "valid", "tmpreg"}
  OBVIOUS
<1>6. Stream(r, beat, ready)
        = [r EXCEPT !.owed = owed, !.due = due, !.queue = queue, !.out = out, !.seen = seen]
  <2>1. /\ (IF beat THEN r.owed - 1 ELSE r.owed) = owed
        /\ (IF beat THEN r.due - 1 ELSE r.due) = due
    BY <1>1
  <2>2. (IF beat THEN r.queue + 1 ELSE r.queue) - (IF ready /\ rd.queue > 0 THEN 1 ELSE 0) = queue
    BY <1>1
  <2>3. Output(ready, ready /\ rd.queue > 0) = out
    BY Zenon DEF Output
  <2> HIDE DEF owed, due, queue, out
  <2>4. QED
    BY <2>1, <2>2, <2>3 DEF Stream, e
<1> HIDE DEF owed, due, queue, out, seen
<1>7. Stream(r, beat, ready) \in ReaderType
  BY <1>3, <1>4, <1>5, <1>6 DEF ReaderType
<1>8. /\ Stream(r, beat, ready).owed = owed /\ Stream(r, beat, ready).due = due
      /\ Stream(r, beat, ready).queue = queue /\ Stream(r, beat, ready).out = out
      /\ Stream(r, beat, ready).hold1 = r.hold1 /\ Stream(r, beat, ready).hold2 = r.hold2
      /\ Stream(r, beat, ready).seen = seen
  BY <1>6 DEF ReaderType
<1>9. QED
  BY <1>3, <1>7, <1>8 DEF owed, due, queue, out, e

(* The writer's registers do not move while the reader works. *)
LEMMA ReaderLeaves ==
  ASSUME Types, Phases, Beats, ReadAhead, NoWordLost, job.dir = "read",
         job' = job, wr' = wr, fifo' = fifo, cur'.state # "data"
  PROVE  ReadAhead' /\ NoWordLost' /\ Beats'
<1>1. cur.state # "data"
  BY DEF Phases
<1>2. QED
  BY <1>1 DEF Beats, ReadAhead, NoWordLost

LEMMA ReaderIdle ==
  ASSUME BurstInv, NEW axready \in BOOLEAN, NEW beat \in BOOLEAN, NEW ready \in BOOLEAN,
         ReaderEdge(axready, beat, ready), cur.state = "idle"
  PROVE  BurstInv'
<1> DEFINE r == Stream(rd, beat, ready)
           due == r.due + job.length
<1>1. /\ job.dir = "read" /\ job' = job /\ wr' = wr /\ fifo' = fifo /\ Begin("addr")
      /\ beat => rd.owed > 0
      /\ rd' = IF start.now
               THEN [r EXCEPT !.due = due, !.hold1 = Hold1, !.hold2 = Hold2] ELSE r
      /\ done' = IF start.now THEN [done EXCEPT !.complete = FALSE] ELSE done
  BY DEF ReaderEdge
<1>2. Types /\ CursorInv /\ Beats /\ ReadAhead /\ NoWordLost
  BY DEF BurstInv, CursorInv
<1>3. rd' \in ReaderType
  <2>1. r \in ReaderType
    BY <1>1, <1>2, StreamFields DEF Types
  <2> HIDE DEF r
  <2>2. job.length \in Nat /\ r.due \in Int
    BY <1>2, <2>1 DEF ReaderType, Types, JobTypes
  <2>3. due \in Int /\ Hold1 \in 0 .. Hold1 /\ Hold2 \in 0 .. Hold2
    BY <2>2
  <2>4. rd' = IF start.now
              THEN [r EXCEPT !.due = due, !.hold1 = Hold1, !.hold2 = Hold2] ELSE r
    BY <1>1
  <2> HIDE DEF due
  <2>5. QED
    BY <2>1, <2>3, <2>4 DEF ReaderType
<1>4. done' \in [complete : BOOLEAN, clear : BOOLEAN] /\ (start.now => ~done'.complete)
  BY <1>1, <1>2 DEF Types
<1>5. /\ start' = [now |-> FALSE, init |-> start.now] /\ start' \in Bits
      /\ cur' \in CursorType /\ CursorInv' /\ Beats'
  BY <1>1, <1>2, <1>4, BeginCursor
<1>6. Types'
  BY <1>1, <1>2, <1>3, <1>4, <1>5 DEF Types, JobTypes, End, Begin
<1>7. ReadAhead' /\ NoWordLost'
  BY <1>1, <1>2 DEF ReadAhead, NoWordLost
<1>8. QED
  BY <1>5, <1>6, <1>7 DEF BurstInv, CursorInv

LEMMA ReaderAddr ==
  ASSUME BurstInv, NEW axready \in BOOLEAN, NEW beat \in BOOLEAN, NEW ready \in BOOLEAN,
         ReaderEdge(axready, beat, ready), cur.state = "addr"
  PROVE  BurstInv'
<1>1. /\ job.dir = "read" /\ job' = job /\ wr' = wr /\ fifo' = fifo
      /\ beat => rd.owed > 0
      /\ IF axready
         THEN /\ Issue
              /\ rd' = Stream([rd EXCEPT !.owed = @ + cur.len + 1], beat, ready)
              /\ cur' = IF cur.tmp = cur.end
                        THEN [Moved(cur, "finish") EXCEPT !.valid = FALSE]
                        ELSE Moved(cur, "addr")
         ELSE /\ rd' = Stream(rd, beat, ready)
              /\ issued' = issued /\ cur' = cur
      /\ start' = start /\ done' = done
  BY DEF ReaderEdge
<1>2. Types /\ Phases /\ Cursor /\ Issued /\ Tiled /\ Beats /\ ReadAhead /\ NoWordLost
  BY DEF BurstInv
<1>3. rd \in ReaderType /\ cur \in CursorType /\ cur.len \in Nat /\ JobTypes
  BY <1>2 DEF Types, CursorType
<1>4. CASE axready
  <2> DEFINE owed == rd.owed + cur.len + 1
             r == [rd EXCEPT !.owed = owed]
  <2>1. /\ Issue /\ rd' = Stream(r, beat, ready)
        /\ cur' = IF cur.tmp = cur.end
                  THEN [Moved(cur, "finish") EXCEPT !.valid = FALSE]
                  ELSE Moved(cur, "addr")
    BY <1>1, <1>4
  <2>2. owed \in Nat /\ owed > 0
    <3>1. PICK o, l : o = rd.owed /\ l = cur.len
      OBVIOUS
    <3>2. o \in Nat /\ l \in Nat
      BY <1>3, <3>1 DEF ReaderType
    <3> QED
      BY <3>1, <3>2
  <2> HIDE DEF owed
  <2>3. r \in ReaderType /\ r.queue = rd.queue /\ r.owed = owed
    BY <1>3, <2>2 DEF ReaderType
  <2> HIDE DEF r
  <2>4. rd' \in ReaderType
    BY <1>3, <2>1, <2>2, <2>3, StreamFields
  <2>5. /\ issued' \in Seq(Burst) /\ issued' # <<>> /\ Tiled'
        /\ LastIssued'.addr = cur.addr /\ Ends(LastIssued') = cur.tmp
    BY <1>1, <1>2, <2>1, IssueTiled
  <2>6. Ahead(cur) /\ OnBus(cur) /\ ~start.now /\ ~start.init
    BY <1>2 DEF Cursor, Phases
  <2>7. CASE cur.tmp = cur.end
    <3> DEFINE c == Moved(cur, "finish")
    <3>1. c \in CursorType /\ c.state = "finish"
      BY <1>3, MovedTypes
    <3> HIDE DEF c
    <3>2. cur' = [c EXCEPT !.valid = FALSE]
      BY <2>1, <2>7 DEF c
    <3>3. cur' \in CursorType /\ cur'.state = "finish"
      BY <3>1, <3>2 DEF CursorType
    <3>4. Types'
      BY <1>1, <1>2, <2>4, <2>5, <3>3 DEF Types, JobTypes, End
    <3>5. Phases' /\ Cursor'
      BY <1>1, <1>2, <2>6, <3>3 DEF Phases, Cursor
    <3>6. Issued'
      BY <1>1, <2>5, <2>6, <2>7, <3>3 DEF Issued, Ahead, End
    <3>7. ReadAhead' /\ NoWordLost' /\ Beats'
      BY <1>1, <1>2, <3>3, ReaderLeaves
    <3>8. QED
      BY <2>5, <3>4, <3>5, <3>6, <3>7 DEF BurstInv
  <2>8. CASE cur.tmp # cur.end
    <3>1. cur.tmp < End /\ job.from =< cur.tmp
      <4>1. /\ cur.tmp \in Int /\ End \in Int /\ job.from \in Int /\ cur.addr \in Int
            /\ cur.len \in Nat
        BY <1>3 DEF CursorType, JobTypes, End
      <4>2. /\ cur.tmp =< End /\ cur.end = End /\ job.from =< cur.addr
            /\ cur.addr + cur.len + 1 = cur.tmp
        BY <2>6 DEF Ahead, OnBus
      <4>3. QED
        BY <2>8, <4>1, <4>2
    <3>2. cur' = Moved(cur, "addr")
      BY <2>1, <2>8
    <3>3. /\ cur' \in CursorType /\ cur'.state = "addr"
          /\ Ahead(cur') /\ OnBus(cur') /\ cur'.addr = cur.tmp
      BY <1>3, <2>6, <3>1, <3>2, MovedTypes, MovedCursor
    <3>4. Types'
      BY <1>1, <1>2, <2>4, <2>5, <3>3 DEF Types, JobTypes, End
    <3>5. Phases' /\ Issued'
      BY <1>1, <1>2, <2>5, <2>6, <3>3 DEF Phases, Issued
    <3>6. Cursor'
      BY <1>1, <2>6, <3>3 DEF Cursor, Ahead, OnBus, End
    <3>7. ReadAhead' /\ NoWordLost' /\ Beats'
      BY <1>1, <1>2, <3>3, ReaderLeaves
    <3>8. QED
      BY <2>5, <3>4, <3>5, <3>6, <3>7 DEF BurstInv
  <2>9. QED
    BY <2>7, <2>8
<1>5. CASE ~axready
  <2>1. rd' = Stream(rd, beat, ready) /\ issued' = issued /\ cur' = cur
    BY <1>1, <1>5
  <2>2. rd' \in ReaderType
    BY <1>1, <1>3, <2>1, StreamFields
  <2>3. Types'
    BY <1>1, <1>2, <2>1, <2>2 DEF Types, JobTypes, End
  <2>4. Phases' /\ Cursor' /\ Issued' /\ Tiled'
    BY <1>1, <1>2, <2>1 DEF Phases, Cursor, Ahead, OnBus, End, Issued, LastIssued, Tiled
  <2>5. ReadAhead' /\ NoWordLost' /\ Beats'
    BY <1>1, <1>2, <2>1, ReaderLeaves
  <2>6. QED
    BY <2>3, <2>4, <2>5 DEF BurstInv
<1>6. QED
  BY <1>4, <1>5

LEMMA HeldLongTypes ==
  ASSUME rd \in ReaderType
  PROVE  /\ HeldLong(rd) \in ReaderType
         /\ HeldLong(rd).hold1 = IF rd.due = 0 /\ rd.hold1 > 0 THEN rd.hold1 - 1 ELSE rd.hold1
         /\ HeldLong(rd).hold2 = IF rd.hold1 = 0 /\ rd.seen[1].empty /\ rd.hold2 > 0
                                 THEN rd.hold2 - 1 ELSE rd.hold2
         /\ HeldLong(rd).owed = rd.owed /\ HeldLong(rd).due = rd.due
         /\ HeldLong(rd).queue = rd.queue /\ HeldLong(rd).out = rd.out
         /\ HeldLong(rd).seen = rd.seen
<1> DEFINE h1 == IF rd.due = 0 /\ rd.hold1 > 0 THEN rd.hold1 - 1 ELSE rd.hold1
           h2 == IF rd.hold1 = 0 /\ rd.seen[1].empty /\ rd.hold2 > 0
                 THEN rd.hold2 - 1 ELSE rd.hold2
<1>1. h1 \in 0 .. Hold1 /\ h2 \in 0 .. Hold2
  BY DEF ReaderType
<1>2. HeldLong(rd) = [rd EXCEPT !.hold1 = h1, !.hold2 = h2]
  BY DEF HeldLong
<1> HIDE DEF h1, h2
<1>3. /\ HeldLong(rd) \in ReaderType /\ HeldLong(rd).hold1 = h1 /\ HeldLong(rd).hold2 = h2
      /\ HeldLong(rd).owed = rd.owed /\ HeldLong(rd).due = rd.due
      /\ HeldLong(rd).queue = rd.queue /\ HeldLong(rd).out = rd.out
      /\ HeldLong(rd).seen = rd.seen
  BY <1>1, <1>2 DEF ReaderType
<1>4. QED
  BY <1>3 DEF h1, h2

LEMMA ReaderFinish ==
  ASSUME BurstInv, NEW axready \in BOOLEAN, NEW beat \in BOOLEAN, NEW ready \in BOOLEAN,
         ReaderEdge(axready, beat, ready), cur.state = "finish"
  PROVE  BurstInv'
<1> DEFINE ends == job.last => rd.hold2 = 0 /\ ~rd.seen[1].tmpreg
           r == IF job.last THEN HeldLong(rd) ELSE rd
<1>1. /\ job.dir = "read" /\ job' = job /\ wr' = wr /\ fifo' = fifo
      /\ beat => rd.owed > 0
      /\ rd' = Stream(r, beat, ready)
      /\ ends => cur' = Idle /\ done' = [done EXCEPT !.complete = TRUE]
      /\ ~ends => cur' = cur /\ done' = done
      /\ start' = start /\ issued' = issued
  BY DEF ReaderEdge
<1>2. Types /\ Phases /\ Cursor /\ Issued /\ Tiled /\ Beats /\ ReadAhead /\ NoWordLost
  BY DEF BurstInv
<1>3. rd' \in ReaderType
  <2>1. rd \in ReaderType
    BY <1>2 DEF Types
  <2>2. r \in ReaderType /\ r.queue = rd.queue /\ r.owed = rd.owed
    BY <2>1, HeldLongTypes
  <2> HIDE DEF r
  <2>3. QED
    BY <1>1, <2>1, <2>2, StreamFields
<1>4. ~start.now /\ ~start.init
  BY <1>2 DEF Phases
<1>5. Tiled'
  BY <1>1, <1>2 DEF Tiled, End
<1> HIDE DEF ends, r
<1>6. CASE ends
  <2>1. cur' \in CursorType /\ cur'.state = "idle"
    <3>1. cur' = Idle
      BY <1>1, <1>6
    <3>2. QED
      BY <3>1 DEF Idle, CursorType
  <2>2. done' \in [complete : BOOLEAN, clear : BOOLEAN]
    BY <1>1, <1>2, <1>6 DEF Types
  <2>3. Types'
    BY <1>1, <1>2, <1>3, <2>1, <2>2 DEF Types, JobTypes, End
  <2>4. Phases' /\ Cursor' /\ Issued'
    BY <1>1, <1>4, <2>1 DEF Phases, Cursor, Issued
  <2>5. ReadAhead' /\ NoWordLost' /\ Beats'
    BY <1>1, <1>2, <2>1, ReaderLeaves
  <2>6. QED
    BY <1>5, <2>3, <2>4, <2>5 DEF BurstInv
<1>7. CASE ~ends
  <2>1. cur' = cur /\ done' = done
    BY <1>1, <1>7
  <2>2. Types'
    BY <1>1, <1>2, <1>3, <2>1 DEF Types, JobTypes, End
  <2>3. Phases' /\ Cursor' /\ Issued'
    BY <1>1, <1>2, <2>1 DEF Phases, Cursor, Ahead, OnBus, End, Issued, LastIssued
  <2>4. ReadAhead' /\ NoWordLost' /\ Beats'
    BY <1>1, <1>2, <2>1, ReaderLeaves
  <2>5. QED
    BY <1>5, <2>2, <2>3, <2>4 DEF BurstInv
<1>8. QED
  BY <1>6, <1>7

LEMMA ReaderInv ==
  ASSUME BurstInv, NEW axready \in BOOLEAN, NEW beat \in BOOLEAN, NEW ready \in BOOLEAN,
         ReaderEdge(axready, beat, ready)
  PROVE  BurstInv'
<1>1. cur.state \in {"idle", "addr", "finish"}
  <2>1. Types /\ Phases
    BY DEF BurstInv
  <2>2. job.dir = "read"
    BY DEF ReaderEdge
  <2>3. QED
    BY <2>1, <2>2 DEF Types, Phases, CursorType
<1>2. QED
  BY <1>1, ReaderIdle, ReaderAddr, ReaderFinish, Zenon

-----------------------------------------------------------------------------
LEMMA StutterInv ==
  ASSUME BurstInv, UNCHANGED burstVars
  PROVE  BurstInv'
<1>1. /\ job' = job /\ start' = start /\ cur' = cur /\ done' = done /\ wr' = wr
      /\ fifo' = fifo /\ rd' = rd /\ issued' = issued
  BY DEF burstVars
<1>2. QED
  BY <1>1 DEF BurstInv, Types, JobTypes, End, Phases, Cursor, Ahead, OnBus, Issued,
              LastIssued, Tiled, Beats, ReadAhead, NoWordLost

LEMMA InvImplies == BurstInv => BurstsRight
<1> SUFFICES ASSUME BurstInv PROVE BurstsRight
  OBVIOUS
<1>1. Types /\ Phases /\ Cursor /\ Issued /\ Tiled /\ Beats /\ ReadAhead /\ NoWordLost
  BY DEF BurstInv
<1>2. BurstTypeOK
  <2>1. job \in [dir : {"read", "write"}, from : 0 .. Block - 1, length : 0 .. MaxLen,
                 last : BOOLEAN, n : 0 .. Packets]
    BY <1>1 DEF Types, JobTypes
  <2>2. 0 .. Block - 1 \subseteq 0 .. Space - 1
    OBVIOUS
  <2>3. job \in [dir : {"read", "write"}, from : 0 .. Space - 1, length : 0 .. MaxLen,
                 last : BOOLEAN, n : 0 .. Packets]
    BY <2>1, <2>2
  <2>4. cur \in CursorType /\ fifo \in FifoType /\ rd \in ReaderType
    BY <1>1, Zenon DEF Types
  <2>5. /\ cur.state \in {"idle", "addr", "data", "finish"} /\ cur.len \in 0 .. Block - 1
        /\ {cur.addr, cur.tmp, cur.next, cur.end} \subseteq 0 .. Space - 1
    BY <2>4 DEF CursorType
  <2>6. fifo.words \in Nat /\ rd.queue \in Nat /\ rd.owed \in Nat
    BY <2>4 DEF ReaderType
  <2>7. ~(fifo.data_valid /\ fifo.tmpreg)
    BY <1>1, Zenon DEF ReadAhead
  <2>8. QED
    BY <2>3, <2>5, <2>6, <2>7, Zenon DEF BurstTypeOK
<1>3. BurstsTile
  BY <1>1 DEF BurstsTile, Tiled, Issued, End
<1>4. LastOnLastBeat
  BY <1>1 DEF LastOnLastBeat, Offered, Issued, Beats
<1>5. QED
  BY <1>1, <1>2, <1>3, <1>4 DEF BurstsRight

LEMMA InvKept == BurstSpec => []BurstInv
<1>1. BurstInv /\ [BurstNext]_burstVars => BurstInv'
  <2> SUFFICES ASSUME BurstInv, [BurstNext]_burstVars PROVE BurstInv'
    OBVIOUS
  <2>1. CASE \E dir \in {"read", "write"}, from \in 0 .. Block - 1, length \in 1 .. MaxLen,
                last \in BOOLEAN :
               /\ from % 2 = 0 /\ length % 2 = 0 /\ from + length =< Space \div 2
               /\ Post(dir, from, length, last)
    BY <2>1, PostInv, ZenonT(40)
  <2>2. CASE \E axready, wready, word \in BOOLEAN : WriterEdge(axready, wready, word)
    BY <2>2, WriterInv, Zenon
  <2>3. CASE \E axready, beat, ready \in BOOLEAN : ReaderEdge(axready, beat, ready)
    BY <2>3, ReaderInv, Zenon
  <2>4. CASE UNCHANGED burstVars
    BY <2>4, StutterInv
  <2>5. QED
    BY <2>1, <2>2, <2>3, <2>4, Zenon DEF BurstNext
<1>2. QED
  BY <1>1, InitialInv, PTL DEF BurstSpec

(* The bursts tile the packet within 512-byte blocks, wlast is up for the   *)
(* last beat of each, and every word the QDMA delivered is written once.    *)
THEOREM BurstsCorrect == BurstSpec => []BurstsRight
  BY InvKept, InvImplies, PTL

-----------------------------------------------------------------------------
(* When the reader completes. *)

(* Beats of the packet that no burst has asked the HBM for yet. *)
Unissued ==
  IF job.dir # "read" THEN 0
  ELSE IF start.init THEN job.length
  ELSE IF cur.state = "addr" THEN End - cur.addr ELSE 0

DueCounted == rd.due = rd.owed + Unissued

(* start sets both waits, which only the last packet uses. *)
HoldsSet ==
  job.dir = "read" /\ (start.init \/ cur.state = "addr") =>
    rd.hold1 = Hold1 /\ rd.hold2 = Hold2

(* seen[i] was sampled after the last beat had come, as hold1 tells. *)
Fresh(i) == i > Lag - (Hold1 - rd.hold1)

(* The FIFO fills no more once the first wait has begun: what a fresh sample *)
(* says of it still holds, and the second wait begins when all are fresh.    *)
Drying ==
  /\ rd.hold1 < Hold1 => rd.due = 0
  /\ \A i \in 1 .. Lag : Fresh(i) /\ rd.seen[i].empty => rd.queue = 0 /\ rd.out # "valid"
  /\ \A i, j \in 1 .. Lag :
       i < j /\ Fresh(i) /\ rd.seen[i].empty /\ ~rd.seen[j].tmpreg => rd.out = "none"
  /\ rd.hold2 < Hold2 =>
       /\ rd.hold1 = 0 /\ rd.queue = 0 /\ rd.out # "valid"
       /\ \A i \in 1 .. Lag : ~rd.seen[i].tmpreg => rd.out = "none"

Draining == job.dir = "read" /\ job.last /\ cur.state = "finish" => Drying

Drain == DueCounted /\ HoldsSet /\ Draining /\ DrainedWhenComplete

-----------------------------------------------------------------------------
LEMMA DrainInit == BurstInit => Drain
<1> SUFFICES ASSUME BurstInit PROVE Drain
  OBVIOUS
<1>1. /\ job.dir = "write" /\ rd.due = 0 /\ rd.owed = 0
  BY DEF BurstInit
<1>2. QED
  BY <1>1 DEF Drain, DueCounted, Unissued, HoldsSet, Draining, DrainedWhenComplete

LEMMA DrainPost ==
  ASSUME BurstInv, Drain, NEW dir, NEW from, NEW length, NEW last,
         Post(dir, from, length, last)
  PROVE  Drain'
<1>1. /\ cur.state = "idle" /\ ~start.init /\ rd' = rd /\ cur' = cur
      /\ start' = [start EXCEPT !.now = TRUE]
  BY DEF Post
<1>2. start'.now /\ ~start'.init
  BY <1>1 DEF BurstInv, Types, Bits
<1>3. Unissued = 0 /\ Unissued' = 0
  BY <1>1, <1>2 DEF Unissued
<1>4. DueCounted'
  BY <1>1, <1>3 DEF Drain, DueCounted
<1>5. QED
  BY <1>1, <1>2, <1>4 DEF Drain, HoldsSet, Draining, DrainedWhenComplete

LEMMA DrainWriter ==
  ASSUME Drain, NEW axready, NEW wready, NEW word, WriterEdge(axready, wready, word)
  PROVE  Drain'
<1>1. job.dir = "write" /\ job' = job /\ rd' = rd
  BY DEF WriterEdge
<1>2. QED
  BY <1>1 DEF Drain, DueCounted, Unissued, HoldsSet, Draining, DrainedWhenComplete

LEMMA DrainIdle ==
  ASSUME BurstInv, Drain, NEW axready, NEW beat \in BOOLEAN, NEW ready \in BOOLEAN,
         ReaderEdge(axready, beat, ready), cur.state = "idle"
  PROVE  Drain'
<1> DEFINE r == Stream(rd, beat, ready)
           in == IF beat THEN 1 ELSE 0
<1>1. /\ job.dir = "read" /\ job' = job /\ Begin("addr") /\ (beat => rd.owed > 0)
      /\ rd' = IF start.now
               THEN [r EXCEPT !.due = @ + job.length, !.hold1 = Hold1, !.hold2 = Hold2] ELSE r
      /\ done' = IF start.now THEN [done EXCEPT !.complete = FALSE] ELSE done
  BY DEF ReaderEdge
<1>2. /\ rd \in ReaderType /\ cur \in CursorType /\ JobTypes /\ Phases /\ Cursor
      /\ done \in [complete : BOOLEAN, clear : BOOLEAN]
  BY DEF BurstInv, Types
<1>3. /\ r \in ReaderType /\ r.owed = rd.owed - in /\ r.due = rd.due - in
      /\ r.queue = rd.queue + in - (IF ready /\ rd.queue > 0 THEN 1 ELSE 0)
      /\ r.out = IF ready /\ rd.queue > 0 THEN "valid"
                 ELSE IF rd.out # "none" /\ ~ready THEN "tmpreg" ELSE "none"
      /\ r.hold1 = rd.hold1 /\ r.hold2 = rd.hold2
  BY <1>1, <1>2, StreamFields
<1>4. /\ start' = [now |-> FALSE, init |-> start.now] /\ start'.init = start.now
      /\ ~start'.now
  BY <1>1 DEF Begin
<1> HIDE DEF r
<1>5. rd.owed \in Nat /\ rd.due \in Int /\ in \in Int /\ job.length \in Int /\ r.due \in Int
  <2>1. in \in Int
    OBVIOUS
  <2> HIDE DEF in
  <2>2. rd.owed \in Nat /\ rd.due \in Int /\ r.due \in Int
    BY <1>2, <1>3 DEF ReaderType
  <2>3. job.length \in Int
    BY <1>2 DEF JobTypes
  <2>4. QED
    BY <2>1, <2>2, <2>3
<1>6. CASE start.now
  <2>1. cur'.state = "idle"
    BY <1>1, <1>2, <1>6, LoadedCursor DEF Begin, Phases
  <2>2. rd'.owed = r.owed /\ rd'.due = r.due + job.length
        /\ rd'.hold1 = Hold1 /\ rd'.hold2 = Hold2
    <3> DEFINE due == r.due + job.length
    <3>1. rd' = [r EXCEPT !.due = due, !.hold1 = Hold1, !.hold2 = Hold2]
      BY <1>1, <1>6
    <3> HIDE DEF due
    <3>2. rd'.owed = r.owed /\ rd'.due = due /\ rd'.hold1 = Hold1 /\ rd'.hold2 = Hold2
      BY <1>3, <3>1 DEF ReaderType
    <3>3. QED
      BY <3>2 DEF due
  <2>3. Unissued = 0 /\ Unissued' = job.length
    BY <1>1, <1>2, <1>4, <1>6 DEF Unissued, Phases
  <2>4. DueCounted'
    BY <1>3, <1>5, <2>2, <2>3 DEF Drain, DueCounted
  <2>5. ~done'.complete
    BY <1>1, <1>2, <1>6
  <2>6. QED
    BY <2>1, <2>2, <2>4, <2>5 DEF Drain, HoldsSet, Draining, DrainedWhenComplete
<1>7. CASE ~start.now /\ start.init
  <2>1. rd' = r /\ cur' = Moved(cur, "addr") /\ cur.tmp = job.from
    BY <1>1, <1>2, <1>7 DEF Begin, Cursor
  <2>2. cur'.state = "addr" /\ cur'.addr = job.from
    BY <1>2, <2>1, MovedTypes
  <2>3. Unissued = job.length /\ Unissued' = job.length
    BY <1>1, <1>2, <1>4, <1>7, <2>2 DEF Unissued, End, JobTypes
  <2>4. DueCounted'
    BY <1>3, <1>5, <2>1, <2>3 DEF Drain, DueCounted
  <2>5. HoldsSet'
    BY <1>1, <1>3, <1>7, <2>1 DEF Drain, HoldsSet
  <2>6. QED
    BY <2>2, <2>4, <2>5 DEF Drain, Draining, DrainedWhenComplete
<1>8. CASE ~start.now /\ ~start.init
  <2>1. rd' = r /\ cur' = cur /\ done' = done
    BY <1>1, <1>8 DEF Begin
  <2>2. Unissued = 0 /\ Unissued' = 0
    BY <1>1, <1>4, <1>8, <2>1 DEF Unissued
  <2>3. DueCounted'
    BY <1>3, <1>5, <2>1, <2>2 DEF Drain, DueCounted
  <2>4. HoldsSet' /\ Draining'
    BY <1>4, <1>8, <2>1 DEF HoldsSet, Draining
  <2>5. DrainedWhenComplete'
    <3>1. SUFFICES ASSUME job.last, done.complete
                   PROVE  r.owed = 0 /\ r.queue = 0 /\ r.out = "none"
      BY <1>1, <2>1 DEF DrainedWhenComplete
    <3>2. rd.owed = 0 /\ rd.queue = 0 /\ rd.out = "none"
      BY <1>1, <1>8, <3>1 DEF Drain, DrainedWhenComplete
    <3>3. ~beat
      BY <1>1, <3>2
    <3>4. in = 0 /\ ~(rd.queue > 0)
      BY <3>2, <3>3
    <3> HIDE DEF in
    <3>5. r.owed = 0 /\ r.queue = 0
      BY <1>3, <3>2, <3>4
    <3>6. r.out = "none"
      BY <1>3, <3>2, <3>4
    <3>7. QED
      BY <3>5, <3>6
  <2>6. QED
    BY <2>3, <2>4, <2>5 DEF Drain
<1>9. QED
  BY <1>6, <1>7, <1>8

LEMMA DrainAddr ==
  ASSUME BurstInv, Drain, NEW axready \in BOOLEAN, NEW beat \in BOOLEAN, NEW ready \in BOOLEAN,
         ReaderEdge(axready, beat, ready), cur.state = "addr"
  PROVE  Drain'
<1> DEFINE in == IF beat THEN 1 ELSE 0
<1>1. /\ job.dir = "read" /\ job' = job /\ (beat => rd.owed > 0)
      /\ IF axready
         THEN /\ rd' = Stream([rd EXCEPT !.owed = @ + cur.len + 1], beat, ready)
              /\ cur' = IF cur.tmp = cur.end
                        THEN [Moved(cur, "finish") EXCEPT !.valid = FALSE]
                        ELSE Moved(cur, "addr")
         ELSE /\ rd' = Stream(rd, beat, ready)
              /\ cur' = cur
      /\ start' = start /\ done' = done
  BY DEF ReaderEdge
<1>2. /\ rd \in ReaderType /\ cur \in CursorType /\ JobTypes /\ Phases /\ Cursor
  BY DEF BurstInv, Types
<1>3. Ahead(cur) /\ OnBus(cur) /\ ~start.now /\ ~start.init
  BY <1>2 DEF Cursor, Phases
<1>4. rd.hold1 = Hold1 /\ rd.hold2 = Hold2 /\ Unissued = End - cur.addr
  BY <1>1, <1>3 DEF Drain, HoldsSet, Unissued
<1>5. /\ rd.owed \in Nat /\ rd.due \in Int /\ in \in Int /\ cur.len \in Nat /\ cur.addr \in Int
      /\ cur.tmp \in Int /\ End \in Int /\ rd.due = rd.owed + (End - cur.addr)
      /\ cur.addr + cur.len + 1 = cur.tmp /\ cur.end = End
  BY <1>2, <1>3, <1>4 DEF ReaderType, CursorType, JobTypes, End, Ahead, OnBus, Drain, DueCounted
<1>6. CASE axready
  <2> DEFINE owed == rd.owed + cur.len + 1
             r == [rd EXCEPT !.owed = owed]
  <2>1. /\ rd' = Stream(r, beat, ready)
        /\ cur' = IF cur.tmp = cur.end
                  THEN [Moved(cur, "finish") EXCEPT !.valid = FALSE]
                  ELSE Moved(cur, "addr")
    BY <1>1, <1>6
  <2>2. owed \in Nat /\ owed > 0
    BY <1>5
  <2> HIDE DEF owed
  <2>3. /\ r \in ReaderType /\ r.queue = rd.queue /\ r.owed = owed /\ r.due = rd.due
        /\ r.hold1 = rd.hold1 /\ r.hold2 = rd.hold2
    BY <1>2, <2>2 DEF ReaderType
  <2> HIDE DEF r
  <2>4. /\ rd'.owed = owed - in /\ rd'.due = rd.due - in
        /\ rd'.hold1 = Hold1 /\ rd'.hold2 = Hold2
    BY <1>2, <1>4, <2>1, <2>2, <2>3, StreamFields
  <2>5. owed = rd.owed + cur.len + 1
    BY DEF owed
  <2>6. CASE cur.tmp = cur.end
    <3> DEFINE c == Moved(cur, "finish")
    <3>1. c \in CursorType /\ c.state = "finish"
      BY <1>2, MovedTypes
    <3> HIDE DEF c
    <3>2. cur' = [c EXCEPT !.valid = FALSE]
      BY <2>1, <2>6 DEF c
    <3>3. cur'.state = "finish"
      BY <3>1, <3>2 DEF CursorType
    <3>4. Unissued' = 0
      BY <1>1, <1>3, <3>3 DEF Unissued
    <3>5. DueCounted'
      BY <1>5, <2>4, <2>5, <2>6, <3>4 DEF DueCounted
    <3>6. Drying'
      <4>1. ~(rd'.hold1 < Hold1) /\ ~(rd'.hold2 < Hold2)
        BY <2>4
      <4>2. \A i \in 1 .. Lag : ~Fresh(i)'
        BY <2>4 DEF Fresh
      <4>3. QED
        BY <4>1, <4>2, Zenon DEF Drying
    <3>7. QED
      BY <1>1, <1>3, <3>3, <3>5, <3>6 DEF Drain, HoldsSet, Draining, DrainedWhenComplete
  <2>7. CASE cur.tmp # cur.end
    <3>1. cur' = Moved(cur, "addr")
      BY <2>1, <2>7
    <3>2. cur'.state = "addr" /\ cur'.addr = cur.tmp
      BY <1>2, <3>1, MovedTypes
    <3>3. Unissued' = End - cur.tmp
      BY <1>1, <1>3, <3>2 DEF Unissued, End
    <3>4. DueCounted'
      BY <1>5, <2>4, <2>5, <3>3 DEF DueCounted
    <3>5. QED
      BY <2>4, <3>2, <3>4 DEF Drain, HoldsSet, Draining, DrainedWhenComplete
  <2>8. QED
    BY <2>6, <2>7
<1>7. CASE ~axready
  <2>1. rd' = Stream(rd, beat, ready) /\ cur' = cur
    BY <1>1, <1>7
  <2>2. /\ rd'.owed = rd.owed - in /\ rd'.due = rd.due - in
        /\ rd'.hold1 = Hold1 /\ rd'.hold2 = Hold2
    BY <1>1, <1>2, <1>4, <2>1, StreamFields
  <2>3. Unissued' = End - cur.addr
    BY <1>1, <1>3, <2>1 DEF Unissued, End
  <2>4. DueCounted'
    BY <1>5, <2>2, <2>3 DEF DueCounted
  <2>5. QED
    BY <2>1, <2>2, <2>4 DEF Drain, HoldsSet, Draining, DrainedWhenComplete
<1>8. QED
  BY <1>6, <1>7

-----------------------------------------------------------------------------
(* One more edge of the two waits, no beat being due when the first runs.   *)
LEMMA SettledKept ==
  ASSUME Drying, rd \in ReaderType, Lag =< Hold1, rd.due = rd.owed,
         NEW beat \in BOOLEAN, NEW ready \in BOOLEAN, beat => rd.owed > 0,
         rd' = Stream(HeldLong(rd), beat, ready)
  PROVE  Drying'
<1> DEFINE r == HeldLong(rd)
           in == IF beat THEN 1 ELSE 0
           read == IF ready /\ rd.queue > 0 THEN 1 ELSE 0
           now == [empty |-> rd.queue = 0, tmpreg |-> rd.out = "tmpreg"]
           E(i) == rd.seen[i].empty
           T(i) == rd.seen[i].tmpreg
           E1(i) == rd'.seen[i].empty
           T1(i) == rd'.seen[i].tmpreg
<1>1. /\ r \in ReaderType /\ r.queue = rd.queue /\ r.owed = rd.owed /\ r.due = rd.due
      /\ r.seen = rd.seen
      /\ r.hold1 = IF rd.due = 0 /\ rd.hold1 > 0 THEN rd.hold1 - 1 ELSE rd.hold1
      /\ r.hold2 = IF rd.hold1 = 0 /\ E(1) /\ rd.hold2 > 0 THEN rd.hold2 - 1 ELSE rd.hold2
  BY HeldLongTypes
<1> HIDE DEF r
<1>2. /\ rd'.due = rd.due - in /\ rd'.queue = rd.queue + in - read
      /\ rd'.out = IF ready /\ rd.queue > 0 THEN "valid"
                   ELSE IF rd.out # "none" /\ ~ready THEN "tmpreg" ELSE "none"
      /\ rd'.hold1 = r.hold1 /\ rd'.hold2 = r.hold2
      /\ \A i \in 1 .. Lag : rd'.seen[i] = IF i = Lag THEN now ELSE rd.seen[i + 1]
  BY <1>1, StreamFields DEF r
<1>3. /\ rd.hold1 \in 0 .. Hold1 /\ rd.hold2 \in 0 .. Hold2 /\ rd.queue \in Nat
      /\ rd.due \in Nat /\ rd.out \in {"none", "valid", "tmpreg"}
  BY DEF ReaderType
<1>4. /\ E1(Lag) <=> rd.queue = 0
      /\ T1(Lag) <=> rd.out = "tmpreg"
      /\ \A i \in 1 .. Lag : i # Lag => (E1(i) <=> E(i + 1)) /\ (T1(i) <=> T(i + 1))
  <2>1. (now.empty <=> rd.queue = 0) /\ (now.tmpreg <=> rd.out = "tmpreg")
    OBVIOUS
  <2> HIDE DEF now
  <2>2. \A i \in 1 .. Lag : rd'.seen[i] = IF i = Lag THEN now ELSE rd.seen[i + 1]
    BY <1>2
  <2>3. Lag \in 1 .. Lag
    OBVIOUS
  <2>4. QED
    BY <2>1, <2>2, <2>3, Zenon
<1>5. /\ rd.hold1 < Hold1 => rd.due = 0
      /\ \A i \in 1 .. Lag : Fresh(i) /\ E(i) => rd.queue = 0 /\ rd.out # "valid"
      /\ \A i, j \in 1 .. Lag : i < j /\ Fresh(i) /\ E(i) /\ ~T(j) => rd.out = "none"
      /\ rd.hold2 < Hold2 =>
           /\ rd.hold1 = 0 /\ rd.queue = 0 /\ rd.out # "valid"
           /\ \A i \in 1 .. Lag : ~T(i) => rd.out = "none"
  BY DEF Drying
<1>6. /\ rd'.hold1 = IF rd.due = 0 /\ rd.hold1 > 0 THEN rd.hold1 - 1 ELSE rd.hold1
      /\ rd'.hold2 = IF rd.hold1 = 0 /\ E(1) /\ rd.hold2 > 0 THEN rd.hold2 - 1 ELSE rd.hold2
  BY <1>1, <1>2
<1>7. SUFFICES
        /\ rd'.hold1 < Hold1 => rd'.due = 0
        /\ \A i \in 1 .. Lag : Fresh(i)' /\ E1(i) => rd'.queue = 0 /\ rd'.out # "valid"
        /\ \A i, j \in 1 .. Lag : i < j /\ Fresh(i)' /\ E1(i) /\ ~T1(j) => rd'.out = "none"
        /\ rd'.hold2 < Hold2 =>
             /\ rd'.hold1 = 0 /\ rd'.queue = 0 /\ rd'.out # "valid"
             /\ \A i \in 1 .. Lag : ~T1(i) => rd'.out = "none"
  BY DEF Drying
<1>8. /\ \A i : Fresh(i) <=> i > Lag - (Hold1 - rd.hold1)
      /\ \A i : Fresh(i)' <=> i > Lag - (Hold1 - rd'.hold1)
  BY DEF Fresh
<1>9. rd.queue = 0 /\ ~beat => rd'.queue = 0 /\ rd'.out # "valid"
  BY <1>2, <1>3
<1>10. rd.queue = 0 /\ rd.out = "none" => rd'.out = "none"
  BY <1>2, <1>3
<1>11. beat => rd.due # 0
  BY <1>3
<1>12. ~beat => rd'.due = rd.due
  BY <1>2, <1>3
<1> HIDE DEF E, T, E1, T1, now, in, read
<1>13. CASE rd.due # 0
  <2>1. rd.hold1 = Hold1
    BY <1>3, <1>5, <1>13
  <2>2. rd.hold2 = Hold2
    <3>1. rd.hold2 < Hold2 => rd.hold1 = 0
      BY <1>5
    <3>2. rd.hold2 < Hold2 => Hold1 = 0
      BY <2>1, <3>1
    <3>3. QED
      BY <1>3, <3>2
  <2>3. rd'.hold1 = Hold1
    BY <1>6, <1>13, <2>1
  <2>4. rd'.hold2 = Hold2
    BY <1>6, <2>1, <2>2
  <2>5. QED
    BY <1>8, <2>3, <2>4
<1>14. CASE rd.due = 0
  <2>1. ~beat /\ rd'.due = 0
    BY <1>11, <1>12, <1>14
  <2>2. \A i \in 1 .. Lag : Fresh(i)' => i = Lag \/ (i + 1 \in 1 .. Lag /\ Fresh(i + 1))
    BY <1>3, <1>6, <1>8, <1>14
  <2>3. \A i \in 1 .. Lag : Fresh(i)' /\ E1(i) => rd.queue = 0
    BY <1>4, <1>5, <2>2
  <2>4. \A i, j \in 1 .. Lag :
          i < j /\ Fresh(i)' /\ E1(i) /\ ~T1(j) => rd.queue = 0 /\ rd.out = "none"
    BY <1>3, <1>4, <1>5, <2>2, <2>3
  <2>5. rd'.hold2 < Hold2 =>
          /\ rd.hold1 = 0 /\ rd.queue = 0 /\ rd.out # "valid"
          /\ \A i \in 2 .. Lag : ~T(i) => rd.out = "none"
    BY <1>3, <1>5, <1>6, <1>8
  <2>6. rd'.hold2 < Hold2 =>
          /\ rd'.hold1 = 0 /\ rd'.queue = 0 /\ rd'.out # "valid"
          /\ \A i \in 1 .. Lag : ~T1(i) => rd'.out = "none"
    BY <1>3, <1>4, <1>6, <1>9, <1>10, <2>1, <2>5
  <2>7. QED
    BY <1>9, <1>10, <2>1, <2>3, <2>4, <2>6
<1>15. QED
  BY <1>3, <1>13, <1>14

(* The second wait is over: nothing is left in the FIFO or at its output. *)
LEMMA DrainFinish ==
  ASSUME BurstInv, Drain, NEW axready, NEW beat \in BOOLEAN, NEW ready \in BOOLEAN,
         ReaderEdge(axready, beat, ready), cur.state = "finish", Lag =< Hold1, Hold2 > 0
  PROVE  Drain'
<1> DEFINE in == IF beat THEN 1 ELSE 0
           r == IF job.last THEN HeldLong(rd) ELSE rd
           ends == job.last => rd.hold2 = 0 /\ ~rd.seen[1].tmpreg
<1>1. /\ job.dir = "read" /\ job' = job /\ (beat => rd.owed > 0)
      /\ rd' = Stream(r, beat, ready)
      /\ ends => cur' = Idle /\ done' = [done EXCEPT !.complete = TRUE]
      /\ ~ends => cur' = cur /\ done' = done
      /\ start' = start
  BY DEF ReaderEdge
<1>2. /\ rd \in ReaderType /\ ~start.now /\ ~start.init
  BY DEF BurstInv, Types, Phases
<1>3. Unissued = 0 /\ rd.due = rd.owed
  <2>1. Unissued = 0
    BY <1>2 DEF Unissued
  <2>2. QED
    BY <1>2, <2>1 DEF Drain, DueCounted, ReaderType
<1>4. r \in ReaderType /\ r.queue = rd.queue /\ r.owed = rd.owed /\ r.due = rd.due
  BY <1>2, HeldLongTypes
<1>5. /\ rd'.owed = rd.owed - in /\ rd'.due = rd.due - in
      /\ rd'.queue = rd.queue + in - (IF ready /\ rd.queue > 0 THEN 1 ELSE 0)
      /\ rd'.out = IF ready /\ rd.queue > 0 THEN "valid"
                   ELSE IF rd.out # "none" /\ ~ready THEN "tmpreg" ELSE "none"
  <2> HIDE DEF r
  <2>1. QED
    BY <1>1, <1>2, <1>4, StreamFields
<1>6. CASE ends
  <2>1. cur'.state = "idle"
    BY <1>1, <1>6 DEF Idle
  <2>2. Unissued' = 0
    BY <1>1, <1>2, <2>1 DEF Unissued
  <2>3. DueCounted'
    <3>1. rd'.due = rd'.owed /\ rd'.owed \in Int
      <4>1. in \in Int /\ rd.owed \in Int
        BY <1>2 DEF ReaderType
      <4> HIDE DEF in
      <4>2. QED
        BY <1>3, <1>5, <4>1
    <3>2. QED
      BY <2>2, <3>1 DEF DueCounted
  <2>4. DrainedWhenComplete'
    <3>1. SUFFICES ASSUME job.last PROVE rd'.owed = 0 /\ rd'.queue = 0 /\ rd'.out = "none"
      BY <1>1 DEF DrainedWhenComplete
    <3>2. Drying /\ rd.hold2 = 0 /\ ~rd.seen[1].tmpreg
      BY <1>1, <1>6, <3>1 DEF Drain, Draining
    <3>3. rd.hold2 < Hold2 /\ 1 \in 1 .. Lag
      BY <3>2
    <3>4. rd.hold1 = 0 /\ rd.queue = 0 /\ rd.out = "none"
      BY <3>2, <3>3, Zenon DEF Drying
    <3>5. rd.hold1 < Hold1
      BY <3>4
    <3>6. rd.due = 0
      BY <3>2, <3>5, Zenon DEF Drying
    <3>7. rd.owed = 0 /\ ~beat
      BY <1>1, <1>3, <3>6
    <3>8. in = 0 /\ ~(rd.queue > 0)
      BY <3>4, <3>7
    <3> HIDE DEF in
    <3>9. rd'.owed = 0 /\ rd'.queue = 0
      BY <1>5, <3>4, <3>7, <3>8
    <3>10. rd'.out = "none"
      BY <1>5, <3>4, <3>8
    <3>11. QED
      BY <3>9, <3>10
  <2>5. HoldsSet' /\ Draining'
    BY <1>1, <1>2, <2>1 DEF HoldsSet, Draining
  <2>6. QED
    BY <2>3, <2>4, <2>5 DEF Drain
<1>7. CASE ~ends
  <2>1. cur' = cur
    BY <1>1, <1>7
  <2>2. Unissued' = 0
    BY <1>1, <1>2, <2>1 DEF Unissued
  <2>3. DueCounted'
    <3>1. rd'.due = rd'.owed /\ rd'.owed \in Int
      <4>1. in \in Int /\ rd.owed \in Int
        BY <1>2 DEF ReaderType
      <4> HIDE DEF in
      <4>2. QED
        BY <1>3, <1>5, <4>1
    <3>2. QED
      BY <2>2, <3>1 DEF DueCounted
  <2>4. Drying'
    <3>1. job.last
      BY <1>7
    <3>2. Drying
      BY <1>1, <3>1 DEF Drain, Draining
    <3>3. rd' = Stream(HeldLong(rd), beat, ready)
      BY <1>1, <3>1
    <3>4. QED
      BY <1>1, <1>2, <1>3, <3>2, <3>3, SettledKept
  <2>5. QED
    BY <1>1, <1>2, <2>1, <2>3, <2>4 DEF Drain, HoldsSet, Draining, DrainedWhenComplete
<1>8. QED
  BY <1>6, <1>7

LEMMA DrainReader ==
  ASSUME BurstInv, Drain, NEW axready \in BOOLEAN, NEW beat \in BOOLEAN, NEW ready \in BOOLEAN,
         ReaderEdge(axready, beat, ready), Lag =< Hold1, Hold2 > 0
  PROVE  Drain'
<1>1. cur.state \in {"idle", "addr", "finish"}
  <2>1. Types /\ Phases
    BY DEF BurstInv
  <2>2. job.dir = "read"
    BY DEF ReaderEdge
  <2>3. QED
    BY <2>1, <2>2 DEF Types, Phases, CursorType
<1>2. QED
  BY <1>1, DrainIdle, DrainAddr, DrainFinish, Zenon

(* No completion overtakes its data: when the reader reports a command's    *)
(* last packet, no beat of it is still on its way to the QDMA port, however *)
(* late the FIFO's flags reach hbm_clk within the first wait's Hold1 edges. *)
THEOREM ReaderDrained ==
  ASSUME Lag =< Hold1, Hold2 > 0
  PROVE  BurstSpec => []DrainedWhenComplete
<1>1. BurstInv /\ Drain /\ [BurstNext]_burstVars => Drain'
  <2> SUFFICES ASSUME BurstInv, Drain, [BurstNext]_burstVars PROVE Drain'
    OBVIOUS
  <2>1. CASE \E dir \in {"read", "write"}, from \in 0 .. Block - 1, length \in 1 .. MaxLen,
                last \in BOOLEAN :
               /\ from % 2 = 0 /\ length % 2 = 0 /\ from + length =< Space \div 2
               /\ Post(dir, from, length, last)
    BY <2>1, DrainPost, Zenon
  <2>2. CASE \E axready, wready, word \in BOOLEAN : WriterEdge(axready, wready, word)
    BY <2>2, DrainWriter, Zenon
  <2>3. CASE \E axready, beat, ready \in BOOLEAN : ReaderEdge(axready, beat, ready)
    BY <2>3, DrainReader, Zenon
  <2>4. CASE UNCHANGED burstVars
    <3>1. /\ job' = job /\ start' = start /\ cur' = cur /\ done' = done /\ rd' = rd
      BY <2>4 DEF burstVars
    <3>2. QED
      BY <3>1 DEF Drain, DueCounted, Unissued, End, HoldsSet, Draining, Drying, Fresh,
                  DrainedWhenComplete
  <2>5. QED
    BY <2>1, <2>2, <2>3, <2>4, Zenon DEF BurstNext
<1>2. Drain => DrainedWhenComplete
  BY DEF Drain
<1>3. QED
  BY <1>1, <1>2, DrainInit, InvKept, PTL DEF BurstSpec
=============================================================================
