--------------------------- MODULE CompletionUnit ---------------------------
(***************************************************************************)
(* The completion unit of the FPGA design (C2H_Complete.scala): it writes  *)
(* one beat to the address of a finished command's flag, through the same  *)
(* QDMA port that carries device-to-host data.  Three clients share one    *)
(* cmd_valid, one data_valid and one cpt_addr: the host-to-device path     *)
(* (h2c), the device-to-host path (c2h) and the peer-to-peer counter (p2p).*)
(* The host sets polling before every command, so completions are enabled. *)
(*                                                                         *)
(* UnitStep(c, in) is the registers c after a clock edge with inputs in.   *)
(***************************************************************************)

(* Registers after reset; none is the value of an unused address. *)
UnitReset(none) ==
  [h2c_cpt_complete |-> TRUE,  c2h_cpt_complete |-> TRUE,  p2p_cpt_complete |-> TRUE,
   h2c_cpt_addr     |-> none,  c2h_cpt_addr     |-> none,  cpt_addr         |-> none,
   cmd_valid        |-> FALSE, data_valid       |-> FALSE,
   cmd_fire         |-> FALSE, data_fire        |-> FALSE,
   h2c_started      |-> FALSE, c2h_started      |-> FALSE, p2p_started      |-> FALSE,
   h2c_was          |-> FALSE, c2h_was          |-> FALSE]

(* Rising edges of the completion requests. *)
H2cGo(c, in) == in.h2c_complete /\ ~c.h2c_was
C2hGo(c, in) == in.c2h_complete /\ ~c.c2h_was
Go(c, in)    == in.p2p_complete \/ H2cGo(c, in) \/ C2hGo(c, in)

CmdFire(c, in)  == c.cmd_valid /\ in.cmd_ready
DataFire(c, in) == c.data_valid /\ in.data_ready

(* Both halves of a completion write have been accepted. *)
Written(c) == c.cmd_fire /\ c.data_fire

BadTold(c, started, flag, start) == flag \/ (Written(c) /\ started)

(* A client's cpt_complete flag: a write that ends raises it, and that     *)
(* comes later in the code than the start that lowers it.                  *)
Told(c, started, flag, start) == (Written(c) /\ started) \/ (flag /\ ~start)

(* A client's started flag. *)
Started(c, started, go) == IF started THEN ~Written(c) ELSE go

(* A start pulse latches the flag's address and lowers the client's        *)
(* cpt_complete; a request raises both valid bits; when both halves have   *)
(* been accepted, every client that has a write outstanding is told.       *)
UnitStep(c, in) ==
  [c EXCEPT
     !.h2c_was = in.h2c_complete,
     !.c2h_was = in.c2h_complete,
     !.h2c_cpt_addr = IF in.h2c_start THEN in.h2c_addr ELSE @,
     !.c2h_cpt_addr = IF in.c2h_start THEN in.c2h_addr ELSE @,
     !.h2c_cpt_complete = Told(c, c.h2c_started, @, in.h2c_start),
     !.c2h_cpt_complete = Told(c, c.c2h_started, @, in.c2h_start),
     !.p2p_cpt_complete = Told(c, c.p2p_started, @, @),
     !.h2c_started = Started(c, @, H2cGo(c, in)),
     !.c2h_started = Started(c, @, C2hGo(c, in)),
     !.p2p_started = Started(c, @, in.p2p_complete),
     !.cmd_valid   = (@ \/ Go(c, in)) /\ ~CmdFire(c, in),
     !.data_valid  = (@ \/ Go(c, in)) /\ ~DataFire(c, in),
     !.cmd_fire    = (@ \/ CmdFire(c, in)) /\ ~Written(c),
     !.data_fire   = (@ \/ DataFire(c, in)) /\ ~Written(c),
     !.cpt_addr    = IF C2hGo(c, in) THEN c.c2h_cpt_addr
                     ELSE IF H2cGo(c, in) THEN c.h2c_cpt_addr
                     ELSE IF in.p2p_complete THEN in.p2p_addr ELSE @]
=============================================================================
