--------------------------- MODULE MCH2DCmdQueue ---------------------------
(* Small instances of H2DCmdQueue for TLC. *)
EXTENDS H2DCmdQueue

(* Two commands that end at the last beat of the address space: one of a    *)
(* single packet, one of two packets with a short final one.               *)
SmallCmds == { [h2c |-> 0, h2m |-> 7, len |-> 1, pkt |-> 2],
               [h2c |-> 4, h2m |-> 5, len |-> 3, pkt |-> 2] }

(* The same commands and one of three whole packets. *)
MoreCmds == SmallCmds \union { [h2c |-> 0, h2m |-> 1, len |-> 6, pkt |-> 2] }
=============================================================================
