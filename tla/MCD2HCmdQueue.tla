--------------------------- MODULE MCD2HCmdQueue ---------------------------
(* Small instances of D2HCmdQueue for TLC. *)
EXTENDS D2HCmdQueue

(* A command of a single packet, and one of two packets with a short final *)
(* one that ends at the last beat of the address space.                    *)
SmallCmds == { [m2h |-> 0, len |-> 1, pkt |-> 2],
               [m2h |-> 5, len |-> 3, pkt |-> 2] }
=============================================================================
