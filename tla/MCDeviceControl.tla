-------------------------- MODULE MCDeviceControl ---------------------------
(* Bounds for DeviceControl: two functions of one board. *)
EXTENDS DeviceControl, TLC
CONSTANTS f1, f2
Sym == Permutations(Func)
=============================================================================
