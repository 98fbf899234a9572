--------------------------- MODULE CmdQueueCommon ---------------------------
(* What the two command queues of the design share: the names of the       *)
(* queues, and the address arithmetic of their heads.                      *)
EXTENDS Integers

CONSTANTS
  NumQ,       \* number of queues, q_num = 16 in the code
  AddrSpace   \* size of the HBM address space, 2^34 bytes in the code

Queues == 0 .. NumQ - 1

(* The round-robin successor of queue i. *)
Succ(i) == IF i = NumQ - 1 THEN 0 ELSE i + 1

BadPlus(a, b) == a + b                                  \* a carry into bit 34

(* 34-bit adder and subtracter of the address registers. *)
Plus(a, b)  == IF a + b < AddrSpace THEN a + b ELSE a + b - AddrSpace
Minus(a, b) == IF b =< a THEN a - b ELSE a - b + AddrSpace

(* A command is named by its queue and its number; the name stands for the *)
(* address of its completion flag.                                         *)
NoId == [q |-> 0, n |-> 0]
=============================================================================
