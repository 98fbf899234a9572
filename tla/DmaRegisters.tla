---------------------------- MODULE DmaRegisters ----------------------------
(* How a program gives commands to a board: h2d and d2h of dma.cpp write the *)
(* fields of a command to one register each, then pulse a start register,    *)
(* whose rising edge makes the board take what the registers hold.  Threads  *)
(* that call them for one board share the registers.                         *)
(*                                                                           *)
(* A call is a record of its thread and its number; a register holds the     *)
(* call that wrote it last.                                                  *)
EXTENDS Integers, Sequences, FiniteSets

CONSTANTS
  Threads,
  Fields,    \* field registers of a command, abstracted from nine to this many
  MaxCalls   \* bound: calls of a thread

ASSUME DmaAssumption == Fields \in Nat \ {0} /\ MaxCalls \in Nat

Dirs == {"h2d", "d2h"}

NoCall == [thread |-> "none", n |-> 0]

VARIABLES
  bar,      \* per direction: [fields, start], registers 50 to 59 or 70 to 80
  thread,   \* per thread: [dir, pc, n]; pc counts the writes of a call, 0 between calls
  board,    \* per direction: the commands the board has taken, what the fields held
  alone     \* history, per thread: no other thread was in the same function

dmaVars == <<bar, thread, board, alone>>

DmaInit ==
  /\ bar = [d \in Dirs |-> [fields |-> [f \in 1 .. Fields |-> NoCall], start |-> 0]]
  /\ thread = [t \in Threads |-> [dir |-> "h2d", pc |-> 0, n |-> 0]]
  /\ board = [d \in Dirs |-> <<>>]
  /\ alone = [t \in Threads |-> TRUE]

Inside(d) == { t \in Threads : thread[t].pc > 0 /\ thread[t].dir = d }

ThisCall(t) == [thread |-> t, n |-> thread[t].n]

Step(t) == thread' = [thread EXCEPT ![t].pc = IF @ = Fields + 2 THEN 0 ELSE @ + 1]

Call(t, d) ==
  /\ thread[t].pc = 0 /\ thread[t].n < MaxCalls
  /\ thread' = [thread EXCEPT ![t] = [dir |-> d, pc |-> 1, n |-> @.n + 1]]
  /\ alone' = [u \in Threads |-> IF u = t THEN Inside(d) = {} ELSE alone[u] /\ u \notin Inside(d)]
  /\ UNCHANGED <<bar, board>>

BadBank(d) == "h2d"  \* mutant: d2h uses the registers of h2d

(* The registers of a function. *)
Bank(d) == d

WriteField(t) ==
  LET b == Bank(thread[t].dir)
  IN  /\ thread[t].pc \in 1 .. Fields
      /\ bar' = [bar EXCEPT ![b].fields[thread[t].pc] = ThisCall(t)]
      /\ Step(t) /\ UNCHANGED <<board, alone>>

(* The start register is set: the board takes the command at the edge, if    *)
(* the register was clear.                                                   *)
Start(t) ==
  LET b == Bank(thread[t].dir)
  IN  /\ thread[t].pc = Fields + 1
      /\ bar' = [bar EXCEPT ![b].start = 1]
      /\ board' = IF bar[b].start = 0 THEN [board EXCEPT ![b] = Append(@, bar[b].fields)] ELSE board
      /\ Step(t) /\ UNCHANGED alone

Clear(t) ==
  /\ thread[t].pc = Fields + 2
  /\ bar' = [bar EXCEPT ![Bank(thread[t].dir)].start = 0]
  /\ Step(t) /\ UNCHANGED <<board, alone>>

DmaNext ==
  \E t \in Threads :
    (\E d \in Dirs : Call(t, d)) \/ WriteField(t) \/ Start(t) \/ Clear(t)

-----------------------------------------------------------------------------
(* A call that shares its function with no other, though the other function  *)
(* runs at the same time, has given the board exactly one command, and that  *)
(* command is whole: every field is this call's.                             *)
CallPosts ==
  \A t \in Threads : thread[t].pc = Fields + 2 /\ alone[t] =>
    Cardinality({ k \in DOMAIN board[thread[t].dir] :
                    board[thread[t].dir][k] = [f \in 1 .. Fields |-> ThisCall(t)] }) = 1
=============================================================================
