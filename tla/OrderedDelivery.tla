-------------------------- MODULE OrderedDelivery --------------------------
(***************************************************************************)
(* What a DMA path promises the host: every flow carries out its commands  *)
(* one at a time and in the order they were posted, moves each command's   *)
(* data from its first beat to its last, and reports a command complete    *)
(* once, when all of its data has been moved.  How the flows share the     *)
(* path, and in what pieces the data moves, is left open.                  *)
(***************************************************************************)
EXTENDS Naturals, Sequences

CONSTANTS
  Flows,      \* the independent flows of commands
  Jobs(_)     \* Jobs(i): the commands flow i may be given, with id and len

VARIABLES
  todo,       \* todo[i]: commands of flow i not yet reported, oldest first
  moved,      \* moved[i]: how much of the oldest one has been moved
  done        \* the reports made, in order

vars == <<todo, moved, done>>

Init ==
  /\ todo = [i \in Flows |-> <<>>]
  /\ moved = [i \in Flows |-> 0]
  /\ done = <<>>

Accept(i, c) ==
  /\ todo' = [todo EXCEPT ![i] = Append(@, c)]
  /\ UNCHANGED <<moved, done>>

Move(i) ==
  /\ todo[i] # <<>>
  /\ \E n \in moved[i] + 1 .. Head(todo[i]).len :
       moved' = [moved EXCEPT ![i] = n]
  /\ UNCHANGED <<todo, done>>

Report(i) ==
  /\ todo[i] # <<>>
  /\ moved[i] = Head(todo[i]).len
  /\ todo' = [todo EXCEPT ![i] = Tail(@)]
  /\ moved' = [moved EXCEPT ![i] = 0]
  /\ done' = Append(done, Head(todo[i]).id)

Next == \E i \in Flows :
          \/ \E c \in Jobs(i) : Accept(i, c)
          \/ Move(i)
          \/ Report(i)

Spec == Init /\ [][Next]_vars
=============================================================================
