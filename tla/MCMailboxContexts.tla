-------------------------- MODULE MCMailboxContexts --------------------------
(* The physical function's side of the card, and how a board's table is set  *)
(* up.  Parts that share no state are checked in one run, each alone: the     *)
(* mailbox with two virtual functions, the layouts of the contexts, their     *)
(* contents, the commands on them by netlink and by one other thread at a     *)
(* time, and the set-up of the translation tables.                            *)
EXTENDS VfMailbox, ContextLayout, ContextContents, ContextCommands, TableSetup, TLC

CONSTANTS v1, v2
Sym == Permutations(VF)

(* Ring sizes: with a size twice, in another order, and one that is not in *)
(* the others.                                                             *)
SmallTables == {<<3, 5, 3>>, <<4, 3, 2>>, <<3, 4, 5>>}

(* Both directions of one queue of the physical function, one of them with *)
(* all contexts, and a completion queue of a virtual one.                  *)
H2cQueue  == [qid |-> 0, dir |-> "h2c", st |-> FALSE]
C2hQueue  == [qid |-> 0, dir |-> "c2h", st |-> TRUE]
CmptQueue == [qid |-> 1, dir |-> "cmpt", st |-> FALSE]
TwoDirections == {H2cQueue, C2hQueue}
OneCmpt       == {CmptQueue}

ThreeBoards == <<"b1", "b2", "b3">>

VARIABLE works

Init ==
  /\ MailInit /\ LayoutInit /\ ContentInit /\ CmdInit /\ SetupInit
  /\ works \in {"mailbox", "layout", "contents", Mailbox, Debugfs, "tables"}

Next ==
  /\ UNCHANGED works
  /\ \/ works = "mailbox" /\ MailNext /\ UNCHANGED <<layoutVars, contentVars, cmdVars, setupVars>>
     \/ works = "layout" /\ LayoutNext /\ UNCHANGED <<mailVars, contentVars, cmdVars, setupVars>>
     \/ works = "contents" /\ ContentNext /\ UNCHANGED <<mailVars, layoutVars, cmdVars, setupVars>>
     \/ /\ works \in {Mailbox, Debugfs} /\ CmdNext
        /\ call'[IF works = Mailbox THEN Debugfs ELSE Mailbox] = Resting
        /\ UNCHANGED <<mailVars, layoutVars, contentVars, setupVars>>
     \/ works = "tables" /\ SetupNext /\ UNCHANGED <<mailVars, layoutVars, contentVars, cmdVars>>

Spec == Init /\ [][Next]_<<mailVars, layoutVars, contentVars, cmdVars, setupVars, works>>

(* What the driver puts into the contexts and what it reads from them. *)
ContentsRight == LayoutsAgree /\ SameContexts
=============================================================================
