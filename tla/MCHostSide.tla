----------------------------- MODULE MCHostSide -----------------------------
(* What software on the host keeps.  Five parts that share no state are       *)
(* checked in one run, each alone: the physical functions of one board and    *)
(* their queues, the two allocators of the host library, the registers that   *)
(* commands are written to, and the boards' translation of addresses.  A      *)
(* small request is a third of the allocators' unit, or one more than the     *)
(* unit.                                                                      *)
EXTENDS DeviceControl, HbmSpace, HugePages, DmaRegisters, AddressTranslation, TLC

CONSTANTS f1, f2
Sym == Permutations(Func)

TwoSlotSizes == <<1, 2>>

(* A command inside a page, and one over three. *)
SmallMini == [d \in Dir |-> IF d = "h2c" THEN 2 ELSE 1]
SmallCmds == { [addr |-> 4, len |-> 2], [addr |-> 3, len |-> 6] }

VARIABLE works

Init ==
  /\ ControlInit /\ HbmInit /\ HugeInit /\ DmaInit /\ TransInit
  /\ works \in {"control", "hbm", "pages", "commands", "translation"}

allVars == <<controlVars, hbmVars, hugeVars, dmaVars, transVars>>

Next ==
  /\ UNCHANGED works
  /\ \/ /\ works = "control" /\ ControlNext
        /\ UNCHANGED <<hbmVars, hugeVars, dmaVars, transVars>>
     \/ /\ works = "hbm" /\ HbmNext
        /\ UNCHANGED <<controlVars, hugeVars, dmaVars, transVars>>
     \/ /\ works = "pages" /\ HugeNext
        /\ UNCHANGED <<controlVars, hbmVars, dmaVars, transVars>>
     \/ /\ works = "commands" /\ DmaNext
        /\ UNCHANGED <<controlVars, hbmVars, hugeVars, transVars>>
     \/ /\ works = "translation" /\ TransNext
        /\ UNCHANGED <<controlVars, hbmVars, hugeVars, dmaVars>>

Spec == Init /\ [][Next]_<<allVars, works>>
=============================================================================
