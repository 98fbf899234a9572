------------------------------ MODULE MCHbmSide ------------------------------
(* The two parts of a board that run on the clock of its HBM and share no     *)
(* state, checked in one run, each alone.  Two peer-to-peer requests of       *)
(* different lengths; blocks of four beats and packets of up to three bursts. *)
EXTENDS PeerToPeer, HbmBursts

MCLength == [n \in 1 .. Requests |-> n]

VARIABLE works

Init == P2PInit /\ BurstInit /\ works \in {"p2p", "bursts"}

allVars == <<p2pVars, burstVars, works>>

P2P(A)    == works = "p2p"    /\ A /\ UNCHANGED <<burstVars, works>>
Bursts(A) == works = "bursts" /\ A /\ UNCHANGED <<p2pVars, works>>

Next == P2P(P2PNext) \/ Bursts(BurstNext)

(* The fairness of both parts: one conjunct stands for one of each, for only *)
(* one part works.                                                           *)
FairSpec ==
  /\ Init /\ [][Next]_allVars
  /\ WF_allVars(P2P(Host) \/ Bursts(WriterEdge(TRUE, TRUE, FALSE)))
  /\ WF_allVars(\/ P2P(\E told \in BOOLEAN : HbmEdge(TRUE, told))
                \/ Bursts(WriterEdge(TRUE, TRUE, TRUE)))
  /\ WF_allVars(\/ P2P(\E beat \in BOOLEAN : HbmEdge(beat, TRUE))
                \/ Bursts(ReaderEdge(TRUE, FALSE, TRUE)))
  /\ WF_allVars(\/ P2P(\E beat, told \in BOOLEAN : HbmEdge(beat, told))
                \/ Bursts(ReaderEdge(TRUE, TRUE, TRUE)))
  /\ WF_allVars(P2P(\E ready \in BOOLEAN \X BOOLEAN : UserEdge(TRUE, ready)))
  /\ WF_allVars(P2P(\E p2p \in BOOLEAN : UserEdge(p2p, <<TRUE, TRUE>>)))
  /\ WF_allVars(P2P(WriteFlag))
=============================================================================
