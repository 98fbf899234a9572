----------------------------- MODULE HbmSpace -----------------------------
(* The host library's allocator of HBM addresses (QDMAController.cpp): the   *)
(* free list hbmlist of one board and the sizes hbmu of what it handed out.  *)
EXTENDS RegionList, FiniteSets

CONSTANTS Base,      \* first address handed out
          Total,     \* size of the space
          HbmSizes,  \* sizes that callers ask for
          MaxNodes   \* bound: callers ask for nothing while the list is longer

EndOfCard == Base + Total

ASSUME SpaceAssumption ==
  /\ Base \in Nat /\ Total \in Nat \ {0} /\ Total % Unit = 0
  /\ HbmSizes \subseteq 1 .. Total
  /\ MaxNodes \in Nat

VARIABLES hbmlist, hbmu,
          hbmheld, \* the buffers callers have, with the size they asked for
          crashed, \* a walk went through the null pointer
          ragged   \* history: a size that is not a multiple of Unit was granted

hbmVars == <<hbmlist, hbmu, hbmheld, crashed, ragged>>

(* init_hbmaddr *)
HbmInit ==
  /\ hbmlist = <<Region(Base, Total)>>
  /\ hbmu = <<>>
  /\ hbmheld = {}
  /\ crashed = FALSE /\ ragged = FALSE

(* A call that finds no region changes nothing.  It answers 4294967295, an   *)
(* address of the space like any other.                                      *)
Hbm_getaddr(size) ==
  /\ ~crashed /\ Len(hbmlist) =< MaxNodes
  /\ Fits(hbmlist, size)
  /\ LET g == Granted(hbmlist, size)
     IN  /\ hbmu' = Noted(hbmu, g)
         /\ hbmheld' = hbmheld \union {[addr |-> g.addr, size |-> size]}
  /\ hbmlist' = Taken(hbmlist, size)
  /\ ragged' = (ragged \/ size % Unit # 0)
  /\ UNCHANGED crashed

Hbm_free(b) ==
  /\ ~crashed
  /\ hbmu' = Forgotten(hbmu, b.addr)
  /\ hbmheld' = hbmheld \ {b}
  /\ IF RunsOff(hbmlist, b.addr)
     THEN crashed' = TRUE /\ UNCHANGED hbmlist
     ELSE hbmlist' = Joined(hbmlist, b.addr, hbmu[b.addr]) /\ UNCHANGED crashed
  /\ UNCHANGED ragged

HbmNext ==
  \/ \E size \in HbmSizes : Hbm_getaddr(size)
  \/ \E b \in hbmheld : Hbm_free(b)

-----------------------------------------------------------------------------
(* The list is made of regions of the space, and what is granted lies in it. *)
HbmTypeOK ==
  /\ \A k \in DOMAIN hbmlist : hbmlist[k].start \in Base .. EndOfCard /\ hbmlist[k].end \in Base .. EndOfCard
  /\ \A a \in DOMAIN hbmu : a \in Base .. EndOfCard - 1 /\ a + hbmu[a] =< EndOfCard
  /\ hbmheld \subseteq [addr : Base .. EndOfCard - 1, size : HbmSizes]
  /\ crashed \in BOOLEAN /\ ragged \in BOOLEAN

(* Whatever is handed out and returned, in any order: every buffer lies      *)
(* inside its grant, and no address is granted twice or granted while it is  *)
(* in the free list.                                                         *)
Disjoint ==
  ~crashed => /\ NoOverlap(hbmlist, hbmu)
              /\ \A b \in hbmheld : b.addr \in DOMAIN hbmu /\ b.size =< hbmu[b.addr]
              /\ Cardinality(hbmheld) = Cardinality(DOMAIN hbmu)

(* No memory is lost: every address of the space is free or granted; and     *)
(* every node's end agrees with its length, although the code never          *)
(* recomputes one from the other.                                            *)
NothingLost ==
  ~crashed => Covered(hbmlist, hbmu, Base, EndOfCard) /\ Consistent(hbmlist)

(* The free walk has no end test, yet it is safe as long as a node ends at   *)
(* the top of the space, even an empty one left by a rounded grant.          *)
SafeWhileTopListed ==
  (~crashed /\ \E k \in DOMAIN hbmlist : hbmlist[k].end = EndOfCard)
    => \A b \in hbmheld : ~RunsOff(hbmlist, b.addr)

(* When every buffer has been returned the list is the one region it began   *)
(* as, if all sizes were multiples of Unit: an empty node left by a rounded  *)
(* grant can come to lie between two regions and keep them apart.            *)
Rejoined == (~crashed /\ ~ragged /\ hbmheld = {}) => hbmlist = <<Region(Base, Total)>>

(* "This function frees an existing buffer from the freelist of HBM space of *)
(* an FPGA": a buffer that was handed out can be returned.                   *)
FreeReturns == ~crashed

(* What the allocator keeps through any order of calls.  *)
SpaceKept == HbmTypeOK /\ Disjoint /\ NothingLost /\ Rejoined
=============================================================================
