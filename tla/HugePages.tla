----------------------------- MODULE HugePages -----------------------------
(* The host library's allocator of huge-page memory (QDMAController.cpp):    *)
(* lists of equal slots for small requests, and above them in the address    *)
(* space the first-fit list o5fl for large ones and for small ones whose     *)
(* list is empty.                                                            *)
EXTENDS RegionList, FiniteSets

CONSTANTS NumLists,  \* number of slot lists, o1fl to o4fl
          Slots,     \* slots in each list, 1024
          SlotSize,  \* their sizes in the lists, smallest first
          Large,     \* size of the memory of o5fl
          HugeSizes,     \* sizes that callers ask for
          MaxRegions   \* bound: callers ask for nothing while o5fl is longer

Lists == 1 .. NumLists

ASSUME HugePagesAssumption ==
  /\ NumLists \in Nat /\ Slots \in Nat \ {0}
  /\ SlotSize \in [Lists -> Nat \ {0}]
  /\ \A c \in Lists : c > 1 => SlotSize[c - 1] < SlotSize[c]
  /\ Large \in Nat \ {0} /\ Large % Unit = 0
  /\ HugeSizes \subseteq Nat \ {0}
  /\ MaxRegions \in Nat

(* The slots of list c start where those of list c - 1 end. *)
hpstart == 0
ListStart[c \in 1 .. NumLists + 1] ==
  IF c = 1 THEN hpstart ELSE ListStart[c - 1] + Slots * SlotSize[c - 1]
LargeStart == ListStart[NumLists + 1]
hpend == LargeStart + Large

VARIABLES slots,  \* the free slots of each list, by index, in list order
          o5fl,   \* the free regions of the large memory
          o5flu,  \* the size of each region granted from it
          buffers,   \* the buffers callers have, with the size they asked for
          o5crashed \* a walk went through the null pointer

hugeVars == <<slots, o5fl, o5flu, buffers, o5crashed>>

(* init_freelist *)
HugeInit ==
  /\ slots = [c \in Lists |-> [i \in 1 .. Slots |-> i - 1]]
  /\ o5fl = <<Region(LargeStart, Large)>>
  /\ o5flu = <<>>
  /\ buffers = {}
  /\ o5crashed = FALSE

(* The list that serves a size, NumLists + 1 when only o5fl can. *)
BadListFor(size) ==  \* mutant: each bound one list too low
  CHOOSE c \in 1 .. NumLists + 1 :
    /\ c =< NumLists => size =< SlotSize[c] + 1
    /\ \A d \in 1 .. c - 1 : size > SlotSize[d] + 1

ListFor(size) ==
  CHOOSE c \in 1 .. NumLists + 1 :
    /\ c =< NumLists => size =< SlotSize[c]
    /\ \A d \in 1 .. c - 1 : size > SlotSize[d]

Slot(c, i) == ListStart[c] + i * SlotSize[c]

(* o1fl_alloc to o4fl_alloc: the slot at the front of the list. *)
SlotAlloc(c, size) ==
  /\ slots[c] # <<>>
  /\ slots' = [slots EXCEPT ![c] = Tail(@)]
  /\ buffers' = buffers \union {[addr |-> Slot(c, Head(slots[c])), size |-> size]}
  /\ UNCHANGED <<o5fl, o5flu, o5crashed>>

O5fl_alloc(size) ==
  /\ Fits(o5fl, size)
  /\ LET g == Granted(o5fl, size)
     IN  /\ o5flu' = Noted(o5flu, g)
         /\ buffers' = buffers \union {[addr |-> g.addr, size |-> size]}
  /\ o5fl' = Taken(o5fl, size)
  /\ UNCHANGED <<slots, o5crashed>>

(* A size whose own list is empty goes to o5fl, not to the next larger list. *)
(* If that has no region either, the null pointer returned leaves all as is. *)
Hpalloc(size) ==
  /\ ~o5crashed /\ Len(o5fl) =< MaxRegions
  /\ LET c == ListFor(size)
     IN  \/ c =< NumLists /\ SlotAlloc(c, size)
         \/ (c =< NumLists => slots[c] = <<>>) /\ O5fl_alloc(size)

(* A buffer goes back to the list whose slots' addresses it lies among. *)
Home(addr) == CHOOSE c \in Lists : ListStart[c] =< addr /\ addr < ListStart[c + 1]

(* o1fl_free to o4fl_free: the slot goes to the back of the list. *)
SlotFree(c, addr) ==
  /\ slots' = [slots EXCEPT ![c] = Append(@, (addr - ListStart[c]) \div SlotSize[c])]
  /\ UNCHANGED <<o5fl, o5flu, o5crashed>>

O5fl_free(addr) ==
  /\ o5flu' = Forgotten(o5flu, addr)
  /\ IF RunsOff(o5fl, addr)
     THEN o5crashed' = TRUE /\ UNCHANGED o5fl
     ELSE o5fl' = Joined(o5fl, addr, o5flu[addr]) /\ UNCHANGED o5crashed
  /\ UNCHANGED slots

(* o5flu decides before the address does. *)
Hpfree(b) ==
  /\ ~o5crashed
  /\ buffers' = buffers \ {b}
  /\ IF b.addr \in DOMAIN o5flu
     THEN O5fl_free(b.addr)
     ELSE SlotFree(Home(b.addr), b.addr)

HugeNext ==
  \/ \E size \in HugeSizes : Hpalloc(size)
  \/ \E b \in buffers : Hpfree(b)

-----------------------------------------------------------------------------
(* The lists hold slots they have, and the large regions lie above them. *)
HugeTypeOK ==
  /\ \A c \in Lists : \A k \in DOMAIN slots[c] : slots[c][k] \in 0 .. Slots - 1
  /\ \A k \in DOMAIN o5fl :
       o5fl[k].start \in LargeStart .. hpend /\ o5fl[k].end \in LargeStart .. hpend
  /\ \A a \in DOMAIN o5flu : a \in LargeStart .. hpend - 1 /\ a + o5flu[a] =< hpend
  /\ buffers \subseteq [addr : hpstart .. hpend - 1, size : HugeSizes]
  /\ o5crashed \in BOOLEAN

(* Every buffer that a caller has is apart from every other buffer, from the *)
(* free slots and from the free regions, through any number of calls and     *)
(* through the fallback of small sizes to o5fl.                              *)
BuffersApart ==
  /\ \A a, b \in buffers : a # b => ~Overlap(a.addr, a.size, b.addr, b.size)
  /\ \A b \in buffers :
       /\ \A c \in Lists : \A k \in DOMAIN slots[c] :
            ~Overlap(b.addr, b.size, Slot(c, slots[c][k]), SlotSize[c])
       /\ \A k \in DOMAIN o5fl : ~Overlap(b.addr, b.size, o5fl[k].start, o5fl[k].length)

(* Every slot is in the list it belongs to once, or with one caller; and the *)
(* large memory is all there.  So hpfree, which is told no size and no list, *)
(* returns each buffer where hpalloc took it from.                           *)
BackWhereItCameFrom ==
  /\ \A c \in Lists, i \in 0 .. Slots - 1 :
       Cardinality({k \in DOMAIN slots[c] : slots[c][k] = i})
         + Cardinality({b \in buffers : b.addr = Slot(c, i)}) = 1
  /\ ~o5crashed => Covered(o5fl, o5flu, LargeStart, hpend) /\ Consistent(o5fl)

(* What hpalloc and hpfree keep through any order of calls. *)
BuffersKept == HugeTypeOK /\ BuffersApart /\ BackWhereItCameFrom
=============================================================================
