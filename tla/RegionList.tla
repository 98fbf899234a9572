---------------------------- MODULE RegionList ----------------------------
(* The first-fit list of free regions that lib_qdma keeps twice, for the     *)
(* megabyte part of a board's huge pages (o5fl_alloc, o5fl_free) and for the *)
(* board's HBM (hbm_getaddr, hbm_free).  A list is the sequence of its nodes *)
(* without the sentinel; start, end and length are three fields of a node    *)
(* that the code updates separately.                                         *)
EXTENDS Integers, Sequences, SequencesExt

CONSTANT Unit  \* 1 MiB, the size that grants are rounded up to

ASSUME UnitAssumption == Unit \in Nat \ {0}

Region(start, length) == [start |-> start, end |-> start + length, length |-> length]

RoundUp(size) == ((size + Unit - 1) \div Unit) * Unit

(* The allocation walk stops at the first node of the size asked for or more. *)
Fitting(list, size) == {k \in DOMAIN list : list[k].length >= size}
Fits(list, size)    == Fitting(list, size) # {}
FirstFit(list, size) == Min(Fitting(list, size))

(* A node of exactly the size asked for goes whole and leaves the list; from *)
(* a larger one the rounded size is cut off the front, and the node stays    *)
(* even if nothing of it is left.                                            *)
Granted(list, size) ==
  LET k == FirstFit(list, size)
  IN  [addr   |-> list[k].start,
       length |-> IF list[k].length = size THEN size ELSE RoundUp(size)]

Taken(list, size) ==
  LET k == FirstFit(list, size)
  IN  IF list[k].length = size
      THEN RemoveAt(list, k)
      ELSE [list EXCEPT ![k].start  = @ + RoundUp(size),
                        ![k].length = @ - RoundUp(size)]

(* The free walk stops before the first node that does not start below addr. *)
(* It does not look for the end of the list: with no such node it goes       *)
(* through the null pointer.                                                 *)
NotBelow(list, addr) == {k \in DOMAIN list : list[k].start >= addr}
RunsOff(list, addr)  == NotBelow(list, addr) = {}

(* Mutant: a region joined to the node before it keeps that node's end. *)
BadGrown(list, k, end, more) == [list EXCEPT ![k].length = @ + more]

(* Mutant: it takes the end of the node after it, joined or not. *)
BadSwallow(list, k, end, more) ==
  [list EXCEPT ![k].end = list[k + 1].end, ![k].length = @ + more]

Grown(list, k, end, more) == [list EXCEPT ![k].end = end, ![k].length = @ + more]

Before(list, addr) == Min(NotBelow(list, addr)) - 1

JoinsLeft(list, addr) ==
  LET k == Before(list, addr)
  IN  k > 0 /\ list[k].end = addr

JoinsRight(list, addr, length) == addr + length = list[Before(list, addr) + 1].start

(* The freed region joins the node before it, the node after it, or both;    *)
(* else it becomes a node between the two.                                   *)
Joined(list, addr, length) ==
  LET k     == Before(list, addr)
      left  == JoinsLeft(list, addr)
      right == JoinsRight(list, addr, length)
  IN  CASE left /\ right ->
             RemoveAt(Grown(list, k, list[k + 1].end, length + list[k + 1].length), k + 1)
        [] left /\ ~right -> Grown(list, k, addr + length, length)
        [] ~left /\ right ->
             [list EXCEPT ![k + 1].start = addr, ![k + 1].length = @ + length]
        [] OTHER -> InsertAt(list, k + 1, Region(addr, length))

(* The sizes of what has been granted, by address. *)
Noted(used, g) ==
  [a \in DOMAIN used \union {g.addr} |-> IF a = g.addr THEN g.length ELSE used[a]]

Forgotten(used, addr) == [a \in DOMAIN used \ {addr} |-> used[a]]

-----------------------------------------------------------------------------
(* What the list and the grants together stand for. *)

(* [a, a + m) and [b, b + n) have an address in common. *)
Overlap(a, m, b, n) == m > 0 /\ n > 0 /\ a < b + n /\ b < a + m

(* No address is in two free regions, or free and granted, or granted twice. *)
NoOverlap(list, used) ==
  /\ \A j, k \in DOMAIN list : j # k =>
       ~Overlap(list[j].start, list[j].length, list[k].start, list[k].length)
  /\ \A j \in DOMAIN list, a \in DOMAIN used :
       ~Overlap(list[j].start, list[j].length, a, used[a])
  /\ \A a, b \in DOMAIN used : a # b => ~Overlap(a, used[a], b, used[b])

(* Every address from lo up to hi is in a free region or granted. *)
Covered(list, used, lo, hi) ==
  \A x \in lo .. hi - 1 :
    \/ \E k \in DOMAIN list : list[k].start =< x /\ x < list[k].start + list[k].length
    \/ \E a \in DOMAIN used : a =< x /\ x < a + used[a]

(* The three fields of every node agree. *)
Consistent(list) ==
  \A k \in DOMAIN list :
    list[k].length \in Nat /\ list[k].end = list[k].start + list[k].length

=============================================================================
