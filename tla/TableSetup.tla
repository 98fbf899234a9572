----------------------------- MODULE TableSetup -----------------------------
(* How the host fills a board's translation table: init_tlb of               *)
(* QDMAController.cpp, which maps files of huge pages, has the character     *)
(* device rc4ml.c pin each of them and tell the frames, and writes one entry *)
(* after the other; then it lists a window on every other board.  One        *)
(* process sets up one board; all use the one, unlocked table of the device. *)
(*                                                                           *)
(* Addresses are numbers of huge pages.  The frame of page v of a process p  *)
(* is <<p, v>>, that of page j of a board's bridge bar <<"bar", board, j>>.  *)
EXTENDS Integers, Sequences

CONSTANTS
  Boards,   \* the boards in device_list's order, a sequence
  Procs,    \* the boards that a process sets up
  Files,    \* files of huge pages per process (8)
  N,        \* pages of a file (1024)
  Window,   \* pages of a window (512)
  Junk      \* a frame read from memory that nobody filled

ASSUME SetupAssumption ==
  /\ Procs \subseteq {Boards[k] : k \in DOMAIN Boards}
  /\ Files \in Nat \ {0} /\ N \in Nat \ {0} /\ Window \in Nat

VARIABLES
  huge,    \* huge_table: [pages, nhpages]
  tlb,     \* per board: [base, listed, ram], as TLB.scala keeps it
  proc,    \* per process: [pc, file, i, gap, phys, npages, next, tran]
  clean    \* history, per process: nobody else was in rc4ml.c between its calls,
           \* every page was pinned, and the mappings follow one another

setupVars == <<huge, tlb, proc, clean>>

SetupInit ==
  /\ huge = [pages |-> [j \in 1 .. N |-> Junk], nhpages |-> 0]
  /\ tlb = [b \in Procs |-> [base |-> 0, listed |-> 0, ram |-> <<>>]]
  /\ proc = [p \in Procs |-> [pc |-> "map", file |-> Files, i |-> 0, gap |-> 0, npages |-> 0,
                              phys |-> [j \in 1 .. N |-> 0], next |-> 1, tran |-> <<>>]]
  /\ clean = [p \in Procs |-> TRUE]

(* The first page of a file.  The last file is mapped lowest; gap is the     *)
(* space that mmap left above it.                                            *)
StartOf(p, f) == (Files - f) * N + (IF f < Files THEN proc[p].gap ELSE 0)

Goto(p, pc) == proc' = [proc EXCEPT ![p].pc = pc]

(* The mmaps.  A mapping elsewhere is reported, and the set-up goes on. *)
MapFiles(p, gap) ==
  /\ proc[p].pc = "map"
  /\ proc' = [proc EXCEPT ![p].gap = gap, ![p].pc = "alloc"]
  /\ clean' = [clean EXCEPT ![p] = gap = 0]
  /\ UNCHANGED <<huge, tlb>>

-----------------------------------------------------------------------------
(* The device.  A process is between its calls from HUGE_MAPPING_SET to the  *)
(* end of HUGE_MAPPING_GET; a step of another one spoils what it will read.  *)
Between == {"pin", "count", "getn", "get"}

Spoil(p) == [q \in Procs |-> clean[q] /\ (q # p => proc[q].pc \notin Between)]

(* ioctl_huge_set: a new array, *)
SetAlloc(p) ==
  /\ proc[p].pc = "alloc"
  /\ huge' = [huge EXCEPT !.pages = [j \in 1 .. N |-> Junk]]
  /\ Goto(p, "pin")
  /\ clean' = Spoil(p)
  /\ UNCHANGED tlb

(* which get_user_pages fills, in whole or up to the first page it cannot    *)
(* have,                                                                     *)
SetPin(p, got) ==
  /\ proc[p].pc = "pin"
  /\ huge' = [huge EXCEPT !.pages = [j \in 1 .. N |->
                IF j =< got THEN <<p, StartOf(p, proc[p].file) + j - 1>> ELSE @[j]]]
  /\ proc' = [proc EXCEPT ![p].pc = "count", ![p].npages = got]
  /\ clean' = [Spoil(p) EXCEPT ![p] = @ /\ got = N]
  /\ UNCHANGED tlb

(* and the number of huge pages among them. *)
SetCount(p) ==
  /\ proc[p].pc = "count"
  /\ huge' = [huge EXCEPT !.nhpages = proc[p].npages]
  /\ Goto(p, "getn")
  /\ clean' = Spoil(p)
  /\ UNCHANGED tlb

(* ioctl_huge_get: the number, then the frames. *)
GetCount(p) ==
  /\ proc[p].pc = "getn"
  /\ proc' = [proc EXCEPT ![p].pc = "get", ![p].npages = huge.nhpages]
  /\ UNCHANGED <<huge, tlb, clean>>

GetFrames(p) ==
  /\ proc[p].pc = "get"
  /\ proc' = [proc EXCEPT ![p].pc = "list", ![p].i = 0,
                          ![p].phys = [j \in 1 .. N |-> IF j =< proc[p].npages THEN huge.pages[j] ELSE 0]]
  /\ UNCHANGED <<huge, tlb, clean>>

-----------------------------------------------------------------------------
(* Registers 8 to 12 and a pulse of 13: the board lists the page. *)
Listed(b, vaddr, frame, isbase) ==
  tlb' = [tlb EXCEPT ![b] =
    IF isbase THEN [base |-> vaddr, listed |-> 1, ram |-> <<frame>>]
    ELSE [base |-> @.base, listed |-> @.listed + 1, ram |-> Append(@.ram, frame)]]

IsBase(p) == proc[p].file = Files /\ proc[p].i = 0

(* The entries of a file; then the next file, or the windows. *)
ListFile(p) ==
  LET s == proc[p]
  IN  /\ s.pc = "list"
      /\ IF s.i < s.npages
         THEN /\ Listed(p, StartOf(p, s.file) + s.i, s.phys[s.i + 1], IsBase(p))
              /\ proc' = [proc EXCEPT ![p].i = @ + 1]
         ELSE /\ proc' = [proc EXCEPT ![p].file = @ - 1,
                                      ![p].pc = IF s.file > 1 THEN "alloc" ELSE "peers",
                                      ![p].i = 0]
              /\ UNCHANGED tlb
      /\ UNCHANGED <<huge, clean>>

(* Where a process sees another board's bridge bar. *)
BridgeOf(b) == 100 * (CHOOSE k \in DOMAIN Boards : Boards[k] = b)

(* The address of the window's next page: they follow the first file.        *)
Others(p) == SelectSeq(Boards, LAMBDA b : b # p)
BadWindowAt(p) == StartOf(p, 1) + N  \* mutant: every window at the same place
WindowAt(p) == StartOf(p, 1) + N + (proc[p].next - 1) * Window

ListPeer(p) ==
  LET s == proc[p]
      b == Others(p)[s.next]
  IN  /\ s.pc = "peers" /\ s.next =< Len(Others(p))
      /\ IF s.i < Window
         THEN /\ Listed(p, WindowAt(p) + s.i, <<"bar", b, s.i>>, FALSE)
              /\ proc' = [proc EXCEPT ![p].i = @ + 1,
                            ![p].tran = IF s.i = 0 THEN Append(@, WindowAt(p) - BridgeOf(b)) ELSE @]
         ELSE /\ proc' = [proc EXCEPT ![p].next = @ + 1, ![p].i = 0]
              /\ UNCHANGED tlb
      /\ UNCHANGED <<huge, clean>>

FinishSetup(p) ==
  /\ proc[p].pc = "peers" /\ proc[p].next > Len(Others(p))
  /\ Goto(p, "done")
  /\ UNCHANGED <<huge, tlb, clean>>

SetupNext ==
  \E p \in Procs :
    \/ \E gap \in {0, 1} : MapFiles(p, gap)
    \/ SetAlloc(p)
    \/ \E got \in {N - 1, N} : SetPin(p, got)
    \/ SetCount(p) \/ GetCount(p) \/ GetFrames(p)
    \/ ListFile(p) \/ ListPeer(p) \/ FinishSetup(p)

-----------------------------------------------------------------------------
(* p2p_paddr_translation: the address in p's space of board b's bridge bar.  *)
PeerAddress(p, b, addr) ==
  addr + proc[p].tran[CHOOSE k \in DOMAIN Others(p) : Others(p)[k] = b]

Lookup(b, v) == tlb[b].ram[v - tlb[b].base + 1]

Holds(b, v, frame) ==
  v - tlb[b].base \in 0 .. tlb[b].listed - 1 /\ Lookup(b, v) = frame

(* Types. *)
SetupTypeOK ==
  /\ huge.nhpages \in 0 .. N
  /\ \A b \in Procs : tlb[b].listed = Len(tlb[b].ram)
  /\ \A p \in Procs : proc[p].file \in 0 .. Files /\ proc[p].i \in 0 .. N + Window
                      /\ proc[p].npages \in 0 .. N

(* When a set-up has finished that no other process has disturbed between    *)
(* its two calls of the device, that has pinned all it asked for and whose   *)
(* mappings follow one another, the board translates every page of every     *)
(* file to its own frame: whatever other processes do with the device while  *)
(* it lists its pages, and afterwards.                                       *)
TableRight ==
  \A p \in Procs : proc[p].pc = "done" /\ clean[p] =>
    \A v \in 0 .. Files * N - 1 : Holds(p, v, <<p, v>>)

(* And an address in another board's bridge bar, translated for the board,   *)
(* is that board's bar at the same place.                                    *)
PeersRight ==
  \A p \in Procs : proc[p].pc = "done" /\ clean[p] =>
    \A k \in DOMAIN Others(p), j \in 0 .. Window - 1 :
      LET b == Others(p)[k]
      IN  Holds(p, PeerAddress(p, b, BridgeOf(b) + j), <<"bar", b, j>>)

(* What init_tlb leaves in a board's table: the files, and the windows behind *)
(* them.                                                                      *)
TablesRight == SetupTypeOK /\ TableRight /\ PeersRight
=============================================================================
