# A TLA+ verification project for rPCIeBench

rPCIeBench measures PCIe fabrics with FPGA cards.  Its own logic is an FPGA
design written in Chisel, which moves data between host memory and the card's
HBM on command; a host library that manages memory and issues commands; and a
kernel driver for the card's DMA engine.  This directory models that logic in
TLA+, model-checks it with TLC on small instances, and proves theorems about
its core with TLAPS.

## 1. The system

```
 host program ── h2d()/d2h() ──► control registers ─┬─► h2dcmdqueue ──► H2C ──► CheckSplit ─► TLB ─► QDMA ─► host reads
   ▲   ▲ polls flags                                │      │  └─► h2m_cmd_buffer ─► H2M ─► HBM writes        │
   │   └── completion flags ◄── C2H_Complete ◄──────┤      ▼ window                                         │
   │                 ▲ p2p_counter                  └─► d2hcmdqueue ──► C2H ──► CheckSplit ─► TLB ─► QDMA ─► host writes
   │                                                        └──────► M2H ─► HBM reads ─► m2h_queue ─┘
 hpalloc/hpfree, hbm_getaddr/hbm_free, init_tlb ── rc4ml.c (pins pages)

 /dev, netlink ── qdma_mod.c, cdev.c ── libqdma_export.c ── qdma_descq.c, qdma_thread.c ─► rings, status pages
                                          ├── qdma_device.c, qdma_resource_mgmt.c ─► function map, queues
                                          ├── qdma_context.c, qdma_access/* ─► contexts in the card
                                          └── qdma_mbox.c ◄─ mailbox ─► drivers of the virtual functions
```

Paths without a directory below are relative to
`src/rPCIeBench_project/CommSub/src/` (Scala) or
`src/rPCIeBench/qdma_driver/` (C).

| Component | State | Operations | Interaction |
|---|---|---|---|
| Host-to-device queues `h2dcmdqueue.scala`, `h2dcmdqueuehead.scala` | sixteen FIFOs of 64 commands, sixteen heads, `out`, `next` | take a command, cut it into packets, round robin, wait for the completion | start the H2C engine and fill `h2m_cmd_buffer`; `h2m_clear` comes back from the HBM clock |
| Device-to-host queues `d2hcmdqueue.scala`, `d2hcmdqueuehead.scala` | the same, and the window (`out` = 31, `hold1`, `hold2`) | the same, and draining the stream for a host-to-device completion | start the C2H engine and the HBM reader; see the stream's FIFO |
| Engines `H2C.scala`, `C2H.scala` | state, `hold` | offer one packet to the QDMA, then wait 10 cycles | the wait covers the crossing to the HBM clock |
| HBM writer and reader `H2M.scala`, `M2H.scala` | burst addresses, byte counts, `complete`, `clear`, the read-ahead of `validreg.scala` | split a packet at 512-byte boundaries; after a last packet wait for the data | start pulses and flags cross clock domains |
| Completion unit `C2H_Complete.scala` | a started and a complete flag per client, one address, two valid bits | write one beat to a command's flag address | three clients share the QDMA port of the data stream |
| `p2p_counter.scala` | a beat counter, a level and its echo | count what a peer has written, ask for a completion | third client of the completion unit; armed by three host registers |
| `CheckSplit.scala` | a command in pieces, a data counter | split commands at pages and at a largest size, mark the last beat of each piece | between the engines and the TLB/QDMA |
| `TLB.scala` | base page, table, two read pipelines, miss counter, two queues | translate, drop what misses | between the splitter and the QDMA |
| Host library `rPCIeBench/lib_qdma/QDMAController.cpp` | free lists for host pages and HBM, the board's translation table | `hpalloc`, `hpfree`, `hbm_getaddr`, `hbm_free`, `init_tlb` | give the addresses of commands |
| Primitives and benchmarks `rPCIeBench/rPCIeRun/` | the registers of a board | `h2d`, `d2h`, `p2p_*`, polling loops | write the control registers |
| `src/rc4ml.c` | one global table of pinned pages | two ioctls | fills the translation tables |
| Driver: requests `libqdma/qdma_descq.c`, `qdma_thread.c`, `thread.c`, `src/cdev.c` | work and pending lists, a descriptor ring, credits, control blocks | submit, describe, complete, expire, stop | callers, worker threads, interrupts and the card share a queue |
| Driver: functions and queues `libqdma/qdma_device.c`, `libqdma_export.c`, `src/qdma_mod.c`, `qdma_access/qdma_resource_mgmt.c` | free chunks of hardware queues, a function's queues, handles, the function map | open, close, size, add, start, stop, remove | several functions share one board's pool |
| Driver: mailbox `libqdma/qdma_mbox.c`, `qdma_access/qdma_mbox_protocol.c`, `qdma_sriov.c` | three lists, one register each way, slots of virtual functions | send, receive, retry, give up | virtual functions ask the physical one |
| Driver: contexts `libqdma/qdma_context.c`, `qdma_access/*_access.c` | contexts on the card behind one set of registers | clear, write, read, invalidate | netlink, the mailbox and debugfs use them in turn |

What is hard here.  In the card every cycle several state machines read each
other's registers of the cycle before; flags cross between two clocks with a
delay, so a stale flag looks like a fresh one; data and commands travel
separately and are matched by their order alone; and completions are squeezed
into a stream of data beats.  A simulation runs one timing; nearly every
property below depends on how long the QDMA and the HBM take.  In the driver,
completions are counted and not named, a wait that expires leaves its
descriptors with the card, and what several functions own is kept in three
places (pool, driver, card) that a refused or failed call may leave apart.

What makes each component correct:

* queues and heads: packets tile their command, nothing overtakes, the turn
  passes on after each packet, a waiting head is not abandoned;
* engines, writer, reader: the n-th packet meets the n-th packet's data; bursts
  tile a packet and no word is lost or repeated;
* completion unit: a flag is written once, for the right command, after the
  data, and never in the middle of a data packet;
* window: opens and closes for every host-to-device command;
* translation: a piece leaves with the frame of its own page, once;
* allocators: ranges handed out are disjoint, and freeing returns them;
* requests: a caller is told when, and only when, the card is through;
* pool, functions, mailbox: each queue has one owner, and the card's map, the
  counts and the handles say so too;
* contexts: a running queue has its whole context and a stopped one none; what
  is read is what was written.

## 2. Modules

| Module | What it is |
|---|---|
| `CmdQueueCommon` | queue names and the wrapping address arithmetic that both queue blocks use |
| `H2DCmdQueue` | the host-to-device path |
| `D2HCmdQueue` | the device-to-host path with its window, reader, data stream and completions |
| `CompletionUnit` | the completion unit as a function from registers and inputs to registers |
| `OrderedDelivery` | what either path promises the host; both are shown to implement it |
| `H2DCmdQueueProofs` | theorems about `H2DCmdQueue`: types, stream, selection, shares and packets; completions and the refinement |
| `D2HCmdQueueProofs` | theorems about `D2HCmdQueue`: data and completions |
| `PeerToPeer` | the peer-to-peer counter, its crossings, the completion unit and the host program that arms it |
| `HbmBursts` | the HBM writer and reader inside one packet |
| `HbmSideProofs` | theorems about `HbmBursts` and `PeerToPeer` |
| `AddressTranslation` | page splitting, the table, and the pairing of pieces with beats |
| `AddressTranslationProofs` | theorems about it |
| `RegionList` | the first-fit list of free regions, as operators on sequences of nodes |
| `HbmSpace`, `HugePages` | the two allocators of the host library |
| `TableSetup` | `init_tlb` and the character device that pins pages |
| `DmaRegisters` | threads that write commands into a board's registers |
| `HostLibraryProofs` | lemmas about the lists, and theorems about both allocators and the registers |
| `DescQueue` | one memory-mapped queue of the driver: callers, ring, card, thread, interrupt, stop |
| `QueueResources` | the pool of hardware queues, as operators |
| `QueueResourcesProofs` | lemmas about the pool: what a return, a merge, a grant and a refused request do to a free list |
| `DeviceControl` | physical functions, their queues, handles and the function map |
| `DeviceControlProofs` | theorems about it |
| `VfMailbox` | virtual functions and the physical one, through the mailbox |
| `VfMailboxProofs` | theorems about it |
| `ContextLayout` | where each bit of each context is, for three cards, as tables |
| `ContextContents` | what a physical function and a virtual one put into a queue's contexts |
| `ContextCommands` | the threads that program contexts through one set of registers |
| `MC...` | the instances for TLC; `MCHostSide`, `MCHbmSide` and `MCMailboxContexts` put parts that share no state into one run, a variable `works` choosing the part that runs |

### How time is modelled

The design is synchronous.  `Tick` is one rising edge of `user_clk` (300 MHz,
`Top.scala:34`): it computes every register of the clock domain from the values
before the edge, with the later of two assignments to a register winning, as in
Chisel.  Everything outside the domain (the host, the QDMA, the HBM clock
domain) is an action of its own between two edges, and changes only what the
next edge samples.  So a peer may be arbitrarily slow, and any number of edges
may pass while it is.

One assumption about time is needed and is explicit: the HBM side lowers its
flag within `Lat` edges of a start.  In the design a start takes 4 + 1 + 1
flip-flops at 450 MHz to arrive and the flag 1 + 4 at 300 MHz to come back
(`common/src/storage/CDC.scala`), some 12 user cycles, while the engine's
`hold` of 10 keeps the next sampling 14 or more cycles away.  The models scale
this to `Hold = 0`, `Lat = 3`; with `Lat = 4` TLC finds the old flag taken for a
new one, so the constant of 10 in `H2C.scala` and `C2H.scala` is what the
design stands on.

In `PeerToPeer` both clocks are modelled, `UserEdge` and `HbmEdge` in any
interleaving, and every synchroniser is a chain of registers (`cross`).  There
the only assumption is that a benchmark pauses before it arms the next request
(`Settled`), which `rPCIeRun/tests.cpp` does with its sleep.  In `HbmBursts` one
step is one edge of `hbm_clk` and the FIFO's flags arrive `Lag` edges late.

### State and actions: the card

*`H2DCmdQueue`.*  `fifo`, `head`, `out`, `next` are the registers of
`h2dcmdqueue.scala` and its heads (field for field); `h2c` is the engine;
`buf` is `h2m_cmd_buffer`; `h2m`, `data`, `clear` are the HBM side, `data` being
the packets whose data the QDMA has been told to deliver; `cpt` is the
handshake with the completion unit.  `Tick` contains `HeadNext`, `FifoNext`,
`Schedule`, `EngineStep`, `CptStep`.  `Post`, `QdmaReady`, `WriterStart`,
`WriterDone`, `Notify` are the environment.  `job`, `log`, `bypass`, `moved`,
`notified` record history and are never read by the design.

*`D2HCmdQueue`.*  As above; `win` is the window, `request`, `m2h_finish` are the
crossing to the HBM reader, `reading` → `m2hq` → `tmp` is the stream of beats,
`slots` the host addresses that the QDMA will fill in order, `cpt` the
completion unit's registers (`CompletionUnit`), `h2d` what the other path shows
of itself.  A beat is the HBM address it was read from, and `host` is the set of
beats written, so a beat in the wrong place is visible.

Lengths and addresses count beats of 64 bytes in these two modules.

*`PeerToPeer`.*  `host` is the program, line by line, `reg` the three control
registers, `cross` the synchronisers, `ctr` the counter's registers, `unit` the
completion unit (the same `CompletionUnit` as above, driven by its other two
clients), `flags` the flags in host memory.  The peer's data (`left`) may arrive
before or after the counter starts, and a host-to-device command (`h2c`) may end
at the same time; `clash` records that a request came while another was being
written, which the unit's one address register cannot keep apart.  `p2p_counter`
counts only beats whose sample is all ones (`p2p_counter.scala:25`); the model counts
every beat, because `p2p_write_latency` sends memory filled with -1
(`tests.cpp:460`).  With other data the count would stop short and no flag would come.

*`HbmBursts`.*  `cur` are the burst cursor's registers of whichever engine
works, `wr` and `fifo` the writer's counts and its read-ahead (`data_valid`,
`tmpreg`), `rd` the reader's counts and waits.  `WriterEdge` and `ReaderEdge` are
one edge each, under any choice of grants and of words in the FIFO.

*`AddressTranslation`.*  `cutter` are the registers of `CMDBoundaryCheck` per
direction, `table`, `porta`, `pipe`, `wrote` the table with its block RAM's
latency and forwarding, `queue` the queues behind it, `pairer` the counter of
`DataBoundarySplit`.  `Edge` is one edge with any command, any write of the
host, any readiness.

### State and actions: the host library

*`HbmSpace`.*  `hbmlist` is one board's list of free nodes without its sentinel,
`hbmu` its map from granted addresses to granted lengths.  `start`, `end` and
`length` of a node are kept apart, as the code updates them apart.  `held`
(buffers and the sizes asked for) and `crashed` (a walk followed the null
pointer) belong to the caller's view.

*`HugePages`.*  `slots` are the lists of equal slots (`o1fl` to `o4fl`, here a
parameter), `o5fl` and `o5flu` the first-fit list above them.  A small request
whose list is empty falls through to `o5fl`, and a return is sorted by `o5flu`
first and by address second.

Both are sequential code called from one thread, so an action is a whole call.
`Unit` is the 1 MiB that grants are rounded up to.  A rounded grant that takes a
node's last byte leaves the node in the list with length 0, and such nodes let
the list grow without limit; `MaxNodes` bounds it, in the guard of a request.
Requests of size 0 and returns of addresses that were never handed out are left
out.

*`TableSetup`.*  `huge` is `rc4ml.c`'s table, `proc` each process in `init_tlb`
(`pc` the call it is at), `tlb` a board's table as `TLB.scala` keeps it.
`HUGE_MAPPING_SET` is three actions and `HUGE_MAPPING_GET` two, because nothing
locks the table; a pin may stop short.

*`DmaRegisters`.*  `h2d` and `d2h` as one action per register write.

### State and actions: the driver

*`DescQueue`.*  `descq` holds the lists, the counters and the ring of
`struct qdma_descq`, `cb` the control blocks, `hw` the card's indices and its
status page, `thread` the worker, `caio` the vector's counters.  What runs under
the queue's lock is one action: `Submit`, `Process`, `Wake`, `Expire` of a
caller, `Look` and `Work` of the thread, `Interrupt`, `Carry` and `WriteBack` of
the card, `Start`, `StopAsked`, `StopEnds`, `Detach`, `Release`.

*`QueueResources`*, *`DeviceControl`.*  `pool` is the free list and the entries
of `qdma_resource_mgmt.c`, with one operator per exported function; `pf` what
`xlnx_dma_dev` and `xlnx_pci_dev` keep, `fmap` the card's map.  The actions are
the netlink and sysfs operations (`DeviceOpen`, `SetQmax`, `SetIntrRngsz`,
`QueueAdd` in both of its halves and with its failures, `QueueStart`,
`QueueStop`, `QueueDelete`, `DeviceClose`), each under the device's lock.
The board is listed under `DeviceIndex` and has the bus number `BusNumber`; both are
parameters, and nothing makes them equal.

*`VfMailbox`.*  `req` is a VF's message and the list it is in, `outV` and `outP`
the two registers, `answers` the PF's `tx_todo_list`.  `VfTx`, `VfRx`, `VfWake`
are the VF's work queue, `PfRx` handles one message with everything it changes
(`Handled`), `PfSend` and `PfRetry` send answers with retries; `Expire` is a
caller that gives up before its answer is paired, `Vanish` a machine that goes.
`EarlyWake` is a caller that tests the wait's condition after it was set
(`qdma_mbox.c:167`) and before the answer is copied (`:214`): it needs no expiry and
succeeds with the words of its own request.  Who believed its own request for queues
is in the history `hasty`, who gave up or vanished in `late`.  A caller's `plan` is the messages it has
still to send for one queue, each with what undoes it; `Onward` then turns to the next queue of
`removing`, and at last `Refitted` takes over the range that `granted` holds, as
`qdma_vf_qconf` does after `qdma_device_cleanup`.

*`ContextLayout`* gives, for each card, kind of context and direction, the set
of <<word, bit, field, bit of the field>> of the function's shifts and masks;
`Packed` and `Unpacked` apply them.  *`ContextContents`* takes a configuration and
tables and computes both functions' contexts; a field that both copy unchanged from
the same place is left out, every other one is there, also those that only the physical
function sets.  *`ContextCommands`* has one
action per register access under `hw_prg_lock`: `LoadWords`, `WriteCommand`,
`Done`, `ReadWords`, `Expired`, and the card's `DoCommand`.

## 3. Runs

| Run | Question | Bounds |
|---|---|---|
| `h2d` | do packets, data and completions stay matched, does the path implement `OrderedDelivery`, and is every command reported? | 2 queues of one place besides the head, 3 commands of 1, 2 and 3 packets, buffer of 2, 8 addresses |
| `d2h` | the same for the other direction, while windows open | queues 1 and 2 of 3, 2 commands of 1 and 2 packets, 2 host-to-device commands that end, FIFO of 2 beats |
| `d2h_queue0_window` | is queue 0 like the others while a window is open? no | queue 0, 1 command, 1 completion |
| `host_side` | has each queue one owner, and do counts, handles, modes and the card's map say so; are buffers apart and do they come back; is a posted command one command; do pieces keep frame and data? | below |
| `hbm_free` | can every buffer be returned? no | 9 units of a third, at most 4 nodes |
| `hbm_side` | is a peer-to-peer flag written after the data, and always; is a packet cut right, and is the FIFO empty when the reader says so? | 2 requests of 1 and 2 beats, 2 host-to-device commands; blocks of 4 beats, 2 packets of up to 8 beats, waits 3 and 2, a lag of 2 edges |
| `requests` | is a caller told when, and only when, the card is through? | one caller of 3 descriptors, a vector of 1 and 2, ring of 3, polled, automatic and direct-interrupt mode, one restart |
| `requests_expired` | is a request's result its own after another wait has expired? no | the same |
| `queue_auto_index` | do handles name their queues where the library chooses the index? no | 2 functions, 3 queues |
| `rings_resized` | does a function with active queues keep its interrupt rings? no | the same, on board 0 with bus number 1 |
| `mailbox_contexts` | do VFs and PF agree through a slow mailbox; are contexts written, and read, where they should be, and alike for both kinds of function; are tables complete? | 2 VFs, 1 queue, 2 retries, 1 stray; queue 0 in both directions and a VF's completion queue, 2 starts, 1 expired wait; 2 processes, 3 boards, 2 files of 2 pages |
| `context_readback` | is every field read from the bits it is written to? no | whole layouts, one bit at a time |

`host_side` has five parts, one at a time: two functions with 3 queues, 0 to 2 per
function, indices 0 and 1, 2 queues counted as active (`MaxActive`), ring sizes 1
and the refused 8, one function whose ring size is changed (`MaxSized`), and a bus
number that is not the index; the HBM allocator with 15 thirds of a unit, sizes of 1, 3, 4, 6 and 9 thirds (so exact, rounded and several units),
requests while the list has at most 4 nodes; the huge pages with 2 lists of 2
slots, a region above them, sizes below, at and above each list's; three threads, 1 call
each, of 2 fields; and the translation, pages of 4 beats, 2 entries, 1 command
per direction while the host makes 2 writes.

Why these are enough.  Two queues let two flows compete, and with the third an
idle queue stands between them; commands of one, two and three packets reach
every branch of a head (single, final short, middle, final whole); a queue of
one entry is empty and full at once, and is overrun.  Eight addresses let commands end exactly at the
top.  Four nodes are regions with gaps between them, so a return meets all four
cases of joining, with empty nodes on either side.  Two slots per list are
emptied within a few calls, which is when the fallback to the large list
happens.  A ring of three has two places, fewer than the requests' three
descriptors, so requests are described in pieces and finished out of step; one
restart is enough for a request of the life before to meet one of the next.  Two
functions and three queues are the smallest pool in which a request fits, does
not fit for want of room, and does not fit though there is room.  A packet of 8
beats over blocks of 4 has up to three bursts, with short first and last ones.
The context layouts are not scaled: every bit of every word is there.

Where a bound is a boundary of the code it is named: `Lat` = 3 is the largest
delay the device-to-host path tolerates with `Hold` = 0; `Lag` < `RetryCnt` in
`VfMailbox` stands for the retries, about a second apart and eleven in number,
that outlast a VF that is slow to empty its register.  `MaxStrays` bounds the
functions that give up, vanish or wake too early; with two VFs, one strays and the
other shows what that does to it.

Some properties name who or what they except, because the code does not keep its
promise there; the exception is a history of the model and no more than this:

* `TablesRight`: a process is excepted once another was between its two calls of
  `rc4ml.c` at the same time as itself; that race gives wrong tables (hazard at
  `rc4ml.c:48`).
* `ConfigAgrees`, `MapsOwned`: functions that gave up or vanished (`late`), and those
  that woke between match and copy and took their own request for queues for
  granted (`hasty`).  All other functions must agree, whatever these do.
* `EveryRequestFlagged`: requests are as far apart as the benchmark's sleep makes
  them (`Settled`); a transfer that ends before the counter's level is lowered is never
  reported (`p2p_counter.scala:53`).
* `QueueKept`: what a stop leaves of the requests it cuts off on the lists is
  excepted from `ListsLive`; `Answered`: what comes after an expired wait or a stop that
  cuts requests off, and direct-interrupt mode, which can leave a request without an
  answer.
* `ContextsRight`: contexts that were touched while a command of an expired wait was
  still to be carried out, or after a clearing that failed.

Properties that read as one name and say several things are conjunctions of
named parts, each with its own comment: `SpaceKept` (types, `Disjoint`,
`NothingLost`, `Rejoined`), `BuffersKept` (`BuffersApart`,
`BackWhereItCameFrom`), `TablesRight`, `PiecesRight`, `FlagsRight` (`FlagAfterData`,
`ToldIfWritten`), `BurstsRight` (`BurstsTile`, `LastOnLastBeat`, `NoWordLost`),
`CompletionsRight` and `DataRight` of the two paths, `QueueKept`, `PoolKept`,
`ContentsRight` (`LayoutsAgree`, `SameContexts`), `ContextsRight`.

Deadlock is checked in the first three runs.  In the others the system really
stops: callers have made all their requests, a process is gone, or there is
nothing to return.

### Fairness

* `h2d`, `d2h`: the clock runs, the QDMA eventually accepts a command or a beat,
  the HBM eventually answers, the completion unit eventually writes.  These are
  promises of peers that do not depend on the design.  The host need not post.
* `hbm_side`: both clocks run, what was sent arrives, pulses cross the
  synchronisers, and the program goes on to its next line.
* `requests`: a caller that can go on does, the worker thread is scheduled, a
  raised interrupt is served, and the card carries out the descriptors it knows
  of.  Nothing is assumed of the order.  A stop's wait ends only if its condition
  comes true.
* The other runs are safety only.

### What the violated runs show

* `d2h_queue0_window`: during the window `out` is 31 and the multiplexers give
  Qh(0).  If queue 0 has a packet to send, the engines take it while the head,
  whose ready is gated by `out === 0`, stays where it is; the packet is sent
  again.  The concurrency benchmark (`rPCIeRun/tests.cpp:1492`) uses queue 2 for
  `d2h` and cannot see this.
* `rings_resized`: `qdma_set_intr_rngsz` asks for the active queues of the board by its
  bus number (`libqdma_config.c:163`), but the counts are kept under an index that
  counts boards from 0 (`qdma_resource_mgmt.c:392`).  A number that is not listed has no
  active queues, so the rings of a function are torn down and set up anew under a queue
  that is in use.
* `hbm_free`: the walk of `hbm_free` has no end test (`QDMAController.cpp:374`, and
  `o5fl_free` at line 232).  Once the topmost node has been handed out as an exact
  fit, a buffer above every free node cannot be returned.  `SafeWhileTopListed`,
  in `host_side`, is the exact condition: the walk is safe while some node, even an
  empty one, ends at the top.
* `requests_expired`: a request whose wait expires leaves its descriptors on the
  ring (`libqdma_export.c:266`).  Completions are counted, so they are credited to
  the next request, which returns its full length before its own data have moved.
* `queue_auto_index`: with `QDMA_QUEUE_IDX_INVALID` the search of
  `qdma_queue_add` (`libqdma_export.c:1522`) advances `descq` and then adds `i` to
  it again; the handle names queue i, the one enabled is 2i.
* `context_readback`: three EQDMA fields are read from other bits than they were
  written to: the top of `virtio_dsc_base` (`eqdma_soft_access.c:2767`), `pasid`'s
  ninth bit (a `uint8_t`, :3842) and `fetch_pnd` (:3470).  `ContentsRight` in
  `mailbox_contexts` shows that nothing else is.

## 4. Proofs

Twenty-six properties of the runs are theorems, checked by TLAPS for every value
of the constants.  They rest on the `ASSUME`s of the modules, which TLC evaluates
in every run, and on the hypotheses that the last column names.

| Theorem | States | Besides the module's assumptions |
|---|---|---|
| `TypeCorrect` (`H2DCmdQueueProofs`) | `[]TypeOK` | |
| `StreamCorrect` | `[]StreamAligned`: packets meet their own data | |
| `SelectionCorrect` | `[]WaitingHeadSelected` | |
| `ShareCorrect` | `[]FairShare`: at most `NumQ` packets of others go first | |
| `PacketsCorrect` | `[]PacketsTile` | every command `Fits` |
| `CompletionsCorrect` | `[]CompletionsRight` | `Lat =< Hold + 3` |
| `DeliveryCorrect` | `ImplementsDelivery`: the path implements `OrderedDelivery` | both |
| `DataIsRight` (`D2HCmdQueueProofs`) | `[]DataRight` of the device-to-host path | `Regular` |
| `CompletionsAreRight` | `[]CompletionsRight` of the device-to-host path | `Regular` |
| `BurstsCorrect` (`HbmSideProofs`) | `[]BurstsRight` | |
| `ReaderDrained` | `[]DrainedWhenComplete` | `Lag =< Hold1`, `Hold2 > 0` |
| `FlagsCorrect` (`HbmSideProofs`) | `[]FlagsRight`: a flag comes after the data, and is told of when it is on its way | |
| `PiecesCorrect` (`AddressTranslationProofs`) | `[]PiecesRight` | |
| `BeatsCorrect` | `[]BeatsRight` | |
| `SpaceCorrect` (`HostLibraryProofs`) | `[]SpaceKept` of the HBM allocator | |
| `ReturnsCorrect` | `[]SafeWhileTopListed` | |
| `BuffersCorrect` | `[]BuffersKept` of the huge-page allocator | |
| `CallsCorrect` | `[]CallPosts` | |
| `PoolIsKept` (`DeviceControlProofs`) | `[]PoolKept`: every queue of the board has one owner | `Named`, `Unwrapped` |
| `CountsAreRight` | `[]CountsMatch` | `Named`, `Unwrapped` |
| `RingsStayApart` | `[]RingsApart` | `Named`, `Unwrapped` |
| `MapStaysCurrent` | `[]MapCurrent` | `Named`, `Unwrapped` |
| `HandlesName` | `[]HandleNames` | `Named`, `Unwrapped` |
| `ConfigsAgree` (`VfMailboxProofs`) | `[]ConfigAgrees`: a VF that does not stray and the PF agree on its queues between its calls | |
| `MapsAreOwned` | `[]MapsOwned`: no queue is mapped to an unknown function, nor to two that do not stray | |
| `RequestsAreInFlight` | `[]InFlight`: a request that waits is in one place, and no answer is lost | |

`HostLibraryProofs` begins with the lemmas on first-fit lists that both
allocators use; `QueueResourcesProofs` holds those on the pool of queues.

The hypotheses are what the code stands on:

* `Fits` (`H2DCmdQueueProofs`): the head computes `next_addr + length` on 34 bits
  and compares it with `end_addr`.  Of a command of one packet the sum is never
  used.  A command of two that ends with the address space compares against 0,
  which happens to be right.  Any other has to leave room for its packets as if the
  last were whole.  The commands of `h2d` fit; section 5 says what the design
  does with one that does not.
* `Lat =< Hold + 3`: an engine does not look again before the writer's old flag is
  gone.  The code's `Hold` is 10, so a crossing may take 13 cycles.  With one cycle
  more TLC finds a completion before its data.
* `Regular` (`D2HCmdQueueProofs`): `Lat =< Hold + 3` and `Fits` for the other direction, and
  `0 \notin UsedQueues`.  The multiplexers give the wires of head 0 to the window as well,
  so with queue 0 in use the theorems are false (`d2h_queue0_window`).  The run `d2h`
  satisfies all three.
* `Lag =< Hold1`, `Hold2 > 0`: the reader's first wait outlasts the delay of the FIFO's
  flags.  `M2H.scala` waits longer than the synchronisers of the FIFO take.
* `Named`, written `AnyIndex \notin Requests`: whoever adds a queue names its index,
  as netlink's tools do.  With the index left to the library `HandleNames` is false
  (`queue_auto_index`).
* `Unwrapped`, written `MaxActive + 1 < CountModulus`: the board's count of active queues
  does not pass 2^32 - 1.  It is never corrected for completion queues of closed
  functions, so nothing in the code bounds it; it takes 2^32 additions.

### The host-to-device path

**`TypeCorrect`.**  `TypeOK` is the conjunction of `QueueTypes`, `EngineTypes`,
`WriterTypes` and `HistoryTypes`, and is inductive by itself.  There is one lemma per
part of the clock edge, composed in `TickType`, and one per action of the
environment; `QueuesKept`, `EngineKept`, `WriterKept` and `HistoryKept` dispose of
what an action leaves alone.  Its substance is that the wrapping arithmetic keeps
every address register in range whatever is loaded, and that the queues and
the buffer never hold more than their depth.

**`StreamCorrect`.**  The packets that the HBM writer and its buffer hold are, in
order, those whose data the QDMA will deliver, followed by the one that the engine
is offering.  It is inductive together with `TypeOK`: `TickStream` appends the
packet on both sides, `WriterStream` moves the buffer's head to the writer and
takes it from both when its last beat is written.

**`SelectionCorrect`.**  A head that waits for the HBM writer after its last packet
stays selected.  Nothing in that keeps the round robin from moving on in the
very edge at which a final packet is taken, so it is not inductive.
`AllFlags` relates each head's flags to the engine: the pulse that moves the
selection is up only while the engine is busy, and a final packet is taken
only by an idle engine.

**`ShareCorrect`.**  `Fair(i)` bounds the packets that have passed queue `i` by the
turns left between it and the selection: `bypass[i] + Dist(next, i) + Turn =< NumQ`.
The bound is `NumQ` and not `NumQ - 1`, because an idle head hands on without `next`
having moved, so the queue after it may have a second turn.

**`PacketsCorrect`.**  `PacketsInv` says that the registers of a head describe the
packet at offset `k * pkt` of its command, `k` being the number fired, and that the
packets fired are those at offsets `0, pkt, 2 * pkt, ...`.  The two ways of loading a
head and the three of advancing it are `LEMMA`s of their own.

**`CompletionsCorrect`.**  The longest argument, for the design proves by delays what
a handshake would prove by itself.  `CompletionsInv` has seven parts.  `Names`: the
commands of a queue are numbered in order.  `Handshake`: what the head and the
completion unit's registers can say of each other at each stage of a request.
`Fresh`: a flag `clear` that is up beside a packet in the buffer is no older than
the engine has been away, which is where `Lat =< Hold + 3` enters.  `Unwritten`: every
packet not yet written is of the command its head works on, a final one is the
last, and a head that has seen `clear` has none.  `Told`: a command is
reported once, in order, and only while its head asks.  `Owner` and `Marked`: whose
flag address a head holds, and when `h2m_last` is up.

**`DeliveryCorrect`.**  The refinement mapping drops everything but what has been
accepted, moved and reported.  The steps need `Track`: the packets that are
still to be written lead, beat count by beat count, from what has been moved of a
command to what has been given of it.  So when the last beat of a marked packet
is written, everything has been moved, which is `OrderedDelivery`'s
guard of a report.  Every step of `Next` is one step of the abstract module
or a stutter; its fairness and `PostedCompletes` are left to TLC.

### The device-to-host path

`IInv` is the invariant behind both theorems; none of its parts but the types
is inductive alone.  There is one lemma for the clock edge's effect on each part
(`TickFlags`, `TickStream`, ...), composed in `TickKeeps`, and one for each step outside
the clock domain.

**`DataIsRight`.**

* `AllFlags`, `AllFired`: as on the other path, what the flags of a head say of the
  selection and of the engine, and that its registers carry the packet at the beats
  sent.  A head that nobody uses never works, which is what keeps the window, where
  the multiplexers show head 0, from firing.
* `Pace`: from a start pulse to the reader's sample the engine is away, so the registers
  that lag behind by a packet still hold the packet of the pulse.  This is where
  `Lat =< Hold + 3` enters.
* `Stream`: the beats on their way, from the port back to the request that has not been
  made yet, are one by one those that the QDMA's slots and the engine's packet
  want (`Paired`).  An edge appends a packet to both sides (`PairedAppend`), a beat that
  is taken shortens both (`PairedTail`), and every other step only moves beats along.
* `Names`: a command keeps the name it was posted under, so a slot determines
  the beat it must get, whatever happens between.
* `Landed`: every beat that a head has sent is in the host's memory or still wanted.  When
  a flag is written nothing is wanted, so all of the command's data are there.

**`CompletionsAreRight`.**  `UnitStage` lists the stages of the unit: idle, or asking,
placing and placed, always with the stream at rest (`Quiet`).  `HStage` and `DStage` follow
a completion of either path from the head's `last` by the edge detectors, the
window and the unit to the head's release, in seven and six stages; `OneGoes`
shows that the two never ask in the same stage, since one needs the window and
the other a selected head.  `Drainage`: after a last packet the reader's flag comes up
only when every beat has left.  `Reports` ties the flags written to the stages: the
present command of a path has its flag exactly from the stage on at which the unit
has both halves (`HTold`, `DTold`), so no stage writes a second one.

### The HBM side

**`BurstsCorrect`.**  `BurstInv` ties the cursor's registers to the packet: `tmp` to
`next` is a good cut (`GoodCut`: not empty, in one block, ending at a block or
at the packet's end), what is on the bus ends at `tmp`, what was issued ends where
that begins, and `wlast` is up on the beat that is last.  The lemmas on `div`
and `%` by `Block` are at the start.

**`ReaderDrained`.**  `Drain` counts: what is due is what is owed by the HBM and what
no burst has asked for (`DueCounted`).  So once the first wait has begun the FIFO
can only empty, and a sample taken since then (`Fresh`) that says "empty" still
holds when it arrives `Lag` edges later (`Settled`).

### Peer-to-peer

**`FlagsCorrect`.**  `FlagsRight` only speaks of the end of a request's way; `P2PInv`
follows it from the first register write, for any rate of the two clocks.

* `LengthFirst`: no start overtakes its length.  The start takes seven stages and the
  length three, and wherever a start has arrived a length has.  So the counter never
  works with a length of 0, at which it would raise `complete` on no data.
* `CounterRight`: while the host waits, its request is in one of four stages: the
  beats come (`Counting`), the counter raises `complete` (`Reached`), the unit is asked
  across the clocks (`Requested`), the unit has it (`Quiet`).  The crossings hold one
  start and one length throughout (`Held`).  A program that pulses the start waits
  for good (`Deaf`).
* `UsedArrived`: a flag that the unit, the QDMA or the memory knows of is of a request
  whose beats have arrived.  This and `HostWrote` give the first half of `FlagsRight`.
* `UnclashedRight`: as long as no two clients met in the unit, the write of a flag is two
  halves, each offered and then taken (`Idle` or `Busy`), the QDMA's two counts differ by
  what is half taken (`Balanced`), and a host-to-device command goes from `NotAsked` by
  `Writing` to `Finished`.  That is why `h2c_cpt_complete` is told only when the QDMA has
  address and data of the flag.

Each edge and each line of the program keeps each conjunct by a lemma of its own.

### Address translation

`TransInv` is the conjunction of five parts, each kept by one edge for itself
(`CutterStep`, `TableStep` with `PipeStep`, `RoomStep`, `FramesStep`, `BeatsStep`).

**`PiecesCorrect`.**  `CutterInv(d)` says in each state what the registers of
`CMDBoundaryCheck` hold of the command of which `log.sent` beats have left: all of it
(`Begun`), what follows the end of a page (`AtPage`), or that and the rest of a page
(`InPage`, `InLastPage`).  `Further` is the lemma on `%` it needs.  `FramesInv`: a piece not
marked `near` moves with the output registers of port a, and no write that port b
forwards is of its entry, because entries are only appended (`ListedBefore`: its
index lies below the entries listed so far).

**`BeatsCorrect`.**  `RoomInv` counts a queue's pieces and the two behind it; a lookup needs
three places, so the sum never exceeds the depth.  `Aligned`: from the beat the pairer
is at, through the queue (`Chained`) and the pipeline, up to the cutter, every piece
begins where the one before it ends.  It holds until a piece is missed; after that
the counter is above zero until a base write clears it.

### The allocators

Both allocators are a first-fit list and a map of grants.  `Sound(list, used, lo,
hi)` is the invariant they share: every region and grant is a multiple of `Unit`
and inside the space, `end` agrees with `start + length`, no two overlap, and every
address is in one of them.  `Gapped`: while all sizes are multiples of `Unit`, regions
are in order and no two touch.

A request is one of two lemmas, a region taken whole (`RemovedKeeps`) or
shortened (`ShrunkKeeps`).  A return can join with the region before, the one after,
both or neither.  The four cases are one lemma, `Rejoining`: `Meets` says which
neighbours the returned range touches, `Replaces` that the regions from `i + 1` to
`j - 1` are gone and one stands in their place, and `ReplacedMoves` gives the
bijection between the regions that stay.

**`SpaceCorrect`, `ReturnsCorrect`.**  `HbmInv` adds that buffers and grants are one
to one (`HeldIsGranted`).  That every size comes back follows with `Rejoined`: a
gapped list that covers a space in which nothing is granted is one region.
`ReturnsCorrect` is what is true of returning in place of `FreeReturns`, which `hbm_free`
refutes.

**`BuffersCorrect`.**  `HugeInv` adds the slots: a list has each of its slots at most once,
and exactly those no caller has (`SlotsKept`); each buffer is in a slot or in a grant, and
no two start at one address (`BuffersPlaced`).  Where a list's slots begin is a
recursive function, `ListStart`; its equation and its monotonicity are proved by a
least counterexample (`LeastNat`), which serves where induction does not.

**`CallsCorrect`.**  `DmaInv`: two threads in one function are not alone; a start
register is set only between the two writes of its pulse; the fields written
so far hold the call of a thread that is alone; no register and no command of the
board comes from a later call, so the board cannot have this one before its start.

### The pool of queues and the functions

`ControlInv` says what of the pool, the functions' tables, the card's map and the
history `stale` holds between two calls; each theorem follows from it.

* `Shared`: free chunks are ordered and every queue of the board is in one chunk or
  in one function's range.  `PoolKept`'s `Partition` counts owners and chunks; the
  ordered form is what a search and a merge need.
* `Fresh`, unless `stale`: there is a gap between chunks, and a function without queues
  has no base.  The second half is what makes the first inductive: a refused
  request "restores" a range of no queues at its base, and if that base
  were real it would split the chunk around it.
* `FnInv`: each queue lies in the row of its type at its index, and only once the map
  has been written (`FnRows`); modes agree (`FnRings`); a filled handle is that of a present
  queue (`FnHandles`).
* `FnLinked`: a function's number of queues is its range's, and its map entry is
  that range as soon as it has been written.  A range moves only while
  the counts are zero, which by `FnCounted` is while no queue is in use; this is why
  `MapCurrent` and `HandleNames` cannot be proved without `CountsMatch`.
* `UsesInv`: the queues in use on the whole board, a finite set, are no more than its count.

For the pool, `SubmittedRight` says that a chunk given back is inserted in order
(`PlacedRight`) and merged without changing which queues are free (`MergedRight`:
the loop over the list is a recursive function, its equation proved by a least
counterexample); `Taken` and `TakenOut` that a grant leaves exactly the rest of
the chunk around it; `Requested` puts these together for all three ends of a
request, a refusal that restores the old range among them.

### The mailbox

`MailInv` relates what a VF keeps, its request, both registers, the PF's list, the PF's
account and the card's map, over every stage of every call.  It has five parts.  A function
strays if it is `late` (it gave up or vanished) or `hasty` (it woke between match and copy and
took its own request for queues for the answer).

* `Types`: besides types, `Account` (the pool is as in the section before, `Shared` included)
  and `Callers`: what a caller has still to do fits the state it is in, and its request is the
  first message of that.  It holds whatever anyone gives up on.
* `Enrolment`: whoever uses its queues is known to the PF, or its HELLO is the next of its
  messages.  A VF's register holds its messages in order and BYE is the last, so neither an
  old message nor a late answer can leave a map to a function that is gone; this is the first
  half of `MapsOwned`, and it holds of late functions too.
* `Agreement`, of a function that does not stray: `InStep` says where its request is, and
  what both sides hold while it is there.  Before a message is handled the PF has what the VF
  believes (`Ahead`, with `Stage` giving the counts at each message of an addition or a removal,
  those that undo a failed half included); after it, the PF has what the VF will believe (`After`),
  and the one answer on its way says so (`OneMail`).  That answers carry no number is harmless just
  because there is at most one.  The fourth disjunct is the slack of other functions' lateness: an
  answer may be dropped when someone else does not empty the register, and then the caller waits
  until it is late itself.  A caller that wakes too early with any other request than one for
  queues stays in step, since it takes nothing from the words but the success that the answer,
  by `After`, holds too.
* `Delivery`, as long as nobody is late: where each function's request is, hasty ones included
  (`Mailed`).  It says nothing of what the two sides believe, only that a request or its answer is in one
  place, which is `InFlight`; `Agreement` cannot say it of a hasty function.
* `Punctual`, as long as nobody is late: `Paced` adds the attempts left of the first answer to those
  made at the register; the sum is `RetryCnt`, and a receiver needs `Lag < RetryCnt`, so nothing is dropped
  (`NotDropped`).  `Seats`: each known function has exactly one slot, and the count of them is theirs; a
  HELLO finds a free slot since there are as many slots as functions (`SlotFree`), and the byte does
  not wrap since there are fewer than 256.

`Delivery` and `Punctual` need each other: that a dropped answer cannot happen is `Paced`, and that
the receiver of the answer in the register still runs (`Awaited`) is `Delivery`.  Each step of a VF or the
PF keeps each part by a lemma of its own; `SentAnswered` is the one at the heart, for it shows
that what `Handled` does to the PF's account is what the VF does to its own when the answer comes.

### Left to TLC

Liveness (`PostedCompletes`, `BothAnswered`, `PacketsComplete`,
`EveryRequestFlagged`, `ToldWhenMoved`, `Answered`) and fairness are out of the prover's
reach.  The folds and filters (`SelectSeq`, `FoldLeft` and the like) of `TableSetup`,
`ContextCommands`, `DescQueue` and of `D2HCmdQueue`'s refinement mapping
(`ImplementsDelivery`) are definitions the provers cannot unfold for every input; where one was needed for a proof, it is written
as a recursive function (`Merged`) or as a set (`Leaving`).  Everything else that
only runs check could be proved and is not yet: `DescQueue`, `ContextCommands`.  Of all of them TLC checks the invariants of section 3
on the instances given there.
## 5. Not modelled, and why

* `HBM*.scala`, `QDMA*.scala`, `*BlackBox.scala`: vendor IP, seen only through
  its handshakes.
* `c2hcounter.scala`, `c2hstatus.scala`, debug cores: counters for measurement; no
  decision of the design reads them.
* `common/src/**`: utility blocks; FIFO and clock crossings are modelled where
  they are used.
* Register dumps (`*_reg_dump.c`), global settings, debugfs and the `apps`: tables
  of names and printing.
* `Top.sv`, `Verilog/`, `Top.fir`, `out/`: generated from the Chisel code.
* `rPCIeRun/`'s measurement: its use of the primitives fixes how the host of the
  models behaves, its arithmetic is not modelled.

### Left out of modelled parts

* `VfMailbox`: a caller that gives up and a receiver that has just found its request take the
  message off its list twice, and the receiver then copies into a message that the caller has
  freed (`qdma_mbox.c:130`, :212, :214); the model has the expiry before the match or the early wake
  after it, and nothing of the damage to lists and memory.  A caller that reads the words while they
  are being copied sees either those of its request or those of the answer.  One caller per VF at a time; requests that only read; the PF's
  reset and farewell.  It has no liveness (`InFlight` says which answers are
  still on their way instead), because nothing obliges a VF to empty its
  register in time.
* `ContextCommands`: netlink and one other thread at a time; one wait expires.  A VF's
  request for a queue out of its range, which the PF refuses but answers as a
  success (`qdma_mbox_protocol.c:662`, :751, :828), is left out.
* `DescQueue`: streaming queues; `DeviceControl`: aggregated interrupts.
* `HbmSpace`, `HugePages`: requests of size 0, returns of addresses that were
  never handed out.

* `ContextContents`: fields copied unchanged by both kinds of function.  Of those that
  are not, four differ, and `SameContexts` says exactly when and how: the physical function
  alone disables marker responses (`mrkr_dis`, `qdma_context.c:118`), chooses a channel
  (`mm_chn`, :95, against the constant 0 at `qdma_mbox_protocol.c:535`), lets
  completions be updated in full (`full_upd`, :210, never composed) and forces
  credits for a streaming queue to the card (`frcd_en`, :100; the message is filled for
  C2H only, :432).  A virtual function's queue has these off whatever its
  configuration asks for.
* `PeerToPeer`: beats whose sample is not all ones, which the counter does not count.

### Limits and slips of the code that the models stay clear of

What follows was met while modelling; a run excludes it by a named bound or
condition, or it lies in code that is not modelled.

* Card: `next_addr + length < end_addr` is evaluated on 34 bits, so the sum wraps for
  a command of more than two packets that ends at the top of the HBM, or less than a
  packet below it: it sends its rest as one packet, or one packet too
  many, past its end.  A command posted to a full queue is dropped silently
  (`h2dcmdqueue.scala:47`).  The pulsed peer-to-peer benchmark
  (`tests.cpp:1045`) lowers start before data come and never gets its flag.
  Requests that meet in the completion unit can lose a flag (`clash`).
* Host library: `hbm_getaddr`'s failure value 4294967295 lies inside the space it
  manages (`QDMAController.cpp:365`); nodes left empty by rounded grants grow in
  number and can keep regions apart (`ragged`); the `if` before `qdma_alloc`'s
  error path is commented out (:607); `rc4ml.c:61` uses the number of pinned pages
  without a test for errors.
* Requests: direct-interrupt mode can leave a request without an answer; a vector
  element whose mapping fails is still queued (`libqdma_export.c:2585`);
  `qdma_kthread_stop` schedules a thread that may have gone (`thread.c:182`);
  `xpdev_nl_queue_start` frees its work item when the wait is interrupted
  while the worker still uses it (`src/qdma_mod.c:1316`).
* Functions: `xpdev->qmax` is
  kept when the queue data are freed (`qdma_mod.c:1342`); `qmax` may be
  set from two files at once (`libqdma_config.c:66`).
* Mailbox: a request that expired may be executed late, and its answer taken by a
  later request of the same kind; a wait that ends between the match and the
  copy succeeds with the request's own words (`EarlyWake`; its request for queues then leaves
  it with base -1 and the number it asked for); a late `QREQ` leaves a map that may
  overlap another VF's; a dropped answer sets no timer (`qdma_mbox.c:344`);
  `qdma_pf_trigger_vf_offline` walks the first slots although slots have gaps
  (`qdma_device.c:601`); a failed notification leaves a queue enabled but
  uncounted; a refused request leaves an empty entry with a base.
* Contexts: reads and clears of `CMPT_ONLY` contexts by mailbox are not checked
  against the range; `qid2vec`'s result is ignored (`qdma_context.c:852`), it is
  never cleared and never written for VFs; results of stop and clear are
  ignored and the ring is freed (`libqdma_export.c:1838`, :2004); an error code
  is converted twice; `hw_prg_lock` is one per function, not per card; `fnc_id`
  is a `uint8_t` where the EQDMA has 12 bits; two context dumps at once
  mix their values in global tables (`qdma_debugfs_queue.c:499`).
* Streaming C2H (not modelled): a receive buffer that was read in part is
  recycled with its length but not its offset restored (`qdma_st_c2h.c:446`);
  `get_fl_nr` (:696) counts one buffer too few for some lengths when
  the buffer size is not a power of two; an erroneous entry discards the good
  ones before it in the same batch, and `descq->err` is never reset.
* Interrupt aggregation (not modelled): the colour toggled on a wrap is that of the
  list's first ring (`qdma_intr.c:242`), harmless with one vector; the queue named
  by an entry is looked up without a range check (`qdma_device.c:480`).
* Error tables (not modelled): some entries carry a neighbour's mask, e.g.
  EQDMA's `DBE_1_ERR_PFCH_CTXT_CAM_RAM_1`, S80's
  `ST_C2H_ERR_PORTID_BYP_IN_MISMATCH` and `DSC_ERR_ALL`.

## 6. Plan

Done: both paths and their abstract specification; the HBM side, peer-to-peer and
translation; the host's allocators, table set-up and registers; the driver's
requests, resources, functions, mailbox and contexts.  Proved: all of the
host-to-device path's safety and its refinement, the device-to-host path's
safety, the HBM bursts, the flags of
peer-to-peer, the translation, both allocators, the registers, the pool of
queues with the functions that use it, and the mailbox.

Next, in this order:

1. Proofs: the in-order queue of `DescQueue`, the refinement of the device-to-host path.
2. The streaming C2H queue (`qdma_st_c2h.c`) as a module beside `DescQueue`, and
   the aggregated interrupts (`qdma_intr.c`).
3. The two paths composed, replacing the abstraction each has of the other.
