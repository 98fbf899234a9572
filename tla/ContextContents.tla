-------------------------- MODULE ContextContents ---------------------------
(***************************************************************************)
(* What the driver writes into the contexts of a queue.  A physical        *)
(* function fills the structures itself (make_..._context); a virtual one  *)
(* sends a message with sizes and thresholds, and the physical function    *)
(* looks their indices up in the card's tables (mbox_compose_..._context). *)
(* Left out are addresses, the function's number, the colour and the flags *)
(* and sizes that both copy unchanged from the same field of the queue's   *)
(* configuration.                                                          *)
(***************************************************************************)
EXTENDS Naturals
LOCAL INSTANCE FiniteSetsExt

CONSTANT Tables  \* tables of ring sizes, buffer sizes, counts and timers, alike here

VARIABLE made    \* the configuration, the tables, and both functions' contexts

contentVars == <<made>>

(* A queue's configuration, the part of it that decides something.  Only a *)
(* Versal hard card has a second channel.                                  *)
Types == {<<TRUE, "h2c">>, <<TRUE, "c2h">>, <<FALSE, "h2c">>, <<FALSE, "c2h">>, <<FALSE, "cmpt">>}

Configs(table) ==
  {c \in [type : Types, desc_bypass : BOOLEAN, sz64 : BOOLEAN, fetch_credit : BOOLEAN,
          irq_en : BOOLEAN, wb_status_en : BOOLEAN, pend_chk : BOOLEAN, indirect : BOOLEAN,
          adaptive_rx : BOOLEAN, channel : BOOLEAN,
          rng : DOMAIN table, other : DOMAIN table] : c.desc_bypass \/ ~c.sz64}

St(c)      == c.type[1]
C2h(c)     == c.type[2] = "c2h"
Cmpt(c)    == c.type[2] = "cmpt"
StC2h(c)   == St(c) /\ C2h(c)
HasCmpt(c) == StC2h(c) \/ Cmpt(c)

(* The completion ring's index: the smallest ring that is larger than the *)
(* one asked for (qdma_descq_config_complete).                            *)
BestFit(c, table) ==
  LET larger == {i \in DOMAIN table : table[i] > table[c.other]}
      least  == {i \in larger : \A j \in larger : table[i] =< table[j]}
  IN  IF larger = {} THEN c.other ELSE Min(least)

(* Interrupts: the ring's index with aggregation, or the vector. *)
Vec(c) == IF c.indirect THEN "ring" ELSE "vector"

DescSz(c) ==
  IF c.desc_bypass /\ c.sz64 THEN 64
  ELSE CASE ~St(c) -> 32
         [] StC2h(c) -> 8
         [] OTHER -> 16

-----------------------------------------------------------------------------
(* The physical function. *)

SwContext(c, vec, aggr, rng, desc_sz, frcd, mrkr_dis, mm_chn) ==
  [vec |-> vec, intr_aggr |-> aggr, rngsz_idx |-> rng, bypass |-> c.desc_bypass,
   is_mm |-> ~St(c), qen |-> TRUE, desc_sz |-> desc_sz, frcd_en |-> frcd,
   mrkr_dis |-> mrkr_dis, mm_chn |-> mm_chn,
   irq_en |-> c.irq_en /\ ~StC2h(c), irq_arm |-> c.irq_en /\ ~StC2h(c),
   wbk_en |-> c.wb_status_en /\ ~StC2h(c), wbi_chk |-> c.pend_chk /\ ~StC2h(c)]

(* Responses to markers are disabled, but for streaming C2H. *)
NoMarkers(c) == ~c.desc_bypass /\ ~StC2h(c)

Channel(c) == c.channel /\ ~St(c) /\ DescSz(c) # 64

MakeSw(c) ==
  SwContext(c, Vec(c), c.indirect, c.rng, DescSz(c),
            c.fetch_credit /\ St(c) /\ DescSz(c) # 64, NoMarkers(c), Channel(c))

MakePrefetch(c) == [valid |-> TRUE, bufsz_idx |-> c.other]

MakeCmpt(c, table) ==
  [valid |-> TRUE, timer_idx |-> c.other, counter_idx |-> c.other,
   ringsz_idx |-> BestFit(c, table), vec |-> Vec(c), int_aggr |-> c.indirect,
   full_upd |-> c.adaptive_rx]

(* qdma_descq_context_setup; a context that is not written is {}. *)
OfPf(c, table) ==
  [sw       |-> IF Cmpt(c) THEN {} ELSE {MakeSw(c)},
   prefetch |-> IF StC2h(c) THEN {MakePrefetch(c)} ELSE {},
   cmpt     |-> IF HasCmpt(c) THEN {MakeCmpt(c, table)} ELSE {}]

-----------------------------------------------------------------------------
(* The virtual function's message, from the tables it read at its start.   *)
(* Sizes of rings are one less than in the table.                          *)
DescqConf(c, cached) ==
  [c |-> c,
   intr_id |-> Vec(c), intr_aggr |-> c.indirect,
   desc_sz |-> IF Cmpt(c) /\ ~(c.desc_bypass /\ c.sz64) THEN 8 ELSE DescSz(c),
   forced_en |-> c.fetch_credit /\ StC2h(c) /\ ~(c.desc_bypass /\ c.sz64),
   ringsz |-> cached[c.rng] - 1, cmpt_ringsz |-> cached[BestFit(c, cached)] - 1,
   bufsz |-> cached[c.other], cnt_thres |-> cached[c.other], timer_thres |-> cached[c.other]]

(* The first entry of the card's table with a value; none is a refusal. *)
Entries(table, value) == {i \in DOMAIN table : table[i] = value}

Idx(table, value)     == Min(Entries(table, value))

BadRingEntries(table, ringsz) == Entries(table, ringsz)  \* mutant: the one is forgotten
RingEntries(table, ringsz)    == Entries(table, ringsz + 1)

Found(c, m, table) ==
  /\ RingEntries(table, IF Cmpt(c) THEN m.cmpt_ringsz ELSE m.ringsz) # {}
  /\ StC2h(c) => Entries(table, m.bufsz) # {}
  /\ HasCmpt(c) =>
       /\ Entries(table, m.cnt_thres) # {} /\ Entries(table, m.timer_thres) # {}
       /\ RingEntries(table, m.cmpt_ringsz) # {}

RingIdx(table, ringsz) == Min(RingEntries(table, ringsz))

ComposeSw(c, m, table) ==
  SwContext(c, m.intr_id, m.intr_aggr, RingIdx(table, m.ringsz), m.desc_sz,
            m.forced_en, FALSE, FALSE)

ComposePrefetch(m, table) == [valid |-> TRUE, bufsz_idx |-> Idx(table, m.bufsz)]

ComposeCmpt(m, table) ==
  [valid |-> TRUE, timer_idx |-> Idx(table, m.timer_thres),
   counter_idx |-> Idx(table, m.cnt_thres), ringsz_idx |-> RingIdx(table, m.cmpt_ringsz),
   vec |-> m.intr_id, int_aggr |-> m.intr_aggr, full_upd |-> FALSE]

(* mbox_write_queue_contexts: the answer, and the contexts if it is not a *)
(* refusal.                                                               *)
OfVf(c, m, table) ==
  [sw       |-> IF Cmpt(c) THEN {} ELSE {ComposeSw(c, m, table)},
   prefetch |-> IF StC2h(c) THEN {ComposePrefetch(m, table)} ELSE {},
   cmpt     |-> IF HasCmpt(c) THEN {ComposeCmpt(m, table)} ELSE {}]

-----------------------------------------------------------------------------
ContentInit == made = [at |-> "start"]

(* Both functions start a queue with the same configuration. *)
Setup(c, cached, table) ==
  made' = [at |-> "made", c |-> c, cached |-> cached, table |-> table,
            pf |-> OfPf(c, cached),
            vf |-> LET m == DescqConf(c, cached)
                   IN  IF Found(c, m, table) THEN {OfVf(c, m, table)} ELSE {}]

ContentNext ==
  /\ made.at = "start"
  /\ \E cached, table \in Tables : \E c \in Configs(cached) : Setup(c, cached, table)

ContentSpec == ContentInit /\ [][ContentNext]_contentVars

-----------------------------------------------------------------------------
(* What a field says: of an index, the value that it names. *)
Meaning(context, f, table) ==
  IF f \in {"rngsz_idx", "ringsz_idx", "bufsz_idx", "timer_idx", "counter_idx"}
  THEN table[context[f]] ELSE context[f]

(* What the physical function sets for a queue of its own only: disabled    *)
(* marker responses, the channel, full updates of completions, and forced   *)
(* credits of a streaming queue to the card.  A virtual function's message   *)
(* has no room for them or is not filled in.                                 *)
PfOnly(kind, c) ==
  CASE kind = "sw"   -> {f \in {"mrkr_dis", "mm_chn", "frcd_en"} :
                            \/ f = "mrkr_dis" /\ ~c.desc_bypass
                            \/ f = "mm_chn" /\ c.channel /\ ~St(c)
                            \/ f = "frcd_en" /\ c.fetch_credit /\ St(c) /\ ~C2h(c)}
    [] kind = "cmpt" -> {f \in {"full_upd"} : c.adaptive_rx}
    [] OTHER         -> {}

(* Where a virtual function's queue gets another context than a physical     *)
(* function would give a queue of the same configuration, it is in one of    *)
(* the four fields of PfOnly, which are then unset, and only if the          *)
(* configuration asks for it.  In all else the two mean the same, although   *)
(* sizes travel in the message and indices are found in the card's tables:   *)
(* every index names the size that the function counted on when it allocated *)
(* its rings.  The queue is refused only if the tables were changed since    *)
(* the function read them.                                                   *)
SameContexts ==
  made.at = "made" =>
    /\ \A vf \in made.vf : \A kind \in DOMAIN made.pf :
         /\ vf[kind] = {} <=> made.pf[kind] = {}
         /\ \A x \in vf[kind], y \in made.pf[kind] : \A f \in DOMAIN y :
              \/ Meaning(x, f, made.table) = Meaning(y, f, made.cached)
              \/ f \in PfOnly(kind, made.c) /\ ~x[f]
    /\ made.cached = made.table => made.vf # {}
=============================================================================
