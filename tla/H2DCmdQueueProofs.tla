------------------------- MODULE H2DCmdQueueProofs -------------------------
(* Theorems about H2DCmdQueue, for every value of its constants: its types,  *)
(* the selection of heads, the order of packets and their data, and how the  *)
(* packets of a command lie end to end where no sum of a head wraps past its *)
(* end.  Where the engine holds for as long as the HBM side may take to      *)
(* answer, completions are written once, in order and never while data of    *)
(* the command are still to be written; and where no sum wraps either, the   *)
(* path implements OrderedDelivery.                                          *)
EXTENDS H2DCmdQueue, SequenceTheorems, TLAPS

-----------------------------------------------------------------------------
(* What Head, Tail and Append do to a sequence. *)
LEMMA HeadTail ==
  ASSUME NEW S, NEW s \in Seq(S), s # <<>>
  PROVE  /\ Head(s) \in S /\ Head(s) = s[1]
         /\ Tail(s) \in Seq(S) /\ Len(Tail(s)) = Len(s) - 1
         /\ Len(s) \in Nat \ {0}
         /\ \A k \in 1 .. Len(s) - 1 : Tail(s)[k] = s[k + 1]
OBVIOUS

(* Types of what the registers are computed from. *)

LEMMA PlusType ==
  ASSUME NEW a \in 0 .. AddrSpace - 1, NEW b \in 0 .. AddrSpace
  PROVE  Plus(a, b) \in 0 .. AddrSpace - 1
BY ConstantsAssumption DEF Plus

LEMMA MinusType ==
  ASSUME NEW a \in 0 .. AddrSpace - 1, NEW b \in 0 .. AddrSpace - 1
  PROVE  Minus(a, b) \in 0 .. AddrSpace - 1
BY ConstantsAssumption DEF Minus

LEMMA LoadedType ==
  ASSUME NEW h \in HeadType, NEW c \in Job
  PROVE  Loaded(h, c) \in HeadType
<1> DEFINE many == c.len > c.pkt
           size == IF many THEN c.pkt ELSE c.len
           end  == Plus(c.h2m, c.len)
           nxt  == Plus(c.h2m, size)
           fin  == IF many THEN h.h2m_last ELSE TRUE
<1>1. /\ size \in 0 .. AddrSpace /\ c.h2m \in 0 .. AddrSpace - 1 /\ c.id \in Ids
      /\ c.len \in 0 .. AddrSpace /\ c.pkt \in 0 .. AddrSpace /\ c.h2c \in Nat
  BY DEF Job
<1>2. fin \in BOOLEAN
  BY DEF HeadType
<1>3. Loaded(h, c) = [h EXCEPT !.h2c_addr = c.h2c, !.h2m_addr = c.h2m, !.cpt = c.id,
               !.end_addr = end, !.pkt_size = c.pkt, !.length = size, !.next_addr = nxt,
               !.h2m_last = fin, !.cmd_in_ready = FALSE, !.cmd_out_valid = TRUE,
               !.working = TRUE]
  BY Zenon DEF Loaded, many, size, end, nxt, fin
<1> HIDE DEF many, size, fin
<1>4. end \in 0 .. AddrSpace - 1 /\ nxt \in 0 .. AddrSpace - 1
  BY <1>1, PlusType
<1> HIDE DEF end, nxt
<1> DEFINE h1 == [h EXCEPT !.h2c_addr = c.h2c, !.h2m_addr = c.h2m, !.cpt = c.id]
           h2 == [h1 EXCEPT !.end_addr = end, !.pkt_size = c.pkt, !.length = size]
           h3 == [h2 EXCEPT !.next_addr = nxt, !.h2m_last = fin, !.cmd_in_ready = FALSE]
           h4 == [h3 EXCEPT !.cmd_out_valid = TRUE, !.working = TRUE]
<1>5. Loaded(h, c) = h4
  BY <1>3, Zenon
<1>6. h1 \in HeadType
  BY <1>1 DEF HeadType
<1>7. h2 \in HeadType
  <2> HIDE DEF h1
  <2> QED
    BY <1>1, <1>4, <1>6 DEF HeadType
<1>8. h3 \in HeadType
  <2> HIDE DEF h2
  <2> QED
    BY <1>2, <1>4, <1>7 DEF HeadType
<1>9. h4 \in HeadType
  <2> HIDE DEF h3
  <2> QED
    BY <1>8 DEF HeadType
<1> QED
  BY <1>5, <1>9

LEMMA AdvancedType ==
  ASSUME NEW h \in HeadType
  PROVE  Advanced(h) \in HeadType
<1>1. Plus(h.h2m_addr, h.length) \in 0 .. AddrSpace - 1
  BY PlusType DEF HeadType
<1>2. Plus(h.next_addr, h.length) \in 0 .. AddrSpace - 1
  BY PlusType DEF HeadType
<1>3. Minus(h.end_addr, h.next_addr) \in 0 .. AddrSpace - 1
  BY MinusType DEF HeadType
<1>4. SentLast(h) \in HeadType
  BY DEF SentLast, HeadType
<1>5. \A more \in BOOLEAN : SentOne(h, more) \in HeadType
  <2> TAKE more \in BOOLEAN
  <2> DEFINE len == IF more THEN h.pkt_size ELSE Minus(h.end_addr, h.next_addr)
             nxt == IF more THEN Plus(h.next_addr, h.length) ELSE h.end_addr
             src == h.h2c_addr + h.length
             dst == Plus(h.h2m_addr, h.length)
  <2>1. len \in 0 .. AddrSpace
    BY <1>3, ConstantsAssumption DEF HeadType
  <2>2. nxt \in 0 .. AddrSpace - 1
    BY <1>2 DEF HeadType
  <2>3. src \in Nat
    BY DEF HeadType
  <2>4. dst \in 0 .. AddrSpace - 1
    BY <1>1
  <2>5. (~more) \in BOOLEAN
    OBVIOUS
  <2>6. SentOne(h, more) =
          [h EXCEPT !.continue = TRUE, !.h2c_addr = src, !.h2m_addr = dst,
                    !.length = len, !.next_addr = nxt, !.h2m_last = ~more]
    BY DEF SentOne, HeadType
  <2> HIDE DEF len, nxt, src, dst
  <2> DEFINE g == ~more
             h1 == [h EXCEPT !.continue = TRUE, !.h2c_addr = src, !.h2m_addr = dst]
             h2 == [h1 EXCEPT !.length = len, !.next_addr = nxt, !.h2m_last = g]
  <2>7. SentOne(h, more) = h2 /\ g \in BOOLEAN
    BY <2>5, <2>6, Zenon
  <2> HIDE DEF g
  <2>8. h1 \in HeadType
    BY <2>3, <2>4 DEF HeadType
  <2> HIDE DEF h1
  <2>9. h2 \in HeadType
    BY <2>1, <2>2, <2>7, <2>8 DEF HeadType
  <2>10. QED
    BY <2>7, <2>9
<1>6. CASE h.next_addr = h.end_addr
  BY <1>4, <1>6 DEF Advanced
<1>7. CASE h.next_addr # h.end_addr
  <2> DEFINE more == Plus(h.next_addr, h.length) < h.end_addr
  <2>1. Advanced(h) = SentOne(h, more)
    BY <1>7 DEF Advanced
  <2>2. more \in BOOLEAN
    OBVIOUS
  <2> HIDE DEF more
  <2>3. QED
    BY <1>5, <2>1, <2>2
<1>8. QED
  BY <1>6, <1>7

LEMMA HeadNextType ==
  ASSUME TypeOK, NEW i \in Queues
  PROVE  HeadNext(i) \in HeadType
<1> DEFINE h == head[i]
           loaded == IF CmdInFire(i) THEN Loaded(h, Head(fifo[i])) ELSE h
           fired  == IF Fire /\ out = i THEN Advanced(loaded) ELSE loaded
           pulsed == IF h.continue THEN [fired EXCEPT !.continue = FALSE] ELSE fired
           raised == IF h.last /\ Ready(i)
                     THEN [pulsed EXCEPT !.h2m_complete = TRUE] ELSE pulsed
<1>1. h \in HeadType
  BY DEF TypeOK, QueueTypes
<1>2. CmdInFire(i) => Head(fifo[i]) \in Job
  <2>1. fifo[i] \in Seq(Job)
    BY DEF TypeOK, QueueTypes
  <2>2. QED
    BY <2>1, HeadTail DEF CmdInFire
<1>3. loaded \in HeadType
  BY <1>1, <1>2, LoadedType
<1>4. fired \in HeadType
  <2> HIDE DEF loaded
  <2> QED BY <1>3, AdvancedType
<1>5. pulsed \in HeadType
  <2> HIDE DEF fired
  <2> QED BY <1>4 DEF HeadType
<1>6. raised \in HeadType
  <2> HIDE DEF pulsed
  <2> QED BY <1>5 DEF HeadType
<1>7. HeadNext(i) = IF h.last /\ h.h2m_complete /\ cpt.complete /\ out = i
                    THEN Finished(raised) ELSE raised
  BY DEF HeadNext
<1>8. Finished(raised) \in HeadType
  <2> HIDE DEF raised
  <2> QED BY <1>6 DEF HeadType, Finished
<1>9. QED
  <2> HIDE DEF raised, h
  <2> QED BY <1>6, <1>7, <1>8

LEMMA FifoNextType ==
  ASSUME TypeOK, NEW i \in Queues
  PROVE  FifoNext(i) \in Seq(Job) /\ Len(FifoNext(i)) =< QDepth
<1> DEFINE left == IF CmdInFire(i) THEN Tail(fifo[i]) ELSE fifo[i]
<1>1. fifo[i] \in Seq(Job) /\ Len(fifo[i]) =< QDepth
  BY DEF TypeOK, QueueTypes
<1>2. left \in Seq(Job) /\ Len(left) =< Len(fifo[i])
  <2>1. CASE CmdInFire(i)
    <3>1. fifo[i] # <<>>
      BY <2>1 DEF CmdInFire
    <3>2. QED
      BY <1>1, <2>1, <3>1, HeadTail
  <2>2. CASE ~CmdInFire(i)
    BY <1>1, <2>2
  <2>3. QED
    BY <2>1, <2>2
<1>3. req # <<>> => req[1].cmd \in Job
  <2>1. req \in Seq([q : Queues, cmd : Job])
    BY DEF TypeOK, QueueTypes
  <2>2. req # <<>> => req[1] \in [q : Queues, cmd : Job]
    BY <2>1, HeadTail
  <2>3. QED
    BY <2>2
<1>4. FifoNext(i) = IF req # <<>> /\ req[1].q = i /\ Len(fifo[i]) < QDepth
                    THEN Append(left, req[1].cmd) ELSE left
  BY DEF FifoNext
<1> HIDE DEF left
<1>5. CASE req # <<>> /\ req[1].q = i /\ Len(fifo[i]) < QDepth
  <2> DEFINE c == req[1].cmd
  <2>1. c \in Job /\ FifoNext(i) = Append(left, c)
    BY <1>3, <1>4, <1>5
  <2>2. Len(left) < QDepth
    BY <1>1, <1>2, <1>5, ConstantsAssumption
  <2> HIDE DEF c
  <2>3. QED
    BY <1>2, <2>1, <2>2, ConstantsAssumption
<1>6. CASE ~(req # <<>> /\ req[1].q = i /\ Len(fifo[i]) < QDepth)
  BY <1>1, <1>2, <1>4, <1>6, ConstantsAssumption
<1>7. QED
  BY <1>5, <1>6

LEMMA PacketType_ ==
  ASSUME TypeOK
  PROVE  Packet \in PacketType
<1>1. head[out] \in HeadType
  BY DEF TypeOK, QueueTypes
<1>2. QED
  BY <1>1 DEF Packet, PacketType, HeadType

LEMMA InitType == Init => TypeOK
<1> SUFFICES ASSUME Init PROVE TypeOK
  OBVIOUS
<1> USE ConstantsAssumption
<1>1. NoId \in Ids
  BY DEF NoId, Ids, Queues
<1>2. IdleHead \in HeadType
  BY <1>1 DEF IdleHead, HeadType
<1>3. NoJob \in Job
  BY <1>1 DEF NoJob, Job
<1>4. NoPacket \in PacketType
  BY <1>1 DEF NoPacket, PacketType
<1>5. QueueTypes
  <2>1. 0 \in Queues
    BY DEF Queues
  <2>2. /\ req = <<>> /\ fifo = [i \in Queues |-> <<>>]
        /\ head = [i \in Queues |-> IdleHead] /\ out = 0 /\ next = 0
    BY DEF Init
  <2>3. QED
    BY <1>2, <2>1, <2>2 DEF QueueTypes
<1>6. EngineTypes
  <2>1. h2c = [state |-> "idle", valid |-> FALSE, hold |-> 0, pkt |-> NoPacket]
    BY DEF Init
  <2>2. cpt = [complete |-> TRUE, addr |-> NoId, last_reg |-> FALSE,
               complete_reg |-> FALSE, ask |-> FALSE]
    BY DEF Init
  <2>3. qready \in BOOLEAN
    <3>1. qready = FALSE
      BY Zenon DEF Init
    <3>2. QED
      BY <3>1
  <2>4. QED
    BY <1>1, <1>4, <2>1, <2>2, <2>3 DEF EngineTypes
<1>7. WriterTypes
  <2>1. buf = <<>> /\ h2m = <<>> /\ data = <<>> /\ age = 0
    BY DEF Init
  <2>2. clear \in BOOLEAN
    <3>1. clear = FALSE
      BY Zenon DEF Init
    <3>2. QED
      BY <3>1
  <2>3. QED
    BY <2>1, <2>2 DEF WriterTypes
<1>8. HistoryTypes
  <2>1. /\ job = [i \in Queues |-> NoJob] /\ log = [i \in Queues |-> <<>>]
        /\ bypass = [i \in Queues |-> 0] /\ moved = [i \in Queues |-> 0]
        /\ posts = 0 /\ notified = <<>>
    BY DEF Init
  <2>2. QED
    BY <1>3, <2>1 DEF HistoryTypes
<1>9. QED
  BY <1>5, <1>6, <1>7, <1>8 DEF TypeOK

LEMMA TickType ==
  ASSUME TypeOK, Tick
  PROVE  TypeOK'
<1>1. fifo' \in [Queues -> Seq(Job)] /\ \A i \in Queues : Len(fifo'[i]) =< QDepth
  BY FifoNextType DEF Tick
<1>2. head' \in [Queues -> HeadType]
  BY HeadNextType DEF Tick
<1>3. out' \in Queues /\ next' \in Queues
  BY ConstantsAssumption DEF Tick, Schedule, Succ, TypeOK, QueueTypes, Queues
<1>4. /\ h2c' \in [state : {"idle", "send", "done"}, valid : BOOLEAN,
                   hold : 0 .. 15, pkt : PacketType]
      /\ qready' \in BOOLEAN
      /\ data' \in Seq(PacketType)
  <2> DEFINE EngineRegs == [state : {"idle", "send", "done"}, valid : BOOLEAN,
                            hold : 0 .. 15, pkt : PacketType]
  <2>1. h2c \in EngineRegs /\ qready \in BOOLEAN /\ data \in Seq(PacketType)
    BY DEF TypeOK, EngineTypes, WriterTypes
  <2>2. EngineStep
    BY DEF Tick
  <2>3. CASE h2c.state = "idle"
    <3>1. h2c' \in EngineRegs
      <4>1. h2c' = IF Fire THEN [h2c EXCEPT !.state = "send", !.pkt = Packet] ELSE h2c
        BY <2>2, <2>3 DEF EngineStep
      <4>2. QED
        BY <2>1, <4>1, PacketType_
    <3>2. UNCHANGED <<qready, data>>
      BY <2>2, <2>3 DEF EngineStep
    <3>3. QED
      BY <2>1, <3>1, <3>2
  <2>4. CASE h2c.state = "send"
    <3> DEFINE accepted == h2c.valid /\ qready
    <3>1. h2c' = IF accepted
                 THEN [h2c EXCEPT !.state = "done", !.valid = FALSE, !.hold = Hold]
                 ELSE [h2c EXCEPT !.valid = TRUE]
      BY <2>2, <2>4 DEF EngineStep
    <3>2. data' = IF accepted THEN Append(data, h2c.pkt) ELSE data
      BY <2>2, <2>4 DEF EngineStep
    <3>3. qready' = (qready /\ ~accepted)
      BY <2>2, <2>4 DEF EngineStep
    <3> HIDE DEF accepted
    <3>4. h2c' \in EngineRegs
      BY <2>1, <3>1, ConstantsAssumption
    <3>5. qready' \in BOOLEAN
      BY <3>3
    <3>6. h2c.pkt \in PacketType
      BY <2>1
    <3>7. data' \in Seq(PacketType)
      BY <2>1, <3>2, <3>6
    <3>8. QED
      BY <3>4, <3>5, <3>7
  <2>5. CASE h2c.state = "done"
    <3>1. h2c' = [h2c EXCEPT !.hold = (@ + 15) % 16,
                             !.state = IF h2c.hold = 0 THEN "idle" ELSE @]
      BY <2>2, <2>5 DEF EngineStep
    <3>2. (h2c.hold + 15) % 16 \in 0 .. 15
      BY <2>1
    <3>3. (IF h2c.hold = 0 THEN "idle" ELSE h2c.state) \in {"idle", "send", "done"}
      BY <2>1
    <3>4. h2c' \in EngineRegs
      BY <2>1, <3>1, <3>2, <3>3
    <3>5. UNCHANGED <<qready, data>>
      BY <2>2, <2>5 DEF EngineStep
    <3>6. QED
      BY <2>1, <3>4, <3>5
  <2>6. QED
    BY <2>2, <2>3, <2>4, <2>5 DEF EngineStep
<1>5. buf' \in Seq(PacketType) /\ Len(buf') =< BufDepth
  <2> DEFINE p == Packet
  <2>1. p \in PacketType
    BY PacketType_
  <2>2. buf' = IF Fire THEN Append(buf, p) ELSE buf
    BY DEF Tick
  <2>3. Fire => Len(buf) < BufDepth
    BY DEF Fire, CmdOutReady
  <2>4. buf \in Seq(PacketType) /\ Len(buf) =< BufDepth
    BY DEF TypeOK, WriterTypes
  <2> HIDE DEF p
  <2>5. QED
    BY <2>1, <2>2, <2>3, <2>4, ConstantsAssumption
<1>6. age' \in 0 .. Lat
  BY ConstantsAssumption DEF Tick, TypeOK, WriterTypes
<1>7. cpt' \in [complete : BOOLEAN, addr : Ids, last_reg : BOOLEAN,
                complete_reg : BOOLEAN, ask : BOOLEAN]
  <2> DEFINE start == head[out].last /\ ~cpt.last_reg
             last  == head[out].last
             full  == head[out].h2m_complete
             done  == cpt.complete /\ ~start
             addr  == IF start THEN head[out].cpt ELSE cpt.addr
             ask   == cpt.ask \/ (full /\ ~cpt.complete_reg)
  <2>1. head[out] \in HeadType
    BY DEF TypeOK, QueueTypes
  <2>2. cpt \in [complete : BOOLEAN, addr : Ids, last_reg : BOOLEAN,
                 complete_reg : BOOLEAN, ask : BOOLEAN]
    BY DEF TypeOK, EngineTypes
  <2>3. last \in BOOLEAN /\ full \in BOOLEAN /\ done \in BOOLEAN /\ ask \in BOOLEAN
    BY <2>1, <2>2 DEF HeadType
  <2>4. addr \in Ids
    BY <2>1, <2>2 DEF HeadType
  <2>5. cpt' = [cpt EXCEPT !.last_reg = last, !.complete_reg = full, !.complete = done,
                           !.addr = addr, !.ask = ask]
    BY Zenon DEF Tick, CptStep
  <2> HIDE DEF start, last, full, done, addr, ask
  <2>6. QED
    BY <2>2, <2>3, <2>4, <2>5
<1>8. job' \in [Queues -> Job]
  <2>1. \A i \in Queues : CmdInFire(i) => Head(fifo[i]) \in Job
    <3> SUFFICES ASSUME NEW i \in Queues, CmdInFire(i)
                 PROVE  Head(fifo[i]) \in Job
      OBVIOUS
    <3>1. fifo[i] \in Seq(Job) /\ fifo[i] # <<>>
      BY DEF TypeOK, QueueTypes, CmdInFire
    <3>2. QED
      BY <3>1, HeadTail
  <2>2. QED
    BY <2>1 DEF Tick, HistoryStep, TypeOK, HistoryTypes
<1>9. log' \in [Queues -> Seq(PacketType)]
  <2> DEFINE p == Packet
             l(i) == IF CmdInFire(i) THEN <<>>
                     ELSE IF Fire /\ out = i THEN Append(log[i], p) ELSE log[i]
  <2>1. log' = [i \in Queues |-> l(i)]
    BY DEF Tick, HistoryStep
  <2>2. p \in PacketType
    BY PacketType_
  <2>3. \A i \in Queues : log[i] \in Seq(PacketType)
    BY DEF TypeOK, HistoryTypes
  <2> HIDE DEF p
  <2>4. \A i \in Queues : l(i) \in Seq(PacketType)
    BY <2>2, <2>3
  <2>5. QED
    BY <2>1, <2>4
<1>10. bypass' \in [Queues -> Nat]
  <2> DEFINE b(i) == IF Fire /\ head[i].cmd_out_valid
                     THEN IF out = i THEN 0 ELSE bypass[i] + 1
                     ELSE bypass[i]
  <2>1. bypass' = [i \in Queues |-> b(i)]
    BY DEF Tick, HistoryStep
  <2>2. ASSUME NEW i \in Queues PROVE b(i) \in Nat
    <3>1. bypass[i] \in Nat
      BY DEF TypeOK, HistoryTypes
    <3>2. QED
      BY <3>1
  <2> HIDE DEF b
  <2>3. QED
    BY <2>1, <2>2
<1>11. UNCHANGED <<h2m, clear, moved, posts, notified>> /\ req' = <<>>
  BY DEF Tick
<1>12. QueueTypes'
  BY <1>1, <1>2, <1>3, <1>11 DEF QueueTypes
<1>13. EngineTypes'
  BY <1>4, <1>7 DEF EngineTypes
<1>14. WriterTypes'
  BY <1>4, <1>5, <1>6, <1>11 DEF TypeOK, WriterTypes
<1>15. HistoryTypes'
  BY <1>8, <1>9, <1>10, <1>11 DEF TypeOK, HistoryTypes
<1>16. QED
  BY <1>12, <1>13, <1>14, <1>15 DEF TypeOK

(* An action that leaves a group of variables alone keeps their types. *)

LEMMA QueuesKept ==
  ASSUME TypeOK, UNCHANGED <<req, sched>> PROVE QueueTypes'
BY DEF TypeOK, QueueTypes, sched

LEMMA EngineKept ==
  ASSUME TypeOK, UNCHANGED <<engine, cpt>> PROVE EngineTypes'
BY DEF TypeOK, EngineTypes, engine

LEMMA WriterKept ==
  ASSUME TypeOK, UNCHANGED writer PROVE WriterTypes'
BY DEF TypeOK, WriterTypes, writer

LEMMA HistoryKept ==
  ASSUME TypeOK, UNCHANGED <<history, moved, posts, notified>> PROVE HistoryTypes'
BY DEF TypeOK, HistoryTypes, history

LEMMA PostType ==
  ASSUME TypeOK, NEW i \in Queues, NEW c \in Cmds, Post(i, c)
  PROVE  TypeOK'
<1>1. posts \in 0 .. MaxPosts /\ posts < MaxPosts /\ posts' = posts + 1
  BY DEF Post, TypeOK, HistoryTypes
<1>2. Numbered(i, posts + 1, c) \in Job
  <2>1. c \in Command /\ posts + 1 \in 0 .. MaxPosts
    BY <1>1, ConstantsAssumption
  <2>2. c.len \in 0 .. AddrSpace /\ c.pkt \in 0 .. AddrSpace
    BY <2>1, ConstantsAssumption DEF Command
  <2>3. [q |-> i, n |-> posts + 1] \in Ids
    BY <2>1 DEF Ids
  <2>4. c.h2c \in Nat /\ c.h2m \in 0 .. AddrSpace - 1
    BY <2>1 DEF Command
  <2>5. QED
    BY <2>2, <2>3, <2>4 DEF Numbered, Job
<1>3. req' \in Seq([q : Queues, cmd : Job]) /\ Len(req') =< 1
  <2> DEFINE r == [q |-> i, cmd |-> Numbered(i, posts + 1, c)]
  <2>1. r \in [q : Queues, cmd : Job] /\ req' = <<r>>
    BY <1>2 DEF Post
  <2> HIDE DEF r
  <2>2. QED
    BY <2>1
<1>4. QueueTypes'
  <2>1. UNCHANGED sched
    BY DEF Post
  <2>2. QED
    BY <1>3, <2>1 DEF TypeOK, QueueTypes, sched
<1>5. EngineTypes' /\ WriterTypes'
  BY EngineKept, WriterKept DEF Post
<1>6. HistoryTypes'
  <2>1. UNCHANGED <<history, moved, notified>> /\ posts' \in 0 .. MaxPosts
    BY <1>1, ConstantsAssumption DEF Post
  <2>2. QED
    BY <2>1 DEF TypeOK, HistoryTypes, history
<1>7. QED
  BY <1>4, <1>5, <1>6 DEF TypeOK

LEMMA QdmaReadyType ==
  ASSUME TypeOK, QdmaReady
  PROVE  TypeOK'
<1>1. EngineTypes'
  BY DEF QdmaReady, TypeOK, EngineTypes
<1>2. QueueTypes' /\ WriterTypes' /\ HistoryTypes'
  BY QueuesKept, WriterKept, HistoryKept DEF QdmaReady
<1>3. QED
  BY <1>1, <1>2 DEF TypeOK

LEMMA WriterStartType ==
  ASSUME TypeOK, WriterStart
  PROVE  TypeOK'
<1>1. buf \in Seq(PacketType) /\ buf # <<>> /\ Len(buf) =< BufDepth
  BY DEF WriterStart, Owed, TypeOK, WriterTypes
<1>2. /\ Head(buf) \in PacketType /\ Tail(buf) \in Seq(PacketType)
      /\ Len(Tail(buf)) =< BufDepth
  BY <1>1, HeadTail, ConstantsAssumption
<1>3. h2m' \in Seq(PacketType) /\ Len(h2m') =< 1
  <2> DEFINE p == Head(buf)
  <2>1. p \in PacketType /\ h2m' = <<p>>
    BY <1>2 DEF WriterStart
  <2> HIDE DEF p
  <2>2. QED
    BY <2>1
<1>4. clear' = FALSE
  BY Zenon DEF WriterStart
<1>5. age' = 0 /\ buf' = Tail(buf) /\ data' = data
  BY DEF WriterStart
<1>6. WriterTypes'
  <2>1. clear' \in BOOLEAN
    BY <1>4
  <2>2. age' \in 0 .. Lat
    BY <1>5, ConstantsAssumption
  <2>3. data' \in Seq(PacketType)
    BY <1>5 DEF TypeOK, WriterTypes
  <2>4. buf' \in Seq(PacketType) /\ Len(buf') =< BufDepth
    BY <1>2, <1>5
  <2>5. QED
    BY <1>3, <2>1, <2>2, <2>3, <2>4 DEF WriterTypes
<1>7. QueueTypes' /\ EngineTypes' /\ HistoryTypes'
  BY QueuesKept, EngineKept, HistoryKept DEF WriterStart
<1>8. QED
  BY <1>6, <1>7 DEF TypeOK

LEMMA WriterDoneType ==
  ASSUME TypeOK, WriterDone
  PROVE  TypeOK'
<1>1. h2m[1] \in PacketType
  <2>1. h2m \in Seq(PacketType) /\ h2m # <<>>
    BY DEF WriterDone, TypeOK, WriterTypes
  <2>2. QED
    BY <2>1, HeadTail
<1>2. moved' \in [Queues -> Nat]
  <2>1. moved' = [moved EXCEPT ![h2m[1].id.q] = @ + h2m[1].len]
    BY DEF WriterDone
  <2>2. h2m[1].id.q \in Queues /\ h2m[1].len \in Nat
    BY <1>1, ConstantsAssumption DEF PacketType, Ids
  <2>3. moved \in [Queues -> Nat]
    BY DEF TypeOK, HistoryTypes
  <2>4. QED
    BY <2>1, <2>2, <2>3
<1>3. WriterTypes'
  <2>1. clear' \in BOOLEAN
    <3>1. clear' = (clear \/ h2m[1].last)
      BY DEF WriterDone
    <3>2. QED
      BY <3>1
  <2>2. data' \in Seq(PacketType)
    <3>1. data \in Seq(PacketType) /\ data # <<>> /\ data' = Tail(data)
      BY DEF WriterDone, TypeOK, WriterTypes
    <3>2. QED
      BY <3>1, HeadTail
  <2>3. h2m' = <<>> /\ UNCHANGED <<buf, age>>
    BY DEF WriterDone
  <2>4. QED
    BY <2>1, <2>2, <2>3 DEF TypeOK, WriterTypes
<1>4. HistoryTypes'
  <2>1. UNCHANGED <<history, posts, notified>>
    BY DEF WriterDone
  <2>2. QED
    BY <1>2, <2>1 DEF TypeOK, HistoryTypes, history
<1>5. QueueTypes' /\ EngineTypes'
  BY QueuesKept, EngineKept DEF WriterDone
<1>6. QED
  BY <1>3, <1>4, <1>5 DEF TypeOK

LEMMA NotifyType ==
  ASSUME TypeOK, Notify
  PROVE  TypeOK'
<1>1. cpt.addr \in Ids /\ cpt.addr.q \in Queues
  BY DEF TypeOK, EngineTypes, Ids
<1>2. EngineTypes'
  BY DEF Notify, TypeOK, EngineTypes, engine
<1>3. HistoryTypes'
  <2>1. notified' \in Seq(Ids) /\ moved' \in [Queues -> Nat]
    BY <1>1 DEF Notify, TypeOK, HistoryTypes
  <2>2. UNCHANGED <<history, posts>>
    BY DEF Notify
  <2>3. QED
    BY <2>1, <2>2 DEF TypeOK, HistoryTypes, history
<1>4. QueueTypes' /\ WriterTypes'
  BY QueuesKept, WriterKept DEF Notify
<1>5. QED
  BY <1>2, <1>3, <1>4 DEF TypeOK

LEMMA NextType ==
  ASSUME TypeOK, [Next]_vars
  PROVE  TypeOK'
<1>1. CASE UNCHANGED vars
  <2>1. UNCHANGED <<req, sched>> /\ UNCHANGED <<engine, cpt>> /\ UNCHANGED writer
        /\ UNCHANGED <<history, moved, posts, notified>>
    BY <1>1 DEF vars
  <2>2. QED
    BY <2>1, QueuesKept, EngineKept, WriterKept, HistoryKept DEF TypeOK
<1>2. CASE Tick
  BY <1>2, TickType
<1>3. CASE \E i \in Queues, c \in Cmds : Post(i, c)
  BY <1>3, PostType
<1>4. CASE QdmaReady
  BY <1>4, QdmaReadyType
<1>5. CASE WriterStart
  BY <1>5, WriterStartType
<1>6. CASE WriterDone
  BY <1>6, WriterDoneType
<1>7. CASE Notify
  BY <1>7, NotifyType
<1>8. QED
  BY <1>1, <1>2, <1>3, <1>4, <1>5, <1>6, <1>7 DEF Next, Environment

(* The registers, wires and history variables keep their types. *)
THEOREM TypeCorrect == Spec => []TypeOK
<1>1. Init => TypeOK
  BY InitType
<1>2. TypeOK /\ [Next]_vars => TypeOK'
  BY NextType
<1>3. QED
  BY <1>1, <1>2, PTL DEF Spec

-----------------------------------------------------------------------------
(* A head that waits for its completion stays selected. *)

(* How the flags of a head agree with each other, with the selection and     *)
(* with the engine.  The last conjunct is what keeps a head selected: the    *)
(* pulse that moves the selection on is up only while the engine cannot take *)
(* a packet, so it never meets the packet that makes its head wait.          *)
Flags(i) ==
  LET h == head[i]
  IN /\ ~(h.cmd_in_ready /\ h.working)
     /\ h.cmd_out_valid => h.working /\ ~h.last
     /\ h.last => h.working /\ ~h.continue /\ out = i
     /\ h.continue => out = i /\ (h.working => h2c.state # "idle")

AllFlags == \A i \in Queues : Flags(i)

-----------------------------------------------------------------------------
(* The flags of a head after each thing that can happen to it. *)

LEMMA LoadedFlags ==
  ASSUME NEW h \in HeadType, NEW c
  PROVE  /\ ~Loaded(h, c).cmd_in_ready /\ Loaded(h, c).cmd_out_valid
         /\ Loaded(h, c).working
         /\ Loaded(h, c).last = h.last /\ Loaded(h, c).continue = h.continue
BY DEF Loaded, HeadType

LEMMA AdvancedFlags ==
  ASSUME NEW h \in HeadType
  PROVE  /\ Advanced(h).cmd_in_ready = h.cmd_in_ready
         /\ Advanced(h).working = h.working
         /\ \/ /\ Advanced(h).last /\ ~Advanced(h).cmd_out_valid
               /\ ~Advanced(h).continue
            \/ /\ Advanced(h).last = h.last
               /\ Advanced(h).cmd_out_valid = h.cmd_out_valid
               /\ Advanced(h).continue
<1>1. CASE h.next_addr = h.end_addr
  <2>1. Advanced(h) = SentLast(h)
    BY <1>1 DEF Advanced
  <2>2. /\ SentLast(h).cmd_in_ready = h.cmd_in_ready
        /\ SentLast(h).working = h.working
        /\ SentLast(h).last /\ ~SentLast(h).cmd_out_valid /\ ~SentLast(h).continue
    BY DEF SentLast, HeadType
  <2>3. QED
    BY <2>1, <2>2
<1>2. CASE h.next_addr # h.end_addr
  <2> DEFINE more == Plus(h.next_addr, h.length) < h.end_addr
  <2>1. Advanced(h) = SentOne(h, more)
    BY <1>2 DEF Advanced
  <2> HIDE DEF more
  <2>2. /\ SentOne(h, more).cmd_in_ready = h.cmd_in_ready
        /\ SentOne(h, more).working = h.working
        /\ SentOne(h, more).last = h.last
        /\ SentOne(h, more).cmd_out_valid = h.cmd_out_valid
        /\ SentOne(h, more).continue
    BY DEF SentOne, HeadType
  <2>3. QED
    BY <2>1, <2>2
<1>3. QED
  BY <1>1, <1>2

LEMMA FinishedFlags ==
  ASSUME NEW h \in HeadType
  PROVE  /\ Finished(h).cmd_in_ready /\ ~Finished(h).working /\ ~Finished(h).last
         /\ Finished(h).continue /\ Finished(h).cmd_out_valid = h.cmd_out_valid
BY DEF Finished, HeadType

(* A head does at most one of: take a command, send a packet, finish. *)
LEMMA HeadCases ==
  ASSUME TypeOK, AllFlags, NEW i \in Queues
  PROVE  LET h == head[i]
             n == HeadNext(i)
         IN \/ /\ CmdInFire(i) /\ ~n.cmd_in_ready /\ n.cmd_out_valid /\ n.working
               /\ ~n.last /\ ~n.continue
            \/ /\ Fire /\ out = i /\ ~n.cmd_in_ready /\ n.working
               /\ \/ n.last /\ ~n.cmd_out_valid /\ ~n.continue
                  \/ ~n.last /\ n.cmd_out_valid /\ n.continue
            \/ /\ h.last /\ n.cmd_in_ready /\ ~n.working /\ ~n.last
               /\ ~n.cmd_out_valid /\ n.continue
            \/ /\ ~(Fire /\ out = i)
               /\ n.cmd_in_ready = h.cmd_in_ready /\ n.working = h.working
               /\ n.last = h.last /\ n.cmd_out_valid = h.cmd_out_valid
               /\ ~n.continue
<1> DEFINE h == head[i]
           n == HeadNext(i)
           j == Head(fifo[i])
<1>1. h \in HeadType
  BY DEF TypeOK, QueueTypes
<1>2. Flags(i)
  BY DEF AllFlags
<1>3. CmdInFire(i) => j \in Job
  <2>1. CmdInFire(i) => fifo[i] \in Seq(Job) /\ fifo[i] # <<>>
    BY DEF CmdInFire, TypeOK, QueueTypes
  <2>2. QED
    BY <2>1, HeadTail
<1>4. CASE CmdInFire(i)
  <2> DEFINE l == Loaded(h, j)
  <2>1. h.cmd_in_ready /\ ~h.working /\ ~h.cmd_out_valid /\ ~h.last
    BY <1>1, <1>2, <1>4 DEF CmdInFire, Flags, HeadType
  <2>2. ~(Fire /\ out = i)
    BY <2>1 DEF Fire
  <2>3. n = IF h.continue THEN [l EXCEPT !.continue = FALSE] ELSE l
    BY <1>4, <2>1, <2>2 DEF HeadNext
  <2>4. l \in HeadType
    BY <1>1, <1>3, <1>4, LoadedType
  <2>5. ~l.cmd_in_ready /\ l.cmd_out_valid /\ l.working /\ ~l.last /\ l.continue = h.continue
    BY <1>1, <2>1, LoadedFlags
  <2> HIDE DEF h, n, l
  <2>6. ~n.cmd_in_ready /\ n.cmd_out_valid /\ n.working /\ ~n.last /\ ~n.continue
    BY <2>3, <2>4, <2>5 DEF HeadType
  <2>7. QED
    BY <1>4, <2>6 DEF n
<1>5. CASE ~CmdInFire(i) /\ Fire /\ out = i
  <2> DEFINE a == Advanced(h)
  <2>1. h.cmd_out_valid /\ h2c.state = "idle"
    BY <1>5 DEF Fire, CmdOutReady
  <2>2. h.working /\ ~h.last /\ ~h.cmd_in_ready /\ ~h.continue
    BY <1>1, <1>2, <2>1 DEF Flags, HeadType
  <2>3. n = a
    BY <1>5, <2>2 DEF HeadNext
  <2>4. /\ ~a.cmd_in_ready /\ a.working
        /\ \/ a.last /\ ~a.cmd_out_valid /\ ~a.continue
           \/ ~a.last /\ a.cmd_out_valid /\ a.continue
    BY <1>1, <2>1, <2>2, AdvancedFlags
  <2> HIDE DEF a, n
  <2>5. /\ ~n.cmd_in_ready /\ n.working
        /\ \/ n.last /\ ~n.cmd_out_valid /\ ~n.continue
           \/ ~n.last /\ n.cmd_out_valid /\ n.continue
    BY <2>3, <2>4
  <2>6. QED
    BY <1>5, <2>5 DEF n
<1>6. CASE ~CmdInFire(i) /\ ~(Fire /\ out = i)
  <2> DEFINE p == IF h.continue THEN [h EXCEPT !.continue = FALSE] ELSE h
             r == IF h.last /\ Ready(i) THEN [p EXCEPT !.h2m_complete = TRUE] ELSE p
             done == h.last /\ h.h2m_complete /\ cpt.complete /\ out = i
  <2>1. n = IF done THEN Finished(r) ELSE r
    BY <1>6 DEF HeadNext
  <2>2. p \in HeadType
    BY <1>1 DEF HeadType
  <2>3. /\ p.cmd_in_ready = h.cmd_in_ready /\ p.working = h.working /\ p.last = h.last
        /\ p.cmd_out_valid = h.cmd_out_valid /\ ~p.continue
    BY <1>1 DEF HeadType
  <2> HIDE DEF p
  <2>4. r \in HeadType
    BY <2>2 DEF HeadType
  <2>5. /\ r.cmd_in_ready = p.cmd_in_ready /\ r.working = p.working /\ r.last = p.last
        /\ r.cmd_out_valid = p.cmd_out_valid /\ r.continue = p.continue
    BY <2>2 DEF HeadType
  <2> HIDE DEF r, n
  <2>6. CASE done
    <3>1. h.last /\ ~h.cmd_out_valid
      BY <1>1, <1>2, <2>6 DEF Flags, HeadType
    <3>2. n = Finished(r)
      BY <2>1, <2>6
    <3>3. ~r.cmd_out_valid
      BY <2>3, <2>5, <3>1
    <3>4. n.cmd_in_ready /\ ~n.working /\ ~n.last /\ ~n.cmd_out_valid /\ n.continue
      BY <2>4, <3>2, <3>3, FinishedFlags
    <3>5. QED
      BY <3>1, <3>4 DEF n
  <2>7. CASE ~done
    <3>1. n = r
      BY <2>1, <2>7
    <3>2. /\ n.cmd_in_ready = h.cmd_in_ready /\ n.working = h.working
          /\ n.last = h.last /\ n.cmd_out_valid = h.cmd_out_valid /\ ~n.continue
      BY <2>3, <2>5, <3>1
    <3>3. QED
      BY <1>6, <3>2 DEF n
  <2>8. QED
    BY <2>6, <2>7
<1>7. QED
  BY <1>4, <1>5, <1>6

-----------------------------------------------------------------------------
(* The engine is never idle after an edge at which a packet was taken. *)
LEMMA EngineBusy ==
  ASSUME TypeOK, Tick, Fire
  PROVE  h2c'.state # "idle"
<1>1. h2c.state = "idle"
  BY DEF Fire, CmdOutReady
<1> DEFINE p == Packet
<1>2. h2c' = [h2c EXCEPT !.state = "send", !.pkt = p]
  BY <1>1 DEF Tick, EngineStep
<1> HIDE DEF p
<1>3. QED
  BY <1>2 DEF TypeOK, EngineTypes

(* The selection stays with a head that sends a packet or waits. *)
LEMMA SelectionStays ==
  ASSUME TypeOK, AllFlags, Tick, Fire \/ head[out].last
  PROVE  out' = out
<1>1. out \in Queues /\ head[out] \in HeadType
  BY DEF TypeOK, QueueTypes
<1>2. Flags(out)
  BY <1>1 DEF AllFlags
<1>3. head[out].working /\ ~head[out].continue
  BY <1>1, <1>2 DEF Flags, Fire, CmdOutReady, HeadType
<1>4. QED
  BY <1>3 DEF Tick, Schedule

LEMMA TickFlags ==
  ASSUME TypeOK, AllFlags, Tick
  PROVE  AllFlags'
<1> SUFFICES ASSUME NEW i \in Queues PROVE Flags(i)'
  BY DEF AllFlags, Queues
<1> DEFINE h == head[i]
           n == HeadNext(i)
<1>1. head'[i] = n
  BY DEF Tick
<1>2. h \in HeadType /\ Flags(i) /\ n \in HeadType
  BY HeadNextType DEF TypeOK, QueueTypes, AllFlags
<1>3. h.last => out = i /\ h.working
  BY <1>2 DEF Flags
<1> HIDE DEF n
<1> SUFFICES /\ ~(n.cmd_in_ready /\ n.working)
             /\ n.cmd_out_valid => n.working /\ ~n.last
             /\ n.last => n.working /\ ~n.continue /\ out' = i
             /\ n.continue => out' = i /\ (n.working => h2c'.state # "idle")
  BY <1>1 DEF Flags
<1>4. CASE /\ CmdInFire(i) /\ ~n.cmd_in_ready /\ n.cmd_out_valid /\ n.working
           /\ ~n.last /\ ~n.continue
  BY <1>4
<1>5. CASE /\ Fire /\ out = i /\ ~n.cmd_in_ready /\ n.working
           /\ \/ n.last /\ ~n.cmd_out_valid /\ ~n.continue
              \/ ~n.last /\ n.cmd_out_valid /\ n.continue
  <2>1. out' = i /\ h2c'.state # "idle"
    BY <1>5, EngineBusy, SelectionStays
  <2>2. QED
    BY <1>5, <2>1
<1>6. CASE /\ h.last /\ n.cmd_in_ready /\ ~n.working /\ ~n.last
           /\ ~n.cmd_out_valid /\ n.continue
  <2>1. out' = i
    BY <1>3, <1>6, SelectionStays
  <2>2. QED
    BY <1>6, <2>1
<1>7. CASE /\ n.cmd_in_ready = h.cmd_in_ready /\ n.working = h.working
           /\ n.last = h.last /\ n.cmd_out_valid = h.cmd_out_valid
           /\ ~n.continue
  <2>1. /\ ~(h.cmd_in_ready /\ h.working)
        /\ h.cmd_out_valid => h.working /\ ~h.last
        /\ h.last => h.working /\ out = i
    BY <1>2 DEF Flags
  <2>2. h.last => out' = i
    BY <2>1, SelectionStays
  <2> HIDE DEF h
  <2>3. QED
    BY <1>7, <2>1, <2>2
<1>8. QED
  BY <1>4, <1>5, <1>6, <1>7, HeadCases DEF n

LEMMA FlagsKept == Spec => []AllFlags
<1>1. Init => AllFlags
  <2> SUFFICES ASSUME Init, NEW i \in Queues PROVE Flags(i)
    BY DEF AllFlags
  <2>1. head[i] = IdleHead
    BY DEF Init
  <2>2. /\ ~IdleHead.cmd_out_valid /\ ~IdleHead.last /\ ~IdleHead.working
        /\ ~IdleHead.continue
    BY DEF IdleHead
  <2>3. QED
    BY <2>1, <2>2 DEF Flags
<1>2. TypeOK /\ AllFlags /\ [Next]_vars => AllFlags'
  <2> SUFFICES ASSUME TypeOK, AllFlags, [Next]_vars PROVE AllFlags'
    OBVIOUS
  <2>1. CASE Tick
    BY <2>1, TickFlags
  <2>2. CASE UNCHANGED <<head, out, h2c>>
    BY <2>2 DEF AllFlags, Flags, Queues
  <2>3. QdmaReady => UNCHANGED <<head, out, h2c>>
    BY DEF QdmaReady, sched
  <2>4. WriterStart => UNCHANGED <<head, out, h2c>>
    BY DEF WriterStart, sched, engine
  <2>5. WriterDone => UNCHANGED <<head, out, h2c>>
    BY DEF WriterDone, sched, engine
  <2>6. Notify => UNCHANGED <<head, out, h2c>>
    BY DEF Notify, sched, engine
  <2>7. ASSUME NEW i \in Queues, NEW c \in Cmds, Post(i, c)
        PROVE  UNCHANGED <<head, out, h2c>>
    BY <2>7 DEF Post, sched, engine
  <2>8. UNCHANGED vars => UNCHANGED <<head, out, h2c>>
    BY DEF vars, sched, engine
  <2>9. QED
    BY <2>1, <2>2, <2>3, <2>4, <2>5, <2>6, <2>7, <2>8 DEF Next, Environment
<1>3. QED
  BY <1>1, <1>2, TypeCorrect, PTL DEF Spec

(* A head that has fired its final packet is the selected one until its      *)
(* completion is written, whatever the number of queues and the timing of    *)
(* the QDMA and the HBM side: every wire that ends its wait is gated by the  *)
(* selection.                                                                *)
THEOREM SelectionCorrect == Spec => []WaitingHeadSelected
<1>1. AllFlags => WaitingHeadSelected
  BY DEF AllFlags, Flags, WaitingHeadSelected
<1>2. QED
  BY <1>1, FlagsKept, PTL

-----------------------------------------------------------------------------
(* The round robin is fair. *)

(* Heads that come before i when the selection is handed on from a. *)
Dist(a, i) == IF a =< i THEN i - a ELSE i - a + NumQ

(* The selected head may still send a packet before it hands on. *)
Turn == IF head[out].continue \/ head[out].last THEN 0 ELSE 1

(* A head with a packet has been passed over at most as often as the turns   *)
(* between it and the selection leave over.  One turn more than there are    *)
(* other heads: an idle head hands on without next having moved, so the one  *)
(* it hands on to may have a second turn.                                    *)
Fair(i) ==
  /\ bypass[i] \in 0 .. NumQ
  /\ ~head[i].cmd_out_valid \/ head[i].continue => bypass[i] = 0
  /\ head[i].cmd_out_valid /\ out # i => bypass[i] + Dist(next, i) + Turn =< NumQ

LEMMA DistStep ==
  ASSUME NEW a \in Queues, NEW i \in Queues
  PROVE  /\ Dist(a, i) \in 0 .. NumQ - 1 /\ Succ(a) \in Queues
         /\ a # i => Dist(Succ(a), i) = Dist(a, i) - 1
BY ConstantsAssumption DEF Dist, Succ, Queues

LEMMA TickFair ==
  ASSUME TypeOK, AllFlags, \A j \in Queues : Fair(j), Tick, NEW i \in Queues
  PROVE  Fair(i)'
<1> DEFINE h == head[i]
           n == HeadNext(i)
           o == head[out]
           m == HeadNext(out)
           b == bypass[i]
           c == bypass'[i]
           t == Turn
           u == Turn'
           d == Dist(next, i)
           e == Dist(next', i)
<1>1. /\ out \in Queues /\ next \in Queues /\ NumQ \in Nat \ {0}
      /\ h \in HeadType /\ o \in HeadType /\ Fair(i) /\ Flags(i) /\ Flags(out)
  BY ConstantsAssumption DEF TypeOK, QueueTypes, AllFlags
<1>2. head'[i] = n /\ head'[out] = m
  BY <1>1 DEF Tick
<1>3. c = IF Fire /\ h.cmd_out_valid THEN IF out = i THEN 0 ELSE b + 1 ELSE b
  BY DEF Tick, HistoryStep
<1>4. /\ out'  = IF o.continue \/ ~o.working THEN next ELSE out
      /\ next' = IF o.continue \/ ~head[next].working THEN Succ(next) ELSE next
  BY DEF Tick, Schedule
<1>5. /\ d \in 0 .. NumQ - 1 /\ Succ(next) \in Queues /\ next' \in Queues
      /\ e \in 0 .. NumQ - 1
      /\ next # i => Dist(Succ(next), i) = d - 1
  BY <1>1, <1>4, DistStep
<1>6. t \in {0, 1} /\ u \in {0, 1}
  BY DEF Turn
<1>7. b \in 0 .. NumQ
  BY <1>1 DEF Fair
<1>8. ~h.cmd_out_valid => b = 0 /\ c = 0
  BY <1>1, <1>3 DEF Fair
<1>9. CASE ~n.cmd_out_valid
  <2>1. c = 0
    <3>1. CASE ~h.cmd_out_valid
      BY <1>8, <3>1
    <3>2. CASE h.cmd_out_valid
      <4>1. Fire /\ out = i
        BY <1>1, <1>9, <3>2, HeadCases DEF Flags, n
      <4>2. QED
        BY <1>3, <3>2, <4>1
    <3>3. QED
      BY <3>1, <3>2
  <2>2. QED
    BY <1>1, <1>2, <1>9, <2>1 DEF Fair
<1>10. CASE n.cmd_out_valid /\ ~h.cmd_out_valid
  <2>1. c = 0
    BY <1>8, <1>10
  <2>2. c + e + u =< NumQ
    BY <1>1, <1>5, <1>6, <2>1
  <2>3. QED
    BY <1>1, <1>2, <1>10, <2>1, <2>2 DEF Fair
<1>11. CASE n.cmd_out_valid /\ h.cmd_out_valid /\ out = i
  <2>1. h.working
    BY <1>1, <1>11 DEF Flags
  <2>2. CASE Fire
    <3>1. c = 0
      BY <1>3, <1>11, <2>2
    <3>2. c + e + u =< NumQ
      BY <1>1, <1>5, <1>6, <3>1
    <3>3. QED
      BY <1>1, <1>2, <1>11, <3>1, <3>2 DEF Fair
  <2>3. CASE ~Fire
    <3>1. c = b
      BY <1>3, <2>3
    <3>2. ~n.continue
      BY <1>1, <1>11, <2>3, HeadCases DEF Flags, CmdInFire, n
    <3>3. CASE h.continue
      <4>1. c = 0
        BY <1>1, <3>1, <3>3 DEF Fair
      <4>2. c + e + u =< NumQ
        BY <1>1, <1>5, <1>6, <4>1
      <4>3. QED
        BY <1>1, <1>2, <1>11, <4>1, <4>2 DEF Fair
    <3>4. CASE ~h.continue
      <4>1. out' = i
        BY <1>4, <1>11, <2>1, <3>4
      <4>2. QED
        BY <1>2, <1>7, <1>11, <3>1, <3>2, <4>1 DEF Fair
    <3>5. QED
      BY <3>3, <3>4
  <2>4. QED
    BY <2>2, <2>3
<1>12. CASE n.cmd_out_valid /\ h.cmd_out_valid /\ out # i
  <2>1. b + d + t =< NumQ
    BY <1>1, <1>12 DEF Fair
  <2>2. h.working /\ ~h.continue
    BY <1>1, <1>12 DEF Flags
  <2>3. ~n.continue
    BY <1>1, <1>12, <2>2, HeadCases DEF Flags, CmdInFire, n
  <2>4. next = i => next' = IF o.continue THEN Succ(next) ELSE next
    BY <1>4, <2>2
  <2>5. CASE Fire
    <3>1. /\ c = b + 1 /\ o.cmd_out_valid /\ out' = out /\ ~o.continue /\ ~o.last
      <4>1. c = b + 1 /\ o.cmd_out_valid
        BY <1>3, <1>12, <2>5 DEF Fire
      <4>2. out' = out
        BY <2>5, SelectionStays
      <4>3. o.working /\ ~o.last /\ h2c.state = "idle"
        BY <1>1, <2>5, <4>1 DEF Flags, Fire, CmdOutReady
      <4>4. ~o.continue
        BY <1>1, <4>3 DEF Flags
      <4>5. QED
        BY <4>1, <4>2, <4>3, <4>4
    <3>2. t = 1
      BY <3>1 DEF Turn
    <3>3. ~CmdInFire(out) /\ o.working
      BY <1>1, <3>1 DEF Flags, CmdInFire
    <3>4. m.last \/ m.continue
      BY <1>1, <2>5, <3>1, <3>3, HeadCases DEF m
    <3>5. u = 0
      BY <1>2, <3>1, <3>4 DEF Turn
    <3>6. e =< d
      <4>1. CASE next' = next
        BY <1>5, <4>1
      <4>2. CASE next' # next
        <5>1. next # i /\ next' = Succ(next)
          BY <1>4, <2>4, <3>1, <4>2
        <5>2. QED
          BY <1>5, <5>1
      <4>3. QED
        BY <4>1, <4>2
    <3>7. c + e + u =< NumQ /\ c \in 0 .. NumQ
      BY <1>1, <1>5, <1>7, <2>1, <3>1, <3>2, <3>5, <3>6
    <3>8. QED
      BY <1>2, <1>12, <2>3, <3>7 DEF Fair
  <2>6. CASE ~Fire /\ o.continue
    <3>1. c = b /\ out' = next /\ next' = Succ(next)
      BY <1>3, <1>4, <2>6
    <3>2. t = 0
      BY <2>6 DEF Turn
    <3>3. CASE next = i
      BY <1>2, <1>7, <1>12, <2>3, <3>1, <3>3 DEF Fair
    <3>4. CASE next # i
      <4>1. e = d - 1
        BY <1>5, <3>1, <3>4
      <4>2. c + e + u =< NumQ
        BY <1>1, <1>5, <1>6, <1>7, <2>1, <3>1, <3>2, <4>1
      <4>3. QED
        BY <1>2, <1>7, <1>12, <2>3, <3>1, <4>2 DEF Fair
    <3>5. QED
      BY <3>3, <3>4
  <2>7. CASE ~Fire /\ ~o.continue /\ ~o.working
    <3>1. c = b /\ out' = next
      BY <1>3, <1>4, <2>7
    <3>2. t = 1
      BY <1>1, <2>7 DEF Turn, Flags
    <3>3. CASE next = i
      BY <1>2, <1>7, <1>12, <2>3, <3>1, <3>3 DEF Fair
    <3>4. CASE next # i
      <4>1. e =< d
        BY <1>4, <1>5, <3>4
      <4>2. c + e + u =< NumQ
        BY <1>1, <1>5, <1>6, <1>7, <2>1, <3>1, <3>2, <4>1
      <4>3. QED
        BY <1>2, <1>7, <1>12, <2>3, <3>1, <4>2 DEF Fair
    <3>5. QED
      BY <3>3, <3>4
  <2>8. CASE ~Fire /\ ~o.continue /\ o.working
    <3>1. c = b /\ out' = out
      BY <1>3, <1>4, <2>8
    <3>2. u =< t
      <4>1. CASE o.last
        <5>1. m.last \/ m.continue
          BY <1>1, <2>8, <4>1, HeadCases DEF m, Flags, CmdInFire
        <5>2. u = 0
          BY <1>2, <3>1, <5>1 DEF Turn
        <5>3. QED
          BY <1>6, <5>2
      <4>2. CASE ~o.last
        <5>1. t = 1
          BY <2>8, <4>2 DEF Turn
        <5>2. QED
          BY <1>6, <5>1
      <4>3. QED
        BY <4>1, <4>2
    <3>3. e =< d
      <4>1. CASE next' = next
        BY <1>5, <4>1
      <4>2. CASE next' # next
        <5>1. next # i /\ next' = Succ(next)
          BY <1>4, <2>4, <2>8, <4>2
        <5>2. QED
          BY <1>5, <5>1
      <4>3. QED
        BY <4>1, <4>2
    <3>4. c + e + u =< NumQ
      BY <1>1, <1>5, <1>6, <1>7, <2>1, <3>1, <3>2, <3>3
    <3>5. QED
      BY <1>2, <1>7, <1>12, <2>3, <3>1, <3>4 DEF Fair
  <2>9. QED
    BY <2>5, <2>6, <2>7, <2>8
<1>13. QED
  BY <1>9, <1>10, <1>11, <1>12

(* A head with a packet to send is passed over by at most one packet of each *)
(* other queue and one more, whatever the number of queues and however its   *)
(* arrival meets the running of next.                                        *)
THEOREM ShareCorrect == Spec => []FairShare
<1>1. Init => \A i \in Queues : Fair(i)
  <2> SUFFICES ASSUME Init, NEW i \in Queues PROVE Fair(i)
    OBVIOUS
  <2>1. bypass[i] = 0 /\ head[i] = IdleHead
    BY DEF Init
  <2>2. ~IdleHead.cmd_out_valid
    BY DEF IdleHead
  <2>3. QED
    BY <2>1, <2>2, ConstantsAssumption DEF Fair
<1>2. /\ TypeOK /\ AllFlags /\ (\A i \in Queues : Fair(i)) /\ [Next]_vars
      => (\A i \in Queues : Fair(i))'
  <2> SUFFICES ASSUME TypeOK, AllFlags, \A i \in Queues : Fair(i), [Next]_vars
               PROVE  (\A i \in Queues : Fair(i))'
    OBVIOUS
  <2>1. CASE Tick
    <3>1. \A i \in Queues : Fair(i)'
      BY <2>1, TickFair
    <3>2. QED
      BY <3>1 DEF Queues
  <2>2. CASE UNCHANGED <<head, out, next, bypass>>
    BY <2>2 DEF Fair, Turn, Dist, Queues
  <2>3. QdmaReady => UNCHANGED <<head, out, next, bypass>>
    BY DEF QdmaReady, sched, history
  <2>4. WriterStart => UNCHANGED <<head, out, next, bypass>>
    BY DEF WriterStart, sched, history
  <2>5. WriterDone => UNCHANGED <<head, out, next, bypass>>
    BY DEF WriterDone, sched, history
  <2>6. Notify => UNCHANGED <<head, out, next, bypass>>
    BY DEF Notify, sched, history
  <2>7. ASSUME NEW i \in Queues, NEW c \in Cmds, Post(i, c)
        PROVE  UNCHANGED <<head, out, next, bypass>>
    BY <2>7 DEF Post, sched, history
  <2>8. UNCHANGED vars => UNCHANGED <<head, out, next, bypass>>
    BY DEF vars, sched, history
  <2>9. QED
    BY <2>1, <2>2, <2>3, <2>4, <2>5, <2>6, <2>7, <2>8 DEF Next, Environment
<1>3. (\A i \in Queues : Fair(i)) => FairShare
  BY ConstantsAssumption DEF Fair, FairShare
<1>4. QED
  BY <1>1, <1>2, <1>3, TypeCorrect, FlagsKept, PTL DEF Spec

-----------------------------------------------------------------------------
(* The HBM writer never pairs a packet with another packet's data. *)

(* Concatenation with an element added at the end or taken from the front. *)

LEMMA ConcatAppend ==
  ASSUME NEW S, NEW s \in Seq(S), NEW t \in Seq(S), NEW e \in S
  PROVE  s \o Append(t, e) = Append(s \o t, e)
<1> DEFINE l == s \o Append(t, e)
           r == Append(s \o t, e)
<1>1. s \o t \in Seq(S) /\ Append(t, e) \in Seq(S)
  BY ConcatProperties
<1>2. l \in Seq(S) /\ r \in Seq(S)
  BY <1>1, ConcatProperties
<1>3. Len(l) = Len(r)
  BY <1>1, ConcatProperties
<1>4. ASSUME NEW i \in 1 .. Len(l) PROVE l[i] = r[i]
  <2>1. Len(s) \in Nat /\ Len(t) \in Nat /\ Len(Append(t, e)) = Len(t) + 1
    OBVIOUS
  <2>2. Len(l) = Len(s) + Len(t) + 1 /\ Len(s \o t) = Len(s) + Len(t)
    BY <1>1, <2>1, ConcatProperties
  <2>3. l[i] = IF i =< Len(s) THEN s[i] ELSE Append(t, e)[i - Len(s)]
    <3> DEFINE u == Append(t, e)
    <3>1. u \in Seq(S) /\ Len(u) = Len(t) + 1 /\ i \in 1 .. Len(s) + Len(u)
      BY <1>1, <2>1, <2>2
    <3> HIDE DEF u
    <3>2. (s \o u)[i] = IF i =< Len(s) THEN s[i] ELSE u[i - Len(s)]
      BY <3>1, ConcatProperties
    <3>3. QED
      BY <3>2 DEF u
  <2>4. r[i] = IF i =< Len(s) + Len(t) THEN (s \o t)[i] ELSE e
    BY <1>1, <2>1, <2>2
  <2>5. i =< Len(s) + Len(t) =>
          (s \o t)[i] = IF i =< Len(s) THEN s[i] ELSE t[i - Len(s)]
    BY <2>1, <2>2, ConcatProperties
  <2>6. i > Len(s) => Append(t, e)[i - Len(s)]
                        = IF i - Len(s) =< Len(t) THEN t[i - Len(s)] ELSE e
    BY <2>1, <2>2
  <2> HIDE DEF l, r
  <2>7. QED
    BY <2>1, <2>2, <2>3, <2>4, <2>5, <2>6
<1> HIDE DEF l, r
<1>5. l = r
  BY <1>2, <1>3, <1>4, SeqEqual
<1>6. QED
  BY <1>5 DEF l, r

LEMMA ConcatTail ==
  ASSUME NEW S, NEW s \in Seq(S), NEW t \in Seq(S), s # <<>>
  PROVE  Tail(s) \o t = Tail(s \o t)
<1> DEFINE l == Tail(s) \o t
           r == Tail(s \o t)
<1>1. /\ Tail(s) \in Seq(S) /\ Len(Tail(s)) = Len(s) - 1 /\ Len(s) \in Nat \ {0}
      /\ \A k \in 1 .. Len(s) - 1 : Tail(s)[k] = s[k + 1]
  BY HeadTail
<1>2. s \o t \in Seq(S) /\ s \o t # <<>> /\ Len(s \o t) = Len(s) + Len(t)
  BY ConcatProperties, ConcatEqualIffEmpty
<1>3. /\ r \in Seq(S) /\ Len(r) = Len(s) + Len(t) - 1
      /\ \A k \in 1 .. Len(s) + Len(t) - 1 : r[k] = (s \o t)[k + 1]
  BY <1>2, HeadTail
<1>4. l \in Seq(S) /\ Len(l) = Len(s) - 1 + Len(t)
  BY <1>1, ConcatProperties
<1>5. Len(t) \in Nat
  OBVIOUS
<1>6. ASSUME NEW k \in 1 .. Len(l) PROVE l[k] = r[k]
  <2>1. l[k] = IF k =< Len(s) - 1 THEN Tail(s)[k] ELSE t[k - (Len(s) - 1)]
    BY <1>1, <1>4, ConcatProperties
  <2>2. r[k] = IF k + 1 =< Len(s) THEN s[k + 1] ELSE t[k + 1 - Len(s)]
    BY <1>1, <1>3, <1>4, <1>5, ConcatProperties
  <2> HIDE DEF l, r
  <2>3. k - (Len(s) - 1) = k + 1 - Len(s) /\ (k =< Len(s) - 1 <=> k + 1 =< Len(s))
    BY <1>1, <1>4, <1>5
  <2>4. QED
    BY <1>1, <1>4, <1>5, <2>1, <2>2, <2>3
<1> HIDE DEF l, r
<1>7. l = r
  BY <1>3, <1>4, <1>5, <1>1, <1>6, SeqEqual
<1>8. QED
  BY <1>7 DEF l, r

LEMMA HeadThenTail ==
  ASSUME NEW S, NEW s \in Seq(S), s # <<>>
  PROVE  <<Head(s)>> \o Tail(s) = s
<1> DEFINE h == Head(s)
           l == <<h>> \o Tail(s)
<1>1. /\ h \in S /\ h = s[1] /\ Tail(s) \in Seq(S) /\ Len(Tail(s)) = Len(s) - 1
      /\ Len(s) \in Nat \ {0} /\ \A k \in 1 .. Len(s) - 1 : Tail(s)[k] = s[k + 1]
  BY HeadTail
<1> HIDE DEF h
<1>2. <<h>> \in Seq(S) /\ Len(<<h>>) = 1 /\ <<h>>[1] = h
  BY <1>1
<1>3. /\ l \in Seq(S) /\ Len(l) = 1 + (Len(s) - 1)
      /\ \A k \in 1 .. Len(s) : l[k] = IF k =< 1 THEN <<h>>[k] ELSE Tail(s)[k - 1]
  BY <1>1, <1>2, ConcatProperties
<1> HIDE DEF l
<1>4. \A k \in 1 .. Len(l) : l[k] = s[k]
  BY <1>1, <1>2, <1>3
<1>5. l = s
  BY <1>1, <1>3, <1>4, SeqEqual
<1>6. QED
  BY <1>5 DEF h, l

-----------------------------------------------------------------------------
(* The packet the engine has taken and the QDMA has not. *)
Offered == IF h2c.state = "send" THEN <<h2c.pkt>> ELSE <<>>

LEMMA StreamTypes ==
  ASSUME TypeOK
  PROVE  /\ h2m \in Seq(PacketType) /\ Len(h2m) =< 1
         /\ buf \in Seq(PacketType) /\ data \in Seq(PacketType)
         /\ Offered \in Seq(PacketType) /\ h2c.pkt \in PacketType
         /\ h2c.state \in {"idle", "send", "done"}
<1>1. h2c.pkt \in PacketType /\ h2c.state \in {"idle", "send", "done"}
  BY DEF TypeOK, EngineTypes
<1>2. Offered \in Seq(PacketType)
  BY <1>1 DEF Offered
<1>3. QED
  BY <1>1, <1>2 DEF TypeOK, WriterTypes

LEMMA TickStream ==
  ASSUME TypeOK, StreamAligned, Tick
  PROVE  StreamAligned'
<1> DEFINE p == Packet
<1>1. p \in PacketType
  BY PacketType_
<1>2. /\ buf' = IF Fire THEN Append(buf, p) ELSE buf
      /\ h2m' = h2m /\ EngineStep
  BY DEF Tick
<1>3. Fire => h2c.state = "idle"
  BY DEF Fire, CmdOutReady
<1>4. h2m \o buf = data \o Offered
  BY DEF StreamAligned, Offered
<1> SUFFICES h2m \o buf' = data' \o Offered'
  BY <1>2 DEF StreamAligned, Offered
<1>5. CASE Fire
  <2>1. h2c' = [h2c EXCEPT !.state = "send", !.pkt = p] /\ data' = data
    BY <1>2, <1>3, <1>5 DEF EngineStep
  <2>2. h2c'.state = "send" /\ h2c'.pkt = p
    BY <2>1 DEF TypeOK, EngineTypes
  <2> HIDE DEF p
  <2>3. Offered' = <<p>> /\ Offered = <<>>
    BY <1>3, <1>5, <2>2 DEF Offered
  <2>4. h2m \o buf = data
    BY <1>4, <2>3, StreamTypes, ConcatEmptySeq
  <2>5. h2m \o buf' = Append(data, p)
    BY <1>1, <1>2, <1>5, <2>4, StreamTypes, ConcatAppend, SMTT(60)
  <2>6. data \o <<p>> = Append(data, p)
    <3>1. <<p>> = Append(<<>>, p) /\ <<>> \in Seq(PacketType)
      OBVIOUS
    <3>2. QED
      BY <1>1, <3>1, StreamTypes, ConcatAppend, ConcatEmptySeq
  <2>7. QED
    BY <2>1, <2>3, <2>5, <2>6
<1>6. CASE h2c.state = "send" /\ h2c.valid /\ qready
  <2>1. /\ h2c' = [h2c EXCEPT !.state = "done", !.valid = FALSE, !.hold = Hold]
        /\ data' = Append(data, h2c.pkt)
    BY <1>2, <1>6 DEF EngineStep
  <2>2. h2c'.state = "done"
    BY <2>1 DEF TypeOK, EngineTypes
  <2>3. Offered' = <<>> /\ Offered = <<h2c.pkt>> /\ buf' = buf
    BY <1>2, <1>3, <1>6, <2>2 DEF Offered
  <2>4. data \o <<h2c.pkt>> = Append(data, h2c.pkt)
    <3> DEFINE q == h2c.pkt
    <3>1. q \in PacketType /\ data \in Seq(PacketType)
      BY StreamTypes
    <3> HIDE DEF q
    <3>2. <<q>> = Append(<<>>, q) /\ <<>> \in Seq(PacketType)
      OBVIOUS
    <3>3. data \o <<q>> = Append(data, q)
      BY <3>1, <3>2, ConcatAppend, ConcatEmptySeq
    <3>4. QED
      BY <3>3 DEF q
  <2>5. Append(data, h2c.pkt) \o <<>> = Append(data, h2c.pkt)
    BY StreamTypes, ConcatEmptySeq
  <2>6. QED
    BY <1>4, <2>1, <2>3, <2>4, <2>5
<1>7. CASE ~Fire /\ ~(h2c.state = "send" /\ h2c.valid /\ qready)
  <2>1. data' = data /\ buf' = buf
    BY <1>2, <1>7 DEF EngineStep
  <2>2. Offered' = Offered
    <3>1. CASE h2c.state = "idle"
      BY <1>2, <1>7, <3>1 DEF EngineStep, Offered
    <3>2. CASE h2c.state = "send"
      <4>1. h2c' = [h2c EXCEPT !.valid = TRUE]
        BY <1>2, <1>7, <3>2 DEF EngineStep
      <4>2. h2c'.state = h2c.state /\ h2c'.pkt = h2c.pkt
        BY <4>1 DEF TypeOK, EngineTypes
      <4>3. QED
        BY <4>2 DEF Offered
    <3>3. CASE h2c.state = "done"
      <4>1. h2c' = [h2c EXCEPT !.hold = (@ + 15) % 16,
                               !.state = IF h2c.hold = 0 THEN "idle" ELSE @]
        BY <1>2, <3>3 DEF EngineStep
      <4>2. h2c'.state # "send"
        BY <3>3, <4>1 DEF TypeOK, EngineTypes
      <4>3. QED
        BY <3>3, <4>2 DEF Offered
    <3>4. QED
      BY <3>1, <3>2, <3>3, StreamTypes
  <2>3. QED
    BY <1>4, <2>1, <2>2
<1>8. QED
  BY <1>3, <1>5, <1>6, <1>7

LEMMA WriterStream ==
  ASSUME TypeOK, StreamAligned, WriterStart \/ WriterDone
  PROVE  StreamAligned'
<1>1. h2m \o buf = data \o Offered
  BY DEF StreamAligned, Offered
<1>2. CASE WriterStart
  <2>1. h2m = <<>> /\ buf # <<>> /\ buf' = Tail(buf) /\ h2m' = <<Head(buf)>>
    BY <1>2 DEF WriterStart, Owed
  <2>2. UNCHANGED <<h2c, data>>
    BY <1>2 DEF WriterStart, engine
  <2>3. h2m' \o buf' = buf
    BY <2>1, StreamTypes, HeadThenTail
  <2>4. h2m \o buf = buf
    BY <2>1, StreamTypes, ConcatEmptySeq
  <2>5. h2m' \o buf' = data' \o Offered'
    BY <1>1, <2>2, <2>3, <2>4 DEF Offered
  <2>6. QED
    BY <2>5 DEF StreamAligned, Offered
<1>3. CASE WriterDone
  <2>1. h2m # <<>> /\ data # <<>> /\ h2m' = <<>> /\ data' = Tail(data)
    BY <1>3 DEF WriterDone
  <2>2. UNCHANGED <<h2c, buf>>
    BY <1>3 DEF WriterDone, engine
  <2>3. h2m' = Tail(h2m)
    <3>1. Tail(h2m) \in Seq(PacketType) /\ Len(Tail(h2m)) = 0
      <4>1. h2m \in Seq(PacketType) /\ Len(h2m) =< 1
        BY StreamTypes
      <4>2. /\ Tail(h2m) \in Seq(PacketType) /\ Len(Tail(h2m)) = Len(h2m) - 1
            /\ Len(h2m) \in Nat \ {0}
        BY <2>1, <4>1, HeadTail
      <4>3. QED
        BY <4>1, <4>2
    <3>2. Tail(h2m) = <<>>
      <4> DEFINE t == Tail(h2m)
      <4> HIDE DEF t
      <4>1. t \in Seq(PacketType) /\ Len(t) = 0
        BY <3>1 DEF t
      <4>2. t = <<>>
        BY <4>1, EmptySeq
      <4>3. QED
        BY <4>2 DEF t
    <3>3. QED
      BY <2>1, <3>2
  <2>4. h2m' \o buf' = Tail(h2m \o buf)
    BY <2>1, <2>2, <2>3, StreamTypes, ConcatTail
  <2>5. data' \o Offered' = Tail(data \o Offered)
    <3>1. Offered' = Offered
      BY <2>2 DEF Offered
    <3>2. QED
      BY <2>1, <3>1, StreamTypes, ConcatTail
  <2>6. h2m' \o buf' = data' \o Offered'
    BY <1>1, <2>4, <2>5
  <2>7. QED
    BY <2>6 DEF StreamAligned, Offered
<1>4. QED
  BY <1>2, <1>3

(* The packets that the HBM writer has still to write are those whose data   *)
(* the QDMA delivers or is about to be asked for, in the same order: with    *)
(* only the two ready signals to keep them in step, no packet is ever        *)
(* written with the data of another.                                         *)
THEOREM StreamCorrect == Spec => []StreamAligned
<1>1. Init => StreamAligned
  <2> SUFFICES ASSUME Init PROVE StreamAligned
    OBVIOUS
  <2>1. h2m = <<>> /\ buf = <<>> /\ data = <<>> /\ h2c.state = "idle"
    BY DEF Init
  <2>2. QED
    BY <2>1 DEF StreamAligned
<1>2. TypeOK /\ StreamAligned /\ [Next]_vars => StreamAligned'
  <2> SUFFICES ASSUME TypeOK, StreamAligned, [Next]_vars PROVE StreamAligned'
    OBVIOUS
  <2>1. CASE Tick
    BY <2>1, TickStream
  <2>2. CASE WriterStart \/ WriterDone
    BY <2>2, WriterStream
  <2>3. CASE UNCHANGED <<h2m, buf, data, h2c>>
    BY <2>3 DEF StreamAligned
  <2>4. QdmaReady => UNCHANGED <<h2m, buf, data, h2c>>
    BY DEF QdmaReady, writer
  <2>5. Notify => UNCHANGED <<h2m, buf, data, h2c>>
    BY DEF Notify, writer, engine
  <2>6. ASSUME NEW i \in Queues, NEW c \in Cmds, Post(i, c)
        PROVE  UNCHANGED <<h2m, buf, data, h2c>>
    BY <2>6 DEF Post, writer, engine
  <2>7. UNCHANGED vars => UNCHANGED <<h2m, buf, data, h2c>>
    BY DEF vars, writer, engine
  <2>8. QED
    BY <2>1, <2>2, <2>3, <2>4, <2>5, <2>6, <2>7 DEF Next, Environment
<1>3. QED
  BY <1>1, <1>2, TypeCorrect, PTL DEF Spec

-----------------------------------------------------------------------------
(* The packets of a command in closed form. *)

(* Beats in the first k packets when all of them are whole. *)
Sent(c, k) == k * c.pkt

(* Size of the packet that starts o beats into c. *)
Size(c, o) == IF c.len - o > c.pkt THEN c.pkt ELSE c.len - o

PacketAt(c, o) == [id |-> c.id, h2c |-> c.h2c + o, h2m |-> c.h2m + o,
                   len |-> Size(c, o), last |-> o + Size(c, o) = c.len]

(* next_addr + length is computed modulo AddrSpace and then compared with    *)
(* end_addr: it must not wrap.  A command of one packet never computes it; a  *)
(* command of two that ends with the address space compares with 0; any other *)
(* has to leave room for its packets as if the last were whole.              *)
Fits(c) ==
  \/ c.len =< c.pkt
  \/ c.h2m + c.len = AddrSpace /\ c.len =< 2 * c.pkt
  \/ /\ c.h2m + c.len < AddrSpace
     /\ \A k \in 0 .. c.len :
          Sent(c, k) < c.len => c.h2m + Sent(c, k) + c.pkt < AddrSpace

(* What the host may post. *)
Sound(c) == /\ c \in Job /\ c.len >= 1 /\ c.pkt >= 1
            /\ c.h2m + c.len =< AddrSpace
            /\ Fits(c)

(* The registers of h hold the packet of c at o. *)
Carries(h, c, o) ==
  /\ o \in Nat /\ o < c.len
  /\ h.cpt = c.id /\ h.pkt_size = c.pkt /\ h.end_addr = Plus(c.h2m, c.len)
  /\ h.h2m_addr = c.h2m + o /\ h.h2c_addr = c.h2c + o
  /\ h.length = Size(c, o) /\ h.next_addr = Plus(c.h2m + o, Size(c, o))
  /\ h.h2m_last = (o + Size(c, o) = c.len)

LEMMA SentStep ==
  ASSUME NEW c, c.pkt \in Nat \ {0}, NEW k \in Nat
  PROVE  /\ Sent(c, 0) = 0 /\ Sent(c, k) \in Nat /\ k =< Sent(c, k)
         /\ Sent(c, k + 1) = Sent(c, k) + c.pkt
<1> DEFINE p == c.pkt
<1>1. p \in Nat \ {0}
  OBVIOUS
<1> HIDE DEF p
<1>2. 0 * p = 0 /\ k * p \in Nat /\ (k + 1) * p = k * p + p
  BY <1>1
<1>3. k =< k * p
  BY <1>1
<1>4. QED
  BY <1>2, <1>3 DEF Sent, p

LEMMA SizeType ==
  ASSUME NEW c, Sound(c), NEW o \in Nat, o < c.len
  PROVE  /\ Size(c, o) \in 1 .. c.pkt /\ o + Size(c, o) =< c.len
         /\ c.h2m + o \in 0 .. AddrSpace - 1
         /\ o + Size(c, o) # c.len => Size(c, o) = c.pkt /\ o + c.pkt < c.len
BY ConstantsAssumption DEF Size, Sound, Job

(* The head's test next_addr === end_addr finds the final packet. *)
LEMMA EndFound ==
  ASSUME NEW h \in HeadType, NEW c, Sound(c), NEW o, Carries(h, c, o)
  PROVE  h.next_addr = h.end_addr <=> o + Size(c, o) = c.len
<1> DEFINE s == Size(c, o)
           a == c.h2m
           l == c.len
<1>1. /\ s \in Nat \ {0} /\ o \in Nat /\ o + s =< l /\ a \in Nat /\ l \in Nat
      /\ a + l =< AddrSpace /\ AddrSpace \in Nat
  BY SizeType, ConstantsAssumption DEF Carries, Sound, Job
<1>2. h.next_addr = Plus(a + o, s) /\ h.end_addr = Plus(a, l)
  BY DEF Carries
<1> HIDE DEF s, a, l
<1>3. Plus(a + o, s) = Plus(a, l) <=> o + s = l
  BY <1>1 DEF Plus
<1>4. QED
  BY <1>2, <1>3 DEF s, l

LEMMA LoadedCarries ==
  ASSUME NEW h \in HeadType, ~h.h2m_last, NEW c, Sound(c)
  PROVE  Carries(Loaded(h, c), c, 0)
<1> DEFINE many == c.len > c.pkt
           size == IF many THEN c.pkt ELSE c.len
           nxt == Plus(c.h2m, size)
           end == Plus(c.h2m, c.len)
           lst == IF many THEN h.h2m_last ELSE TRUE
           l == Loaded(h, c)
<1>1. /\ l.cpt = c.id /\ l.pkt_size = c.pkt /\ l.end_addr = end
      /\ l.h2m_addr = c.h2m /\ l.h2c_addr = c.h2c
      /\ l.length = size /\ l.next_addr = nxt
  BY DEF Loaded, HeadType
<1>2. l.h2m_last = lst
  BY DEF Loaded, HeadType
<1>3. c.len \in Nat \ {0} /\ c.pkt \in Nat \ {0} /\ c.h2m \in Nat /\ c.h2c \in Nat
  BY ConstantsAssumption DEF Sound, Job
<1>4. Size(c, 0) = size
  BY <1>3 DEF Size
<1>5. lst = (0 + Size(c, 0) = c.len)
  <2>1. CASE many
    <3>1. lst = FALSE /\ 0 + Size(c, 0) # c.len
      BY <1>3, <1>4, <2>1
    <3>2. QED
      BY <3>1
  <2>2. CASE ~many
    <3>1. lst = TRUE /\ 0 + Size(c, 0) = c.len
      BY <1>3, <1>4, <2>2
    <3>2. QED
      BY <3>1
  <2>3. QED
    BY <2>1, <2>2
<1> HIDE DEF l, lst
<1>6. c.h2m + 0 = c.h2m /\ c.h2c + 0 = c.h2c /\ 0 < c.len
  BY <1>3
<1>7. nxt = Plus(c.h2m + 0, Size(c, 0))
  BY <1>4, <1>6
<1> HIDE DEF size, nxt, end
<1>8. Carries(l, c, 0)
  BY <1>1, <1>2, <1>4, <1>5, <1>6, <1>7 DEF Carries, end
<1>9. QED
  BY <1>8 DEF l

(* The sum that decides whether another whole packet follows. *)
LEMMA MoreFound ==
  ASSUME NEW c, Sound(c), NEW k \in Nat, NEW o, o = Sent(c, k), o + c.pkt < c.len
  PROVE  LET n == c.h2m + o + c.pkt
         IN /\ n \in 0 .. AddrSpace - 1
            /\ Plus(n, c.pkt) < Plus(c.h2m, c.len) <=> o + c.pkt + c.pkt < c.len
            /\ o + c.pkt + c.pkt < c.len => Plus(n, c.pkt) = n + c.pkt
            /\ Minus(Plus(c.h2m, c.len), n) = c.len - (o + c.pkt)
<1> DEFINE p == c.pkt
           l == c.len
           a == c.h2m
           j == o + p
<1>1. /\ p \in Nat \ {0} /\ l \in Nat \ {0} /\ a \in Nat /\ AddrSpace \in Nat \ {0}
      /\ a + l =< AddrSpace
  BY ConstantsAssumption DEF Sound, Job
<1>2. o \in Nat /\ j = Sent(c, k + 1) /\ k + 1 =< j
  BY <1>1, SentStep
<1>3. j < l /\ j \in Nat /\ j >= p
  BY <1>1, <1>2
<1>4. \/ a + l = AddrSpace /\ l =< 2 * p
      \/ a + l < AddrSpace /\ a + j + p < AddrSpace
  <2>1. CASE l =< p
    BY <1>1, <1>3, <2>1
  <2>2. CASE a + l = AddrSpace /\ l =< 2 * p
    BY <2>2
  <2>3. CASE /\ a + l < AddrSpace
             /\ \A i \in 0 .. l : Sent(c, i) < l => a + Sent(c, i) + p < AddrSpace
    <3>1. k + 1 \in 0 .. l
      BY <1>1, <1>2, <1>3
    <3>2. a + Sent(c, k + 1) + p < AddrSpace
      BY <1>2, <1>3, <2>3, <3>1
    <3>3. QED
      BY <1>2, <2>3, <3>2
  <2>4. QED
    BY <2>1, <2>2, <2>3 DEF Sound, Fits
<1> HIDE DEF p, l, a, j
<1>5. /\ a + j \in 0 .. AddrSpace - 1
      /\ Plus(a + j, p) < Plus(a, l) <=> j + p < l
      /\ j + p < l => Plus(a + j, p) = a + j + p
      /\ Minus(Plus(a, l), a + j) = l - j
  BY <1>1, <1>3, <1>4 DEF Plus, Minus
<1>6. c.h2m + o + c.pkt = a + j
  BY <1>1, <1>2 DEF a, j, p
<1>7. QED
  BY <1>5, <1>6 DEF a, j, p, l

LEMMA AdvancedCarries ==
  ASSUME NEW h \in HeadType, NEW c, Sound(c), NEW k \in Nat, NEW o, o = Sent(c, k),
         Carries(h, c, o), o + Size(c, o) # c.len
  PROVE  Carries(Advanced(h), c, o + c.pkt) /\ o + c.pkt = Sent(c, k + 1)
<1> DEFINE p == c.pkt
           j == o + p
           n == c.h2m + o + p
           e == Plus(c.h2m, c.len)
           more == Plus(h.next_addr, h.length) < h.end_addr
           size == Size(c, j)
<1>1. /\ p \in Nat \ {0} /\ c.len \in Nat \ {0} /\ c.h2m \in Nat /\ c.h2c \in Nat
      /\ o \in Nat /\ AddrSpace \in Nat \ {0} /\ c.h2m + c.len =< AddrSpace
  BY ConstantsAssumption DEF Sound, Job, Carries
<1>2. Size(c, o) = p /\ j < c.len /\ j \in Nat
  BY <1>1, SizeType DEF Carries
<1>3. /\ n \in 0 .. AddrSpace - 1
      /\ Plus(n, p) < e <=> j + p < c.len
      /\ j + p < c.len => Plus(n, p) = n + p
      /\ Minus(e, n) = c.len - j
  BY <1>2, MoreFound
<1>4. /\ h.length = p /\ h.end_addr = e /\ h.pkt_size = p
      /\ h.h2m_addr = c.h2m + o /\ h.h2c_addr = c.h2c + o /\ h.cpt = c.id
  BY <1>2 DEF Carries
<1>5. h.next_addr = n /\ Plus(h.h2m_addr, p) = n
  <2>1. h.next_addr = Plus(c.h2m + o, p)
    BY <1>2 DEF Carries
  <2>2. Plus(c.h2m + o, p) = n
    BY <1>1, <1>3 DEF Plus
  <2>3. QED
    BY <1>4, <2>1, <2>2
<1>6. h.next_addr # h.end_addr
  BY EndFound
<1>7. Advanced(h) = SentOne(h, more)
  BY <1>6 DEF Advanced
<1>8. (more <=> j + p < c.len) /\ more \in BOOLEAN
  BY <1>3, <1>4, <1>5
<1> HIDE DEF more
<1> DEFINE s == SentOne(h, more)
           len == IF more THEN p ELSE c.len - j
           nxt == IF more THEN n + p ELSE e
<1>9. /\ s.cpt = h.cpt /\ s.pkt_size = h.pkt_size /\ s.end_addr = h.end_addr
      /\ s.h2m_addr = n /\ s.h2c_addr = c.h2c + o + p
  BY <1>4, <1>5 DEF SentOne, HeadType
<1>10. s.h2m_last = ~more
  BY DEF SentOne, HeadType
<1>11. s.length = len /\ s.next_addr = nxt
  <2>1. /\ s.length = IF more THEN h.pkt_size ELSE Minus(h.end_addr, h.next_addr)
        /\ s.next_addr = IF more THEN Plus(h.next_addr, h.length) ELSE h.end_addr
    BY DEF SentOne, HeadType
  <2> HIDE DEF s
  <2>2. QED
    BY <1>3, <1>4, <1>5, <1>8, <2>1
<1>12. len = size
  BY <1>1, <1>2, <1>8 DEF Size
<1>13. nxt = Plus(c.h2m + j, size)
  <2>1. c.h2m + j = n
    BY <1>1
  <2>2. CASE more
    <3>1. size = p /\ nxt = n + p
      BY <1>12, <2>2
    <3>2. QED
      BY <1>3, <1>8, <2>1, <2>2, <3>1
  <2>3. CASE ~more
    <3>1. size = c.len - j
      BY <1>12, <2>3
    <3>2. n + size = c.h2m + c.len
      BY <1>1, <1>2, <2>1, <3>1
    <3>3. Plus(n, size) = e
      BY <1>1, <1>2, <1>3, <3>1, <3>2 DEF Plus
    <3>4. QED
      BY <2>1, <2>3, <3>3
  <2>4. QED
    BY <2>2, <2>3
<1>14. s.h2m_last = (j + size = c.len)
  <2>1. more <=> ~(j + size = c.len)
    BY <1>1, <1>2, <1>8, <1>12
  <2> HIDE DEF s, size, j
  <2>2. QED
    BY <1>10, <2>1
<1>15. c.h2c + o + p = c.h2c + j /\ n = c.h2m + j
  BY <1>1
<1> HIDE DEF s, len, nxt, size, n, e
<1>16. Carries(s, c, j)
  <2>1. /\ s.cpt = c.id /\ s.pkt_size = c.pkt /\ s.end_addr = Plus(c.h2m, c.len)
        /\ s.h2m_addr = c.h2m + j /\ s.h2c_addr = c.h2c + j
    BY <1>4, <1>9, <1>15 DEF e
  <2>2. s.length = Size(c, j) /\ s.next_addr = Plus(c.h2m + j, Size(c, j))
    BY <1>11, <1>12, <1>13 DEF size
  <2>3. s.h2m_last = (j + Size(c, j) = c.len)
    BY <1>14 DEF size
  <2> HIDE DEF j
  <2>4. QED
    BY <1>2, <2>1, <2>2, <2>3 DEF Carries
<1>17. j = Sent(c, k + 1)
  BY <1>1, SentStep
<1>18. QED
  BY <1>7, <1>16, <1>17 DEF s

-----------------------------------------------------------------------------
(* What an edge does to the registers of a head. *)

SameRegisters(n, h) ==
  /\ n.cpt = h.cpt /\ n.pkt_size = h.pkt_size /\ n.end_addr = h.end_addr
  /\ n.h2m_addr = h.h2m_addr /\ n.h2c_addr = h.h2c_addr
  /\ n.length = h.length /\ n.next_addr = h.next_addr /\ n.h2m_last = h.h2m_last

LEMMA SameCarries ==
  ASSUME NEW n, NEW h, SameRegisters(n, h), NEW c, NEW o, Carries(h, c, o)
  PROVE  Carries(n, c, o)
BY DEF SameRegisters, Carries

LEMMA HeadMoves ==
  ASSUME TypeOK, AllFlags, NEW i \in Queues
  PROVE  LET h == head[i]
             n == HeadNext(i)
         IN \/ /\ CmdInFire(i) /\ ~(Fire /\ out = i) /\ ~h.cmd_out_valid /\ ~h.last
               /\ n.cmd_out_valid /\ ~n.last
               /\ SameRegisters(n, Loaded(h, Head(fifo[i])))
            \/ /\ ~CmdInFire(i) /\ Fire /\ out = i /\ h.cmd_out_valid /\ ~h.last
               /\ n = Advanced(h)
            \/ /\ ~CmdInFire(i) /\ ~(Fire /\ out = i)
               /\ n.cmd_out_valid = h.cmd_out_valid /\ (n.last => h.last)
               /\ SameRegisters(n, h)
<1> DEFINE h == head[i]
           n == HeadNext(i)
           j == Head(fifo[i])
<1>1. h \in HeadType
  BY DEF TypeOK, QueueTypes
<1>2. Flags(i)
  BY DEF AllFlags
<1>3. CmdInFire(i) => j \in Job
  <2>1. CmdInFire(i) => fifo[i] \in Seq(Job) /\ fifo[i] # <<>>
    BY DEF CmdInFire, TypeOK, QueueTypes
  <2>2. QED
    BY <2>1, HeadTail
<1>4. CASE CmdInFire(i)
  <2> DEFINE l == Loaded(h, j)
  <2>1. h.cmd_in_ready /\ ~h.working /\ ~h.cmd_out_valid /\ ~h.last
    BY <1>1, <1>2, <1>4 DEF CmdInFire, Flags, HeadType
  <2>2. ~(Fire /\ out = i)
    BY <2>1 DEF Fire
  <2>3. n = IF h.continue THEN [l EXCEPT !.continue = FALSE] ELSE l
    BY <1>4, <2>1, <2>2 DEF HeadNext
  <2>4. l \in HeadType
    BY <1>1, <1>3, <1>4, LoadedType
  <2>5. l.cmd_out_valid /\ ~l.last
    BY <1>1, <2>1, LoadedFlags
  <2> HIDE DEF h, n, l
  <2>6. n.cmd_out_valid /\ ~n.last /\ SameRegisters(n, l)
    BY <2>3, <2>4, <2>5 DEF HeadType, SameRegisters
  <2>7. QED
    BY <1>4, <2>1, <2>2, <2>6 DEF n, h, l
<1>5. CASE ~CmdInFire(i) /\ Fire /\ out = i
  <2>1. h.cmd_out_valid /\ h2c.state = "idle"
    BY <1>5 DEF Fire, CmdOutReady
  <2>2. h.working /\ ~h.last /\ ~h.continue
    BY <1>1, <1>2, <2>1 DEF Flags, HeadType
  <2>3. n = Advanced(h)
    BY <1>5, <2>2 DEF HeadNext
  <2>4. QED
    BY <1>5, <2>1, <2>2, <2>3
<1>6. CASE ~CmdInFire(i) /\ ~(Fire /\ out = i)
  <2> DEFINE p == IF h.continue THEN [h EXCEPT !.continue = FALSE] ELSE h
             r == IF h.last /\ Ready(i) THEN [p EXCEPT !.h2m_complete = TRUE] ELSE p
             done == h.last /\ h.h2m_complete /\ cpt.complete /\ out = i
  <2>1. n = IF done THEN Finished(r) ELSE r
    BY <1>6 DEF HeadNext
  <2>2. /\ p \in HeadType /\ p.cmd_out_valid = h.cmd_out_valid /\ p.last = h.last
        /\ SameRegisters(p, h)
    BY <1>1 DEF HeadType, SameRegisters
  <2> HIDE DEF p
  <2>3. /\ r \in HeadType /\ r.cmd_out_valid = p.cmd_out_valid /\ r.last = p.last
        /\ SameRegisters(r, p)
    BY <2>2 DEF HeadType, SameRegisters
  <2> HIDE DEF r
  <2>4. /\ Finished(r).cmd_out_valid = r.cmd_out_valid /\ ~Finished(r).last
        /\ SameRegisters(Finished(r), r)
    BY <2>3 DEF Finished, HeadType, SameRegisters
  <2> HIDE DEF done, n, h
  <2>5. n.cmd_out_valid = r.cmd_out_valid /\ (n.last => r.last) /\ SameRegisters(n, r)
    <3>1. CASE done
      BY <2>1, <2>4, <3>1
    <3>2. CASE ~done
      BY <2>1, <3>2 DEF SameRegisters
    <3>3. QED
      BY <3>1, <3>2
  <2>6. SameRegisters(n, h)
    BY <2>2, <2>3, <2>5 DEF SameRegisters
  <2>7. n.cmd_out_valid = h.cmd_out_valid /\ (n.last => h.last)
    BY <2>2, <2>3, <2>5
  <2>8. QED
    BY <1>6, <2>6, <2>7 DEF n, h
<1>7. QED
  BY <1>4, <1>5, <1>6

-----------------------------------------------------------------------------
(* The invariant: every command on its way can be cut without a wrap, the    *)
(* packets a head has fired are its command's first ones, and its registers  *)
(* hold the one that follows them.                                           *)

SoundJobs == {c \in Job : Sound(c)}

Fired(i) ==
  LET h == head[i]
      c == job[i]
      L == log[i]
  IN /\ L # <<>> \/ h.cmd_out_valid => c \in SoundJobs
     /\ \A k \in 1 .. Len(L) :
          Sent(c, k - 1) < c.len /\ L[k] = PacketAt(c, Sent(c, k - 1))
     /\ IF h.cmd_out_valid THEN Carries(h, c, Sent(c, Len(L))) ELSE ~h.h2m_last
     /\ h.last => L # <<>> /\ L[Len(L)].last

Waiting == /\ req # <<>> => req[1].cmd \in SoundJobs
           /\ \A i \in Queues : fifo[i] \in Seq(SoundJobs)

PacketsInv == Waiting /\ \A i \in Queues : Fired(i)

LEMMA TickWaiting ==
  ASSUME TypeOK, Waiting, Tick
  PROVE  Waiting'
<1>1. req' = <<>>
  BY DEF Tick
<1>2. ASSUME NEW i \in Queues PROVE fifo'[i] \in Seq(SoundJobs)
  <2> DEFINE left == IF CmdInFire(i) THEN Tail(fifo[i]) ELSE fifo[i]
             c == req[1].cmd
  <2>1. fifo[i] \in Seq(SoundJobs)
    BY DEF Waiting
  <2>2. left \in Seq(SoundJobs)
    <3>1. CASE CmdInFire(i)
      BY <2>1, <3>1, HeadTail DEF CmdInFire
    <3>2. CASE ~CmdInFire(i)
      BY <2>1, <3>2
    <3>3. QED
      BY <3>1, <3>2
  <2>3. req # <<>> => c \in SoundJobs
    BY DEF Waiting
  <2>4. fifo'[i] = IF req # <<>> /\ req[1].q = i /\ Len(fifo[i]) < QDepth
                   THEN Append(left, c) ELSE left
    BY DEF Tick, FifoNext
  <2> HIDE DEF left, c
  <2>5. QED
    BY <2>2, <2>3, <2>4
<1>3. QED
  BY <1>1, <1>2 DEF Waiting, Queues

LEMMA TickFired ==
  ASSUME TypeOK, AllFlags, PacketsInv, Tick, NEW i \in Queues
  PROVE  Fired(i)'
<1> DEFINE h == head[i]
           n == HeadNext(i)
           c == job[i]
           d == Head(fifo[i])
           L == log[i]
<1>1. head'[i] = n /\ n \in HeadType /\ h \in HeadType
  BY HeadNextType DEF Tick, TypeOK, QueueTypes
<1>2. /\ job'[i] = IF CmdInFire(i) THEN d ELSE c
      /\ log'[i] = IF CmdInFire(i) THEN <<>>
                   ELSE IF Fire /\ out = i THEN Append(L, Packet) ELSE L
  BY DEF Tick, HistoryStep
<1>3. L \in Seq(PacketType) /\ Packet \in PacketType
  BY PacketType_ DEF TypeOK, HistoryTypes
<1>4. Fired(i)
  BY DEF PacketsInv
<1>5. CASE /\ CmdInFire(i) /\ ~h.cmd_out_valid /\ n.cmd_out_valid /\ ~n.last
           /\ SameRegisters(n, Loaded(h, d))
  <2>1. d \in SoundJobs
    <3>1. fifo[i] \in Seq(SoundJobs) /\ fifo[i] # <<>>
      BY <1>5 DEF PacketsInv, Waiting, CmdInFire
    <3>2. QED
      BY <3>1, HeadTail
  <2>2. ~h.h2m_last
    BY <1>4, <1>5 DEF Fired
  <2>3. Carries(Loaded(h, d), d, 0)
    BY <1>1, <2>1, <2>2, LoadedCarries DEF SoundJobs
  <2>4. Carries(n, d, Sent(d, 0))
    <3>1. d.pkt \in Nat \ {0}
      BY <2>1, ConstantsAssumption DEF SoundJobs, Sound, Job
    <3>2. Sent(d, 0) = 0
      BY <3>1, SentStep
    <3>3. QED
      BY <1>5, <2>3, <3>2, SameCarries
  <2>5. job'[i] = d /\ log'[i] = <<>> /\ Len(<<>>) = 0
    BY <1>2, <1>5
  <2> HIDE DEF n, d
  <2>6. QED
    BY <1>1, <1>5, <2>1, <2>4, <2>5 DEF Fired
<1>6. CASE /\ ~CmdInFire(i) /\ Fire /\ out = i /\ h.cmd_out_valid /\ ~h.last
           /\ n = Advanced(h)
  <2> DEFINE m == Len(L)
             o == Sent(c, m)
             p == Packet
             M == Append(L, p)
  <2>1. c \in SoundJobs /\ Sound(c) /\ m \in Nat /\ Carries(h, c, o)
    BY <1>3, <1>4, <1>6 DEF Fired, SoundJobs
  <2>2. o \in Nat /\ o < c.len
    BY <2>1 DEF Carries
  <2>3. p = PacketAt(c, o)
    BY <1>6, <2>1 DEF Packet, PacketAt, Carries
  <2>4. job'[i] = c /\ log'[i] = M
    BY <1>2, <1>6
  <2> HIDE DEF p
  <2>5. /\ M \in Seq(PacketType) /\ Len(M) = m + 1 /\ M # <<>>
        /\ \A k \in 1 .. m : M[k] = L[k]
        /\ M[m + 1] = p
    BY <1>3 DEF p
  <2>6. \A k \in 1 .. m + 1 :
          Sent(c, k - 1) < c.len /\ M[k] = PacketAt(c, Sent(c, k - 1))
    <3> SUFFICES ASSUME NEW k \in 1 .. m + 1
                 PROVE  Sent(c, k - 1) < c.len /\ M[k] = PacketAt(c, Sent(c, k - 1))
      OBVIOUS
    <3>1. CASE k = m + 1
      <4>1. k - 1 = m
        BY <2>1, <3>1
      <4>2. Sent(c, k - 1) = o
        BY <4>1
      <4>3. QED
        BY <2>2, <2>3, <2>5, <3>1, <4>2
    <3>2. CASE k # m + 1
      <4>1. k \in 1 .. m
        BY <2>1, <3>2
      <4>2. QED
        BY <1>4, <2>5, <4>1 DEF Fired
    <3>3. QED
      BY <3>1, <3>2
  <2>7. (h.next_addr = h.end_addr) <=> o + Size(c, o) = c.len
    BY <1>1, <2>1, EndFound
  <2>8. CASE o + Size(c, o) = c.len
    <3>1. n = SentLast(h)
      BY <1>6, <2>7, <2>8 DEF Advanced
    <3>2. ~n.cmd_out_valid /\ ~n.h2m_last
      BY <1>1, <3>1 DEF SentLast, HeadType
    <3>3. M[m + 1].last
      <4>1. PacketAt(c, o).last <=> o + Size(c, o) = c.len
        BY DEF PacketAt
      <4>2. QED
        BY <2>3, <2>5, <2>8, <4>1
    <3> HIDE DEF n, M, o
    <3>4. QED
      BY <1>1, <2>1, <2>4, <2>5, <2>6, <3>2, <3>3 DEF Fired
  <2>9. CASE o + Size(c, o) # c.len
    <3>1. n = SentOne(h, Plus(h.next_addr, h.length) < h.end_addr)
      BY <1>6, <2>7, <2>9 DEF Advanced
    <3>2. n.cmd_out_valid /\ ~n.last
      BY <1>1, <1>6, <3>1 DEF SentOne, HeadType
    <3>3. Carries(n, c, Sent(c, m + 1))
      <4>1. Carries(Advanced(h), c, o + c.pkt) /\ o + c.pkt = Sent(c, m + 1)
        BY <1>1, <2>1, <2>9, AdvancedCarries
      <4>2. QED
        BY <1>6, <4>1
    <3> HIDE DEF n, M, o
    <3>4. QED
      BY <1>1, <2>1, <2>4, <2>5, <2>6, <3>2, <3>3 DEF Fired
  <2>10. QED
    BY <2>8, <2>9
<1>7. CASE /\ ~CmdInFire(i) /\ ~(Fire /\ out = i)
           /\ n.cmd_out_valid = h.cmd_out_valid /\ (n.last => h.last)
           /\ SameRegisters(n, h)
  <2>1. job'[i] = c /\ log'[i] = L
    BY <1>2, <1>7
  <2> HIDE DEF n
  <2>2. n.h2m_last = h.h2m_last
    BY <1>7 DEF SameRegisters
  <2>3. Carries(h, c, Sent(c, Len(L))) => Carries(n, c, Sent(c, Len(L)))
    BY <1>7, SameCarries
  <2>4. QED
    BY <1>1, <1>4, <1>7, <2>1, <2>2, <2>3 DEF Fired
<1>8. QED
  BY <1>5, <1>6, <1>7, HeadMoves

(* Only a post and an edge touch what the invariant is about. *)
LEMMA OtherPackets ==
  ASSUME PacketsInv, UNCHANGED <<req, fifo, head, job, log>>
  PROVE  PacketsInv'
BY DEF PacketsInv, Waiting, Fired, Queues

LEMMA PostPackets ==
  ASSUME TypeOK, PacketsInv, \A c \in Cmds : Fits(c),
         NEW i \in Queues, NEW c \in Cmds, Post(i, c)
  PROVE  PacketsInv'
<1> DEFINE d == Numbered(i, posts + 1, c)
<1>1. d \in Job /\ d.len = c.len /\ d.pkt = c.pkt /\ d.h2m = c.h2m
  <2>1. c \in Command /\ posts + 1 \in 0 .. MaxPosts
    BY ConstantsAssumption DEF Post, TypeOK, HistoryTypes
  <2>2. c.len \in 0 .. AddrSpace /\ c.pkt \in 0 .. AddrSpace
    BY <2>1, ConstantsAssumption DEF Command
  <2>3. [q |-> i, n |-> posts + 1] \in Ids
    BY <2>1 DEF Ids
  <2>4. c.h2c \in Nat /\ c.h2m \in 0 .. AddrSpace - 1
    BY <2>1 DEF Command
  <2>5. QED
    BY <2>2, <2>3, <2>4 DEF Numbered, Job
<1>2. c.len >= 1 /\ c.pkt >= 1 /\ c.h2m + c.len =< AddrSpace
  BY ConstantsAssumption DEF Command
<1>3. req' = <<[q |-> i, cmd |-> d]>>
  BY DEF Post
<1> HIDE DEF d
<1>4. Fits(d)
  BY <1>1 DEF Fits, Sent
<1>5. d \in SoundJobs
  BY <1>1, <1>2, <1>4 DEF SoundJobs, Sound
<1>6. req'[1].cmd = d
  BY <1>3
<1>7. UNCHANGED <<fifo, head, job, log>>
  BY DEF Post, sched, history
<1>8. Waiting'
  BY <1>5, <1>6, <1>7 DEF PacketsInv, Waiting
<1>9. \A q \in Queues : Fired(q)'
  BY <1>7 DEF PacketsInv, Fired
<1>10. QED
  BY <1>8, <1>9 DEF PacketsInv, Queues

LEMMA InitPackets == Init => PacketsInv
<1> SUFFICES ASSUME Init PROVE PacketsInv
  OBVIOUS
<1>1. Waiting
  BY DEF Init, Waiting
<1>2. ASSUME NEW i \in Queues PROVE Fired(i)
  <2>1. head[i] = IdleHead /\ log[i] = <<>>
    BY DEF Init
  <2>2. ~IdleHead.cmd_out_valid /\ ~IdleHead.h2m_last /\ ~IdleHead.last
    BY DEF IdleHead
  <2>3. Len(<<>>) = 0
    OBVIOUS
  <2>4. QED
    BY <2>1, <2>2, <2>3 DEF Fired
<1>3. QED
  BY <1>1, <1>2 DEF PacketsInv

LEMMA FiredTiles ==
  ASSUME TypeOK, PacketsInv
  PROVE  PacketsTile
<1> SUFFICES ASSUME NEW i \in Queues
             PROVE  LET L == log[i]
                        c == job[i]
                    IN /\ L # <<>> => L[1].h2m = c.h2m /\ L[1].h2c = c.h2c
                       /\ \A k \in 1 .. Len(L) - 1 :
                            /\ L[k + 1].h2m = L[k].h2m + L[k].len
                            /\ L[k + 1].h2c = L[k].h2c + L[k].len
                       /\ \A k \in 1 .. Len(L) :
                            /\ L[k].len \in 1 .. c.pkt
                            /\ L[k].last <=> L[k].h2m + L[k].len = c.h2m + c.len
                            /\ L[k].last \/ L[k].len = c.pkt
                       /\ head[i].last => L # <<>> /\ L[Len(L)].last
  BY DEF PacketsTile
<1> DEFINE L == log[i]
           c == job[i]
<1>1. L \in Seq(PacketType) /\ Fired(i) /\ Len(L) \in Nat
  BY DEF TypeOK, HistoryTypes, PacketsInv
<1>2. CASE L = <<>>
  BY <1>1, <1>2 DEF Fired
<1>3. CASE L # <<>>
  <2>1. Sound(c) /\ Len(L) \in Nat \ {0}
    BY <1>1, <1>3 DEF Fired, SoundJobs
  <2>2. c.pkt \in Nat \ {0} /\ c.h2m \in Nat /\ c.h2c \in Nat /\ c.len \in Nat
    BY <2>1, ConstantsAssumption DEF Sound, Job
  <2>3. ASSUME NEW k \in 1 .. Len(L)
        PROVE  LET o == Sent(c, k - 1)
               IN /\ o \in Nat /\ o < c.len /\ L[k] = PacketAt(c, o)
                  /\ Size(c, o) \in 1 .. c.pkt
                  /\ o + Size(c, o) # c.len => Size(c, o) = c.pkt
    <3>1. k - 1 \in Nat
      BY <1>1
    <3>2. Sent(c, k - 1) \in Nat
      BY <2>2, <3>1, SentStep
    <3>3. Sent(c, k - 1) < c.len /\ L[k] = PacketAt(c, Sent(c, k - 1))
      BY <1>1 DEF Fired
    <3>4. QED
      BY <2>1, <3>2, <3>3, SizeType
  <2>4. ASSUME NEW k \in 1 .. Len(L)
        PROVE  /\ L[k].len \in 1 .. c.pkt
               /\ L[k].last <=> L[k].h2m + L[k].len = c.h2m + c.len
               /\ L[k].last \/ L[k].len = c.pkt
    <3> DEFINE o == Sent(c, k - 1)
               s == Size(c, o)
    <3>1. /\ L[k].len = s /\ L[k].h2m = c.h2m + o
          /\ L[k].last <=> o + s = c.len
      <4>1. L[k] = PacketAt(c, o)
        BY <2>3
      <4>2. PacketAt(c, o).len = s /\ PacketAt(c, o).h2m = c.h2m + o
        BY DEF PacketAt
      <4>3. PacketAt(c, o).last <=> o + s = c.len
        BY DEF PacketAt
      <4>4. QED
        BY <4>1, <4>2, <4>3
    <3>2. o \in Nat /\ s \in 1 .. c.pkt /\ (o + s # c.len => s = c.pkt)
      BY <2>3
    <3> HIDE DEF o, s, c, L
    <3>3. o + s = c.len <=> c.h2m + o + s = c.h2m + c.len
      BY <2>2, <3>2
    <3>4. QED
      BY <3>1, <3>2, <3>3
  <2>5. ASSUME NEW k \in 1 .. Len(L) - 1
        PROVE  /\ L[k + 1].h2m = L[k].h2m + L[k].len
               /\ L[k + 1].h2c = L[k].h2c + L[k].len
    <3> DEFINE o == Sent(c, k - 1)
               r == Sent(c, k)
    <3>1. k \in 1 .. Len(L) /\ k + 1 \in 1 .. Len(L) /\ k - 1 \in Nat /\ (k + 1) - 1 = k
      BY <1>1
    <3>2. r = o + c.pkt
      <4>1. Sent(c, (k - 1) + 1) = o + c.pkt
        BY <2>2, <3>1, SentStep
      <4>2. (k - 1) + 1 = k
        BY <3>1
      <4>3. QED
        BY <4>1, <4>2
    <3>3. o \in Nat /\ r < c.len /\ L[k] = PacketAt(c, o) /\ L[k + 1] = PacketAt(c, r)
      <4>1. o \in Nat /\ L[k] = PacketAt(c, o)
        BY <2>3, <3>1
      <4>2. /\ Sent(c, (k + 1) - 1) < c.len
            /\ L[k + 1] = PacketAt(c, Sent(c, (k + 1) - 1))
        BY <2>3, <3>1
      <4>3. Sent(c, (k + 1) - 1) = r
        BY <3>1
      <4> HIDE DEF L, c, o
      <4>4. QED
        BY <4>1, <4>2, <4>3
    <3>4. Size(c, o) = c.pkt
      BY <2>2, <3>2, <3>3 DEF Size
    <3>5. /\ L[k].h2m = c.h2m + o /\ L[k].h2c = c.h2c + o /\ L[k].len = c.pkt
          /\ L[k + 1].h2m = c.h2m + r /\ L[k + 1].h2c = c.h2c + r
      BY <3>3, <3>4 DEF PacketAt
    <3>6. o \in Nat
      BY <3>3
    <3> HIDE DEF o, r, c, L
    <3>7. c.h2m + r = (c.h2m + o) + c.pkt /\ c.h2c + r = (c.h2c + o) + c.pkt
      BY <2>2, <3>2, <3>6
    <3>8. QED
      BY <3>5, <3>7
  <2>6. L[1].h2m = c.h2m /\ L[1].h2c = c.h2c
    <3>1. 1 \in 1 .. Len(L) /\ 1 - 1 = 0 /\ Sent(c, 0) = 0
      BY <2>1, <2>2, SentStep
    <3>2. L[1] = PacketAt(c, 0)
      BY <2>3, <3>1
    <3>3. QED
      BY <2>2, <3>2 DEF PacketAt
  <2>7. head[i].last => L[Len(L)].last
    BY <1>1 DEF Fired
  <2> HIDE DEF L, c
  <2>8. QED
    BY <1>3, <2>4, <2>5, <2>6, <2>7 DEF L, c
<1>4. QED
  BY <1>2, <1>3

(* What the next two theorems and the ones about completions rest on. *)
LEMMA PacketsKept ==
  ASSUME \A c \in Cmds : Fits(c)
  PROVE  Spec => []PacketsInv
<1>1. TypeOK /\ AllFlags /\ PacketsInv /\ [Next]_vars => PacketsInv'
  <2> SUFFICES ASSUME TypeOK, AllFlags, PacketsInv, [Next]_vars PROVE PacketsInv'
    OBVIOUS
  <2>1. CASE Tick
    <3>1. Waiting'
      BY <2>1, TickWaiting DEF PacketsInv
    <3>2. \A i \in Queues : Fired(i)'
      BY <2>1, TickFired
    <3>3. QED
      BY <3>1, <3>2 DEF PacketsInv, Queues
  <2>2. ASSUME NEW i \in Queues, NEW c \in Cmds, Post(i, c) PROVE PacketsInv'
    BY <2>2, PostPackets
  <2>3. QdmaReady => UNCHANGED <<req, fifo, head, job, log>>
    BY DEF QdmaReady, sched, history
  <2>4. WriterStart => UNCHANGED <<req, fifo, head, job, log>>
    BY DEF WriterStart, sched, history
  <2>5. WriterDone => UNCHANGED <<req, fifo, head, job, log>>
    BY DEF WriterDone, sched, history
  <2>6. Notify => UNCHANGED <<req, fifo, head, job, log>>
    BY DEF Notify, sched, history
  <2>7. UNCHANGED vars => UNCHANGED <<req, fifo, head, job, log>>
    BY DEF vars, sched, history
  <2>8. QED
    BY <2>1, <2>2, <2>3, <2>4, <2>5, <2>6, <2>7, OtherPackets DEF Next, Environment
<1>2. QED
  BY <1>1, InitPackets, TypeCorrect, FlagsKept, PTL DEF Spec

(* The packets of every command lie end to end from its first beat, in the   *)
(* host's buffer and in the HBM, all of them whole but the final one, which  *)
(* alone is marked: for every command whose packets the heads' 34-bit sums   *)
(* can tell apart.                                                           *)
THEOREM PacketsCorrect ==
  ASSUME \A c \in Cmds : Fits(c)
  PROVE  Spec => []PacketsTile
BY PacketsKept, TypeCorrect, FiredTiles, PTL

-----------------------------------------------------------------------------
(* Names of commands: those that wait in a queue are newer than the one its  *)
(* head works on, and older ones come first.                                 *)

Rising(s, low, high, i) ==
  /\ \A k \in 1 .. Len(s) : s[k].id.q = i /\ s[k].id.n \in low + 1 .. high
  /\ \A k, l \in 1 .. Len(s) : k < l => s[k].id.n < s[l].id.n

LEMMA RisingTail ==
  ASSUME NEW s \in Seq(Job), s # <<>>, NEW low \in Nat, NEW high \in Nat, NEW i,
         Rising(s, low, high, i)
  PROVE  /\ Rising(Tail(s), Head(s).id.n, high, i)
         /\ Head(s).id.q = i /\ Head(s).id.n \in low + 1 .. high
<1> DEFINE t == Tail(s)
<1>1. /\ Head(s) = s[1] /\ t \in Seq(Job) /\ Len(t) = Len(s) - 1 /\ Len(s) \in Nat \ {0}
      /\ \A k \in 1 .. Len(s) - 1 : t[k] = s[k + 1]
  BY HeadTail
<1>2. /\ \A k \in 1 .. Len(s) : s[k].id.q = i /\ s[k].id.n \in low + 1 .. high
      /\ \A k, l \in 1 .. Len(s) : k < l => s[k].id.n < s[l].id.n
  BY DEF Rising
<1> HIDE DEF t
<1>3. ASSUME NEW k \in 1 .. Len(t)
      PROVE  t[k].id.q = i /\ t[k].id.n \in s[1].id.n + 1 .. high
  <2>1. k + 1 \in 1 .. Len(s) /\ 1 \in 1 .. Len(s) /\ 1 < k + 1 /\ t[k] = s[k + 1]
    BY <1>1
  <2>2. s[1].id.n \in low + 1 .. high /\ s[1].id.n < s[k + 1].id.n
    BY <1>2, <2>1
  <2>3. s[k + 1].id.q = i /\ s[k + 1].id.n \in low + 1 .. high
    BY <1>2, <2>1
  <2>4. \A x \in low + 1 .. high, y \in low + 1 .. high : x < y => y \in x + 1 .. high
    OBVIOUS
  <2>5. s[k + 1].id.n \in s[1].id.n + 1 .. high
    BY <2>2, <2>3, <2>4, Zenon
  <2>6. QED
    BY <2>1, <2>3, <2>5, Zenon
<1>4. ASSUME NEW k \in 1 .. Len(t), NEW l \in 1 .. Len(t), k < l
      PROVE  t[k].id.n < t[l].id.n
  <2>1. /\ k + 1 \in 1 .. Len(s) /\ l + 1 \in 1 .. Len(s) /\ k + 1 < l + 1
        /\ t[k] = s[k + 1] /\ t[l] = s[l + 1]
    BY <1>1, <1>4
  <2>2. s[k + 1].id.n < s[l + 1].id.n
    BY <1>2, <2>1
  <2>3. QED
    BY <2>1, <2>2
<1>5. 1 \in 1 .. Len(s)
  BY <1>1
<1>6. QED
  BY <1>1, <1>2, <1>3, <1>4, <1>5 DEF Rising, t

LEMMA RisingAppend ==
  ASSUME NEW s \in Seq(Job), NEW c \in Job, NEW low \in Nat, NEW high \in Nat,
         low =< high, NEW i, Rising(s, low, high, i),
         c.id.q = i, c.id.n = high + 1
  PROVE  Rising(Append(s, c), low, high + 1, i)
<1> DEFINE t == Append(s, c)
<1>1. /\ Len(t) = Len(s) + 1 /\ Len(s) \in Nat /\ t[Len(s) + 1] = c
      /\ \A k \in 1 .. Len(s) : t[k] = s[k]
  OBVIOUS
<1>2. /\ \A k \in 1 .. Len(s) : s[k].id.q = i /\ s[k].id.n \in low + 1 .. high
      /\ \A k, l \in 1 .. Len(s) : k < l => s[k].id.n < s[l].id.n
  BY DEF Rising
<1> HIDE DEF t
<1>3. ASSUME NEW k \in 1 .. Len(t)
      PROVE  t[k].id.q = i /\ t[k].id.n \in low + 1 .. high + 1
  <2>1. CASE k = Len(s) + 1
    BY <1>1, <2>1
  <2>2. CASE k # Len(s) + 1
    <3>1. k \in 1 .. Len(s)
      BY <1>1, <2>2
    <3>2. QED
      BY <1>1, <1>2, <3>1
  <2>3. QED
    BY <2>1, <2>2
<1>4. ASSUME NEW k \in 1 .. Len(t), NEW l \in 1 .. Len(t), k < l
      PROVE  t[k].id.n < t[l].id.n
  <2>1. k \in 1 .. Len(s) /\ t[k] = s[k]
    BY <1>1, <1>4
  <2>2. s[k].id.n \in low + 1 .. high
    BY <1>2, <2>1
  <2>3. CASE l = Len(s) + 1
    BY <1>1, <2>1, <2>2, <2>3
  <2>4. CASE l # Len(s) + 1
    <3>1. l \in 1 .. Len(s) /\ t[l] = s[l]
      BY <1>1, <2>4
    <3>2. QED
      BY <1>2, <1>4, <2>1, <3>1
  <2>5. QED
    BY <2>3, <2>4
<1>5. QED
  BY <1>3, <1>4 DEF Rising, t

LEMMA RisingHigher ==
  ASSUME NEW s \in Seq(Job), NEW low \in Nat, NEW high \in Nat, NEW top \in Nat,
         high =< top, NEW i, Rising(s, low, high, i)
  PROVE  Rising(s, low, top, i)
<1>1. /\ \A k \in 1 .. Len(s) : s[k].id.q = i /\ s[k].id.n \in low + 1 .. high
      /\ \A k, l \in 1 .. Len(s) : k < l => s[k].id.n < s[l].id.n
  BY DEF Rising
<1>2. ASSUME NEW n \in low + 1 .. high PROVE n \in low + 1 .. top
  OBVIOUS
<1>3. QED
  BY <1>1, <1>2 DEF Rising

(* The newest command that a queue has been given. *)
Taken == posts - Len(req)

Newer(i) == job[i].id.n =< Taken /\ Rising(fifo[i], job[i].id.n, Taken, i)

Names ==
  /\ Taken \in Nat
  /\ req # <<>> => req[1].cmd.id.q = req[1].q /\ req[1].cmd.id.n = posts
  /\ \A i \in Queues : Newer(i)

LEMMA InitNames == Init => Names
<1> SUFFICES ASSUME Init PROVE Names
  OBVIOUS
<1>1. req = <<>> /\ posts = 0 /\ fifo = [i \in Queues |-> <<>>]
      /\ job = [i \in Queues |-> NoJob]
  BY DEF Init
<1>2. NoJob.id.n = 0
  BY DEF NoJob, NoId
<1>3. Taken = 0
  <2>1. Len(req) = 0 /\ posts = 0
    BY <1>1
  <2>2. QED
    BY <2>1 DEF Taken
<1>4. ASSUME NEW i \in Queues PROVE Newer(i)
  <2>1. job[i].id.n = 0 /\ fifo[i] = <<>> /\ Len(<<>>) = 0
    BY <1>1, <1>2
  <2>2. Rising(<<>>, 0, 0, i)
    BY <2>1 DEF Rising
  <2>3. QED
    BY <1>3, <2>1, <2>2 DEF Newer
<1>5. QED
  BY <1>1, <1>3, <1>4 DEF Names

LEMMA TickNames ==
  ASSUME TypeOK, Names, Tick
  PROVE  /\ Names'
         /\ \A i \in Queues :
              CmdInFire(i) => /\ Head(fifo[i]).id.q = i
                              /\ Head(fifo[i]).id.n > job[i].id.n
<1>1. /\ req \in Seq([q : Queues, cmd : Job]) /\ Len(req) =< 1 /\ posts \in Nat
      /\ req' = <<>> /\ posts' = posts
  BY ConstantsAssumption DEF TypeOK, QueueTypes, HistoryTypes, Tick
<1>2. Taken \in Nat /\ Taken =< posts /\ Taken' = posts
  BY <1>1 DEF Names, Taken
<1>3. ASSUME NEW i \in Queues
      PROVE  /\ Newer(i)'
             /\ CmdInFire(i) => /\ Head(fifo[i]).id.q = i
                                /\ Head(fifo[i]).id.n > job[i].id.n
  <2> DEFINE s == fifo[i]
             left == IF CmdInFire(i) THEN Tail(s) ELSE s
             c == req[1].cmd
             low == job'[i].id.n
  <2>1. s \in Seq(Job) /\ job[i] \in Job /\ job[i].id.n \in Nat
    <3>1. s \in Seq(Job) /\ job[i] \in Job
      BY DEF TypeOK, QueueTypes, HistoryTypes
    <3>2. job[i].id.n \in 0 .. MaxPosts
      BY <3>1 DEF Job, Ids
    <3>3. QED
      BY <3>1, <3>2, ConstantsAssumption
  <2>2. job[i].id.n =< Taken /\ Rising(s, job[i].id.n, Taken, i)
    BY DEF Names, Newer
  <2>3. /\ left \in Seq(Job) /\ low \in Nat /\ low =< Taken /\ Rising(left, low, Taken, i)
        /\ CmdInFire(i) => Head(s).id.q = i /\ Head(s).id.n > job[i].id.n
    <3>1. CASE CmdInFire(i)
      <4>1. s # <<>>
        BY <3>1 DEF CmdInFire
      <4>2. job'[i] = Head(s) /\ left = Tail(s) /\ left \in Seq(Job)
        BY <2>1, <3>1, <4>1, HeadTail DEF Tick, HistoryStep
      <4>3. /\ Rising(Tail(s), Head(s).id.n, Taken, i)
            /\ Head(s).id.q = i /\ Head(s).id.n \in job[i].id.n + 1 .. Taken
        BY <1>2, <2>1, <2>2, <4>1, RisingTail
      <4>4. QED
        BY <1>2, <2>1, <4>2, <4>3
    <3>2. CASE ~CmdInFire(i)
      <4>1. job'[i] = job[i] /\ left = s
        BY <3>2 DEF Tick, HistoryStep
      <4>2. QED
        BY <2>1, <2>2, <3>2, <4>1
    <3>3. QED
      BY <3>1, <3>2
  <2>4. fifo'[i] = IF req # <<>> /\ req[1].q = i /\ Len(s) < QDepth
                   THEN Append(left, c) ELSE left
    BY DEF Tick, FifoNext
  <2>5. req # <<>> => /\ c \in Job /\ c.id.q = req[1].q /\ c.id.n = posts
                      /\ posts = Taken + 1
    <3>1. SUFFICES ASSUME req # <<>>
                   PROVE  c \in Job /\ c.id.q = req[1].q /\ c.id.n = posts /\ posts = Taken + 1
      OBVIOUS
    <3>2. Len(req) = 1 /\ req[1] \in [q : Queues, cmd : Job]
      <4> DEFINE R == [q : Queues, cmd : Job]
      <4>1. req \in Seq(R) /\ Len(req) =< 1
        BY <1>1
      <4> HIDE DEF R
      <4>2. Head(req) \in R /\ Head(req) = req[1] /\ Len(req) \in Nat \ {0}
        BY <3>1, <4>1, HeadTail
      <4> DEFINE n == Len(req)
      <4>3. n \in Nat \ {0} /\ n =< 1
        BY <4>1, <4>2
      <4> HIDE DEF n
      <4>4. n = 1
        BY <4>3
      <4>5. req[1] \in R
        BY <4>2, Zenon
      <4>6. QED
        BY <4>4, <4>5 DEF R, n
    <3>3. posts = Taken + 1
      BY <1>1, <3>2 DEF Taken
    <3>4. QED
      BY <3>1, <3>2, <3>3 DEF Names
  <2> HIDE DEF left, c, low
  <2>6. Rising(fifo'[i], low, posts, i)
    <3>1. CASE req # <<>> /\ req[1].q = i /\ Len(s) < QDepth
      BY <1>2, <2>3, <2>4, <2>5, <3>1, RisingAppend
    <3>2. CASE ~(req # <<>> /\ req[1].q = i /\ Len(s) < QDepth)
      BY <1>1, <1>2, <2>3, <2>4, <3>2, RisingHigher
    <3>3. QED
      BY <3>1, <3>2
  <2>7. low =< posts
    BY <1>1, <1>2, <2>3
  <2>8. QED
    BY <1>2, <2>3, <2>6, <2>7 DEF Newer, low
<1>4. QED
  BY <1>1, <1>2, <1>3 DEF Names, Queues

LEMMA PostNames ==
  ASSUME TypeOK, Names, NEW i \in Queues, NEW c \in Cmds, Post(i, c)
  PROVE  Names'
<1> DEFINE d == Numbered(i, posts + 1, c)
<1>1. /\ req = <<>> /\ req' = <<[q |-> i, cmd |-> d]>> /\ posts' = posts + 1
      /\ UNCHANGED <<fifo, job>>
  BY DEF Post, sched, history
<1>2. posts \in Nat
  BY ConstantsAssumption DEF TypeOK, HistoryTypes
<1>3. d.id.q = i /\ d.id.n = posts + 1
  BY DEF Numbered
<1> HIDE DEF d
<1>4. req'[1].q = i /\ req'[1].cmd = d /\ Len(req') = 1 /\ Len(req) = 0
  BY <1>1
<1>5. Taken' = Taken
  BY <1>1, <1>2, <1>4 DEF Taken
<1>6. QED
  BY <1>1, <1>3, <1>4, <1>5 DEF Names, Newer

-----------------------------------------------------------------------------
(* What an edge does to a head that waits for its completion, and to the     *)
(* h2m_complete of one that does not.                                        *)

LEMMA AdvancedComplete ==
  ASSUME NEW h \in HeadType
  PROVE  Advanced(h).h2m_complete = h.h2m_complete
<1>1. SentLast(h).h2m_complete = h.h2m_complete
  BY DEF SentLast, HeadType
<1>2. \A more : SentOne(h, more).h2m_complete = h.h2m_complete
  BY DEF SentOne, HeadType
<1>3. QED
  BY <1>1, <1>2 DEF Advanced

LEMMA NotWaiting ==
  ASSUME TypeOK, AllFlags, NEW i \in Queues, ~head[i].last
  PROVE  HeadNext(i).h2m_complete = head[i].h2m_complete
<1> DEFINE h == head[i]
           n == HeadNext(i)
           loaded == IF CmdInFire(i) THEN Loaded(h, Head(fifo[i])) ELSE h
           fired  == IF Fire /\ out = i THEN Advanced(loaded) ELSE loaded
<1>1. h \in HeadType
  BY DEF TypeOK, QueueTypes
<1>2. CmdInFire(i) => Head(fifo[i]) \in Job
  <2>1. CmdInFire(i) => fifo[i] \in Seq(Job) /\ fifo[i] # <<>>
    BY DEF CmdInFire, TypeOK, QueueTypes
  <2>2. QED
    BY <2>1, HeadTail
<1>3. n = IF h.continue THEN [fired EXCEPT !.continue = FALSE] ELSE fired
  BY DEF HeadNext
<1>4. loaded \in HeadType /\ loaded.h2m_complete = h.h2m_complete
  <2>1. Loaded(h, Head(fifo[i])).h2m_complete = h.h2m_complete
    BY <1>1 DEF Loaded, HeadType
  <2>2. QED
    BY <1>1, <1>2, <2>1, LoadedType
<1> HIDE DEF loaded
<1>5. fired \in HeadType /\ fired.h2m_complete = loaded.h2m_complete
  BY <1>4, AdvancedType, AdvancedComplete
<1> HIDE DEF fired, n
<1>6. n.h2m_complete = fired.h2m_complete
  BY <1>3, <1>5 DEF HeadType
<1>7. QED
  BY <1>4, <1>5, <1>6 DEF n

LEMMA HeadWaits ==
  ASSUME TypeOK, AllFlags, NEW i \in Queues, head[i].last
  PROVE  LET h == head[i]
             n == HeadNext(i)
         IN /\ out = i /\ ~Fire /\ ~CmdInFire(i) /\ h.working /\ n.cpt = h.cpt
            /\ h.h2m_complete /\ cpt.complete
                 => ~n.last /\ ~n.h2m_complete /\ ~n.working
            /\ ~(h.h2m_complete /\ cpt.complete)
                 => /\ n.last /\ n.working
                    /\ n.h2m_complete <=> h.h2m_complete \/ CmdOutReady
<1> DEFINE h == head[i]
           n == HeadNext(i)
           r == IF CmdOutReady THEN [h EXCEPT !.h2m_complete = TRUE] ELSE h
<1>1. h \in HeadType /\ Flags(i)
  BY DEF TypeOK, QueueTypes, AllFlags
<1>2. out = i /\ h.working /\ ~h.continue /\ ~h.cmd_in_ready /\ ~h.cmd_out_valid
  BY <1>1 DEF Flags
<1>3. ~Fire /\ ~CmdInFire(i)
  BY <1>2 DEF Fire, CmdInFire
<1>4. n = IF h.h2m_complete /\ cpt.complete THEN Finished(r) ELSE r
  BY <1>2, <1>3 DEF HeadNext, Ready
<1>5. /\ r \in HeadType /\ r.cpt = h.cpt /\ r.last /\ r.working
      /\ r.h2m_complete <=> h.h2m_complete \/ CmdOutReady
  BY <1>1, <1>2 DEF HeadType
<1> HIDE DEF r
<1>6. /\ ~Finished(r).last /\ ~Finished(r).h2m_complete /\ ~Finished(r).working
      /\ Finished(r).cpt = r.cpt
  BY <1>5 DEF Finished, HeadType
<1> HIDE DEF h, n
<1>7. CASE h.h2m_complete /\ cpt.complete
  <2>1. n = Finished(r)
    BY <1>4, <1>7
  <2>2. QED
    BY <1>2, <1>3, <1>5, <1>6, <1>7, <2>1 DEF h, n
<1>8. CASE ~(h.h2m_complete /\ cpt.complete)
  <2>1. n = r
    BY <1>4, <1>8
  <2>2. QED
    BY <1>2, <1>3, <1>5, <1>8, <2>1 DEF h, n
<1>9. QED
  BY <1>7, <1>8

-----------------------------------------------------------------------------
(* The completion handshake: where the selected head's wait has got to.      *)

Asked == /\ head[out].last /\ cpt.last_reg
         /\ head[out].h2m_complete /\ cpt.complete_reg

Handshake ==
  /\ \A i \in Queues : head[i].h2m_complete => head[i].last
  /\ ~head[out].last => cpt.complete /\ ~cpt.ask
  /\ head[out].last /\ ~cpt.last_reg
       => cpt.complete /\ ~cpt.ask /\ ~cpt.complete_reg /\ ~head[out].h2m_complete
  /\ head[out].last /\ cpt.last_reg
       => /\ cpt.addr = head[out].cpt
          /\ ~Asked => ~cpt.complete /\ ~cpt.ask /\ ~cpt.complete_reg
          /\ Asked => (cpt.ask <=> ~cpt.complete)

LEMMA TickHandshake ==
  ASSUME TypeOK, AllFlags, Handshake, Tick
  PROVE  Handshake'
<1> DEFINE h == head[out]
           m == HeadNext(out)
           start == h.last /\ ~cpt.last_reg
           ask == h.h2m_complete /\ ~cpt.complete_reg
           addr == IF start THEN h.cpt ELSE cpt.addr
<1>1. out \in Queues /\ h \in HeadType
  BY DEF TypeOK, QueueTypes
<1>2. head'[out] = m /\ out' \in Queues /\ \A i \in Queues : head'[i] = HeadNext(i)
  <2>1. TypeOK'
    BY TickType
  <2>2. QED
    BY <1>1, <2>1 DEF Tick, TypeOK, QueueTypes
<1>3. /\ cpt'.last_reg <=> h.last
      /\ cpt'.complete_reg <=> h.h2m_complete
      /\ cpt'.complete <=> cpt.complete /\ ~start
      /\ cpt'.addr = addr
      /\ cpt'.ask <=> cpt.ask \/ ask
  <2>1. cpt' = [cpt EXCEPT !.last_reg = h.last, !.complete_reg = h.h2m_complete,
                           !.complete = @ /\ ~start, !.addr = addr, !.ask = @ \/ ask]
    BY DEF Tick, CptStep
  <2>2. cpt \in [complete : BOOLEAN, addr : Ids, last_reg : BOOLEAN,
                 complete_reg : BOOLEAN, ask : BOOLEAN]
    BY DEF TypeOK, EngineTypes
  <2> HIDE DEF start, ask, addr, h
  <2>3. QED
    BY <2>1, <2>2
<1>4. h.h2m_complete => h.last
  BY <1>1 DEF Handshake
<1>5. ASSUME NEW i \in Queues, ~head[i].last
      PROVE  ~head'[i].h2m_complete /\ (head'[i].last => i = out /\ out' = out)
  <2>1. ~head'[i].h2m_complete
    BY <1>2, <1>5, NotWaiting DEF Handshake
  <2>2. head'[i].last => Fire /\ i = out
    BY <1>2, <1>5, HeadMoves
  <2>3. QED
    BY <2>1, <2>2, SelectionStays
<1>6. ASSUME NEW i \in Queues PROVE head'[i].h2m_complete => head'[i].last
  <2>1. CASE head[i].last
    <3>1. head'[i] = HeadNext(i)
      BY <1>2
    <3>2. QED
      BY <2>1, <3>1, HeadWaits
  <2>2. CASE ~head[i].last
    BY <1>5, <2>2
  <2>3. QED
    BY <2>1, <2>2
<1>7. CASE ~h.last
  <2>1. cpt.complete /\ ~cpt.ask /\ ~h.h2m_complete
    BY <1>4, <1>7 DEF Handshake
  <2>2. cpt'.complete /\ ~cpt'.ask /\ ~cpt'.last_reg /\ ~cpt'.complete_reg
    BY <1>3, <1>7, <2>1
  <2>3. ~head[out'].last
    <3>1. \A i \in Queues : head[i].last => i = out
      BY DEF AllFlags, Flags
    <3>2. QED
      BY <1>2, <1>7, <3>1
  <2>4. ~head'[out'].h2m_complete
    BY <1>2, <1>5, <2>3
  <2>5. QED
    BY <1>6, <2>2, <2>4 DEF Handshake, Queues
<1>8. CASE h.last
  <2>1. out' = out /\ head'[out'] = m
    BY <1>2, <1>8, SelectionStays
  <2>2. /\ m.cpt = h.cpt
        /\ h.h2m_complete /\ cpt.complete => ~m.last /\ ~m.h2m_complete
        /\ ~(h.h2m_complete /\ cpt.complete)
             => m.last /\ (m.h2m_complete <=> h.h2m_complete \/ CmdOutReady)
    BY <1>1, <1>8, HeadWaits
  <2>3. cpt'.last_reg
    BY <1>3, <1>8
  <2>4. CASE ~cpt.last_reg
    <3>1. cpt.complete /\ ~cpt.ask /\ ~cpt.complete_reg /\ ~h.h2m_complete
      BY <1>8, <2>4 DEF Handshake
    <3>2. ~cpt'.complete /\ cpt'.addr = h.cpt /\ ~cpt'.ask /\ ~cpt'.complete_reg
      BY <1>3, <1>8, <2>4, <3>1
    <3>3. m.last
      BY <2>2, <3>1
    <3> HIDE DEF m, h
    <3>4. QED
      BY <1>6, <2>1, <2>2, <2>3, <3>2, <3>3 DEF Handshake, Asked, Queues
  <2>5. CASE cpt.last_reg /\ ~(h.h2m_complete /\ cpt.complete_reg)
    <3>1. ~cpt.complete /\ ~cpt.ask /\ ~cpt.complete_reg /\ cpt.addr = h.cpt
      BY <1>8, <2>5 DEF Handshake, Asked
    <3>2. /\ ~cpt'.complete /\ cpt'.addr = h.cpt
          /\ cpt'.ask <=> h.h2m_complete
          /\ cpt'.complete_reg <=> h.h2m_complete
      BY <1>3, <2>5, <3>1
    <3>3. m.last /\ (h.h2m_complete => m.h2m_complete)
      BY <2>2, <3>1
    <3> HIDE DEF m, h
    <3>4. QED
      BY <1>6, <2>1, <2>2, <2>3, <3>2, <3>3 DEF Handshake, Asked, Queues
  <2>6. CASE cpt.last_reg /\ h.h2m_complete /\ cpt.complete_reg
    <3>1. (cpt.ask <=> ~cpt.complete) /\ cpt.addr = h.cpt
      BY <1>8, <2>6 DEF Handshake, Asked
    <3>2. /\ cpt'.complete <=> cpt.complete
          /\ cpt'.addr = h.cpt
          /\ cpt'.ask <=> ~cpt.complete
          /\ cpt'.complete_reg
      BY <1>3, <2>6, <3>1
    <3>3. CASE cpt.complete
      <4>1. ~m.last
        BY <2>2, <2>6, <3>3
      <4> HIDE DEF m, h
      <4>2. QED
        BY <1>6, <2>1, <3>2, <3>3, <4>1 DEF Handshake, Queues
    <3>4. CASE ~cpt.complete
      <4>1. m.last /\ m.h2m_complete
        BY <2>2, <2>6, <3>4
      <4> HIDE DEF m, h
      <4>2. QED
        BY <1>6, <2>1, <2>2, <2>3, <3>2, <3>4, <4>1 DEF Handshake, Asked, Queues
    <3>5. QED
      BY <3>3, <3>4
  <2>7. QED
    BY <2>4, <2>5, <2>6
<1>9. QED
  BY <1>7, <1>8

-----------------------------------------------------------------------------
(* The freshness of clear.  The engine holds after a packet for longer than  *)
(* the HBM side takes to start on one: by the time the engine is idle again, *)
(* clear is down if it was up for an earlier packet.                         *)

(* Edges since the last packet was taken, at least. *)
Elapsed == IF h2c.state = "send" THEN (IF h2c.valid THEN 1 ELSE 0)
           ELSE IF h2c.state = "done" THEN Hold + 2 - h2c.hold
           ELSE Hold + 3

Fresh ==
  /\ h2c.valid => h2c.state = "send"
  /\ h2c.state = "done" => h2c.hold =< Hold
  /\ clear => h2m = <<>>
  /\ clear /\ buf # <<>> => age >= Elapsed

(* So nothing is left to write when clear is sampled for a final packet. *)
LEMMA ClearMeansDone ==
  ASSUME Lat =< Hold + 3, TypeOK, Fresh, Tick, CmdOutReady, clear
  PROVE  h2m = <<>> /\ buf = <<>>
<1>1. h2m = <<>>
  BY DEF Fresh
<1>2. ASSUME buf # <<>> PROVE FALSE
  <2>1. h2c.state = "idle"
    BY DEF CmdOutReady
  <2>2. Elapsed = Hold + 3
    BY <2>1 DEF Elapsed
  <2>3. age >= Hold + 3
    BY <1>2, <2>2 DEF Fresh
  <2>4. age < Lat
    BY <1>1, <1>2 DEF Tick, Owed
  <2>5. age \in Nat /\ Lat \in Nat /\ Hold \in Nat
    BY ConstantsAssumption DEF TypeOK, WriterTypes
  <2>6. QED
    BY <2>3, <2>4, <2>5
<1>3. QED
  BY <1>1, <1>2

LEMMA TickFresh ==
  ASSUME TypeOK, Fresh, Tick
  PROVE  Fresh'
<1>1. /\ h2c.state \in {"idle", "send", "done"} /\ h2c.valid \in BOOLEAN
      /\ h2c.hold \in 0 .. 15 /\ Hold \in 0 .. 15 /\ age \in Nat
  BY ConstantsAssumption DEF TypeOK, EngineTypes, WriterTypes
<1>2. /\ UNCHANGED <<h2m, clear>> /\ EngineStep
      /\ age' = IF Owed THEN age + 1 ELSE 0
      /\ ~Fire => buf' = buf
  BY DEF Tick
<1>3. Fire => h2c.state = "idle"
  BY DEF Fire, CmdOutReady
<1>4. /\ h2c'.valid => h2c'.state = "send"
      /\ h2c'.state = "done" => h2c'.hold =< Hold
      /\ Fire => Elapsed' = 0
      /\ ~Fire => Elapsed' =< Elapsed + 1
  <2>1. CASE Fire
    <3> DEFINE p == Packet
    <3>1. h2c' = [h2c EXCEPT !.state = "send", !.pkt = p]
      BY <1>2, <1>3, <2>1 DEF EngineStep
    <3> HIDE DEF p
    <3>2. h2c'.state = "send" /\ h2c'.valid = h2c.valid
      BY <3>1 DEF TypeOK, EngineTypes
    <3>3. ~h2c.valid
      BY <1>3, <2>1 DEF Fresh
    <3>4. QED
      BY <2>1, <3>2, <3>3 DEF Elapsed
  <2>2. CASE h2c.state = "idle" /\ ~Fire
    <3>1. h2c' = h2c
      BY <1>2, <2>2 DEF EngineStep
    <3>2. QED
      BY <1>1, <2>2, <3>1 DEF Elapsed, Fresh
  <2>3. CASE h2c.state = "send" /\ h2c.valid /\ qready
    <3>1. h2c' = [h2c EXCEPT !.state = "done", !.valid = FALSE, !.hold = Hold]
      BY <1>2, <2>3 DEF EngineStep
    <3>2. h2c'.state = "done" /\ ~h2c'.valid /\ h2c'.hold = Hold
      BY <3>1 DEF TypeOK, EngineTypes
    <3>3. Elapsed = 1 /\ Elapsed' = 2
      BY <1>1, <2>3, <3>2 DEF Elapsed
    <3>4. QED
      BY <1>1, <1>3, <2>3, <3>2, <3>3
  <2>4. CASE h2c.state = "send" /\ ~(h2c.valid /\ qready)
    <3>1. h2c' = [h2c EXCEPT !.valid = TRUE]
      BY <1>2, <2>4 DEF EngineStep
    <3>2. h2c'.state = "send" /\ h2c'.valid
      BY <2>4, <3>1 DEF TypeOK, EngineTypes
    <3>3. Elapsed' = 1 /\ Elapsed \in {0, 1}
      BY <1>1, <2>4, <3>2 DEF Elapsed
    <3>4. QED
      BY <1>3, <2>4, <3>2, <3>3
  <2>5. CASE h2c.state = "done"
    <3> DEFINE x == (h2c.hold + 15) % 16
               st == IF h2c.hold = 0 THEN "idle" ELSE "done"
    <3>1. h2c' = [h2c EXCEPT !.hold = x, !.state = st]
      BY <1>2, <2>5 DEF EngineStep
    <3>2. h2c.hold > 0 => x = h2c.hold - 1
      BY <1>1
    <3> HIDE DEF x, st
    <3>3. h2c'.state = st /\ h2c'.hold = x /\ h2c'.valid = h2c.valid
      BY <3>1 DEF TypeOK, EngineTypes
    <3>4. ~h2c.valid /\ h2c.hold =< Hold
      BY <2>5 DEF Fresh
    <3>5. CASE h2c.hold = 0
      <4>1. st = "idle"
        BY <3>5 DEF st
      <4>2. Elapsed = Hold + 2 /\ Elapsed' = Hold + 3
        BY <1>1, <2>5, <3>3, <3>5, <4>1 DEF Elapsed
      <4>3. QED
        BY <1>1, <1>3, <2>5, <3>3, <3>4, <4>1, <4>2
    <3>6. CASE h2c.hold > 0
      <4>1. st = "done"
        BY <3>6 DEF st
      <4>2. Elapsed = Hold + 2 - h2c.hold /\ Elapsed' = Hold + 2 - (h2c.hold - 1)
        BY <1>1, <2>5, <3>2, <3>3, <3>6, <4>1 DEF Elapsed
      <4>3. QED
        BY <1>1, <1>3, <2>5, <3>2, <3>3, <3>4, <3>6, <4>1, <4>2
    <3>7. QED
      BY <1>1, <3>5, <3>6
  <2>6. QED
    BY <1>1, <1>3, <2>1, <2>2, <2>3, <2>4, <2>5
<1>5. ASSUME clear, buf' # <<>> PROVE age' >= Elapsed'
  <2>1. h2m = <<>>
    BY <1>5 DEF Fresh
  <2>2. CASE Fire
    BY <1>1, <1>2, <1>4, <2>2
  <2>3. CASE ~Fire
    <3>1. buf # <<>> /\ age >= Elapsed /\ Elapsed \in Int
      BY <1>1, <1>2, <1>5, <2>3, SMTT(60) DEF Fresh, Elapsed
    <3>2. age' = age + 1
      BY <1>2, <2>1, <3>1 DEF Owed
    <3>3. Elapsed' \in Int
      <4>1. TypeOK'
        BY TickType
      <4>2. h2c'.hold \in 0 .. 15
        BY <4>1 DEF TypeOK, EngineTypes
      <4>3. QED
        BY <1>1, <4>2 DEF Elapsed
    <3>4. QED
      BY <1>1, <1>4, <2>3, <3>1, <3>2, <3>3
  <2>4. QED
    BY <2>2, <2>3
<1>6. clear' => h2m' = <<>>
  BY <1>2 DEF Fresh
<1>7. QED
  BY <1>2, <1>4, <1>5, <1>6 DEF Fresh

-----------------------------------------------------------------------------
(* A working head carries the name of its command. *)

Owner(i) == head[i].working => head[i].cpt = job[i].id /\ job[i].id.q = i

LEMMA StillWorking ==
  ASSUME TypeOK, AllFlags, NEW i \in Queues, HeadNext(i).working, ~CmdInFire(i)
  PROVE  head[i].working
<1>1. CASE Fire /\ out = i
  BY <1>1 DEF Fire, AllFlags, Flags
<1>2. CASE ~(Fire /\ out = i)
  BY <1>2, HeadCases
<1>3. QED
  BY <1>1, <1>2

LEMMA TickOwner ==
  ASSUME TypeOK, AllFlags, Names, \A i \in Queues : Owner(i), Tick, NEW i \in Queues
  PROVE  Owner(i)'
<1> DEFINE h == head[i]
           n == HeadNext(i)
           d == Head(fifo[i])
<1>1. head'[i] = n /\ h \in HeadType /\ Owner(i)
  BY DEF Tick, TypeOK, QueueTypes
<1>2. job'[i] = IF CmdInFire(i) THEN d ELSE job[i]
  BY DEF Tick, HistoryStep
<1>3. CASE CmdInFire(i)
  <2>1. SameRegisters(n, Loaded(h, d))
    BY <1>3, HeadMoves
  <2>2. Loaded(h, d).cpt = d.id
    BY <1>1 DEF Loaded, HeadType
  <2>3. d.id.q = i
    BY <1>3, TickNames
  <2> HIDE DEF n, d
  <2>4. QED
    BY <1>1, <1>2, <1>3, <2>1, <2>2, <2>3 DEF Owner, SameRegisters
<1>4. CASE ~CmdInFire(i)
  <2>1. n.cpt = h.cpt
    <3>1. Advanced(h).cpt = h.cpt
      <4>1. SentLast(h).cpt = h.cpt
        BY <1>1 DEF SentLast, HeadType
      <4>2. \A more : SentOne(h, more).cpt = h.cpt
        BY <1>1 DEF SentOne, HeadType
      <4>3. QED
        BY <4>1, <4>2 DEF Advanced
    <3>2. n = Advanced(h) \/ SameRegisters(n, h)
      BY <1>4, HeadMoves
    <3> HIDE DEF n, h
    <3>3. QED
      BY <3>1, <3>2 DEF SameRegisters
  <2>2. n.working => h.working
    BY <1>4, StillWorking
  <2> HIDE DEF n
  <2>3. QED
    BY <1>1, <1>2, <1>4, <2>1, <2>2 DEF Owner
<1>5. QED
  BY <1>3, <1>4

(* Only the packet that the head takes to be its final one is marked. *)
Marked(i) == IF head[i].cmd_out_valid
             THEN head[i].h2m_last => head[i].next_addr = head[i].end_addr
             ELSE ~head[i].h2m_last

LEMMA TickMarked ==
  ASSUME TypeOK, AllFlags, \A i \in Queues : Marked(i), Tick, NEW i \in Queues
  PROVE  Marked(i)'
<1> DEFINE h == head[i]
           n == HeadNext(i)
           d == Head(fifo[i])
<1>1. head'[i] = n /\ h \in HeadType /\ Marked(i)
  BY DEF Tick, TypeOK, QueueTypes
<1>2. CASE CmdInFire(i)
  <2> DEFINE many == d.len > d.pkt
             size == IF many THEN d.pkt ELSE d.len
             nxt == Plus(d.h2m, size)
             lst == IF many THEN h.h2m_last ELSE TRUE
             l == Loaded(h, d)
  <2>1. ~h.cmd_out_valid /\ n.cmd_out_valid /\ SameRegisters(n, l)
    BY <1>2, HeadMoves
  <2>2. l.end_addr = Plus(d.h2m, d.len) /\ l.next_addr = nxt
    BY <1>1 DEF Loaded, HeadType
  <2>3. l.h2m_last = lst
    BY <1>1 DEF Loaded, HeadType
  <2>4. ~h.h2m_last
    BY <1>1, <2>1 DEF Marked
  <2> HIDE DEF l, n, h
  <2>5. l.h2m_last => l.next_addr = l.end_addr
    <3>1. CASE many
      BY <2>3, <2>4, <3>1
    <3>2. CASE ~many
      BY <2>2, <3>2
    <3>3. QED
      BY <3>1, <3>2
  <2>6. QED
    BY <1>1, <2>1, <2>5 DEF Marked, SameRegisters
<1>3. CASE ~CmdInFire(i) /\ Fire /\ out = i
  <2>1. n = Advanced(h) /\ h.cmd_out_valid
    BY <1>3, HeadMoves
  <2>2. CASE h.next_addr = h.end_addr
    <3>1. n = SentLast(h)
      BY <2>1, <2>2 DEF Advanced
    <3>2. ~n.cmd_out_valid /\ ~n.h2m_last
      BY <1>1, <3>1 DEF SentLast, HeadType
    <3> HIDE DEF n
    <3>3. QED
      BY <1>1, <3>2 DEF Marked
  <2>3. CASE h.next_addr # h.end_addr
    <3> DEFINE more == Plus(h.next_addr, h.length) < h.end_addr
               nxt == IF more THEN Plus(h.next_addr, h.length) ELSE h.end_addr
    <3>1. n = SentOne(h, more)
      BY <2>1, <2>3 DEF Advanced
    <3> HIDE DEF more
    <3>2. /\ n.cmd_out_valid = h.cmd_out_valid /\ n.next_addr = nxt
          /\ n.end_addr = h.end_addr
      BY <1>1, <3>1 DEF SentOne, HeadType
    <3>3. n.h2m_last = ~more
      BY <1>1, <3>1 DEF SentOne, HeadType
    <3> HIDE DEF n, h
    <3>4. n.h2m_last => n.next_addr = n.end_addr
      BY <3>2, <3>3
    <3>5. QED
      BY <1>1, <2>1, <3>2, <3>4 DEF Marked, h
  <2>4. QED
    BY <2>2, <2>3
<1>4. CASE ~CmdInFire(i) /\ ~(Fire /\ out = i)
  <2>1. n.cmd_out_valid = h.cmd_out_valid /\ SameRegisters(n, h)
    BY <1>4, HeadMoves
  <2> HIDE DEF n
  <2>2. QED
    BY <1>1, <2>1 DEF Marked, SameRegisters
<1>5. QED
  BY <1>2, <1>3, <1>4

-----------------------------------------------------------------------------
(* The packets that are still to be written. *)

Pending == h2m \o buf

(* Each is of the command its head works on; a marked one is the last, and   *)
(* its head waits; and when a head has seen clear there are none.            *)
Unwritten ==
  /\ \A j \in 1 .. Len(Pending) :
       LET p == Pending[j]
       IN /\ p.id = job[p.id.q].id /\ head[p.id.q].working
          /\ p.last => j = Len(Pending) /\ head[p.id.q].last
  /\ \A i \in Queues : head[i].h2m_complete => Pending = <<>>

LEMMA PendingType ==
  ASSUME TypeOK
  PROVE  /\ Pending \in Seq(PacketType) /\ Len(Pending) \in Nat
         /\ \A j \in 1 .. Len(Pending) :
              Pending[j] \in PacketType /\ Pending[j].id.q \in Queues
<1>1. Pending \in Seq(PacketType)
  BY StreamTypes, ConcatProperties DEF Pending
<1>2. \A j \in 1 .. Len(Pending) : Pending[j] \in PacketType
  BY <1>1
<1>3. \A p \in PacketType : p.id.q \in Queues
  BY DEF PacketType, Ids
<1>4. QED
  BY <1>1, <1>2, <1>3

LEMMA TickPending ==
  ASSUME TypeOK, Tick
  PROVE  Pending' = IF Fire THEN Append(Pending, Packet) ELSE Pending
<1>1. h2m' = h2m /\ buf' = IF Fire THEN Append(buf, Packet) ELSE buf
  BY DEF Tick
<1>2. Fire => h2m \o Append(buf, Packet) = Append(h2m \o buf, Packet)
  BY StreamTypes, PacketType_, ConcatAppend
<1>3. QED
  BY <1>1, <1>2 DEF Pending

LEMMA TickUnwritten ==
  ASSUME Lat =< Hold + 3, TypeOK, AllFlags, Fresh, Handshake, Unwritten, Names,
         \A i \in Queues : Owner(i), \A i \in Queues : Marked(i), Tick
  PROVE  Unwritten'
<1> DEFINE P == Pending
           Q == Pending'
           pk == Packet
<1>1. /\ P \in Seq(PacketType) /\ Len(P) \in Nat /\ pk \in PacketType
      /\ Q = IF Fire THEN Append(P, pk) ELSE P
      /\ \A j \in 1 .. Len(P) : P[j].id.q \in Queues
  BY PendingType, PacketType_, TickPending
<1>2. \A i \in Queues : head'[i] = HeadNext(i)
  BY DEF Tick
<1>3. ASSUME NEW j \in 1 .. Len(P)
      PROVE  LET p == P[j]
             IN /\ p.id = job'[p.id.q].id /\ head'[p.id.q].working
                /\ p.last => ~Fire /\ j = Len(P) /\ head'[p.id.q].last
  <2> DEFINE p == P[j]
             q == p.id.q
  <2>1. q \in Queues
    BY <1>1
  <2>2. /\ p.id = job[q].id /\ head[q].working
        /\ p.last => j = Len(P) /\ head[q].last
    BY DEF Unwritten
  <2>3. P # <<>>
    BY <1>1
  <2>4. ~head[q].h2m_complete
    BY <2>1, <2>3 DEF Unwritten
  <2>5. ~CmdInFire(q)
    BY <2>1, <2>2 DEF AllFlags, Flags, CmdInFire
  <2>6. job'[q] = job[q]
    BY <2>1, <2>5 DEF Tick, HistoryStep
  <2>7. CASE head[q].last
    <3>1. ~Fire /\ HeadNext(q).last /\ HeadNext(q).working
      BY <2>1, <2>4, <2>7, HeadWaits
    <3>2. head'[q].last /\ head'[q].working
      BY <1>2, <2>1, <3>1
    <3> HIDE DEF p, q
    <3>3. QED
      BY <2>2, <2>6, <3>1, <3>2 DEF p, q
  <2>8. CASE ~head[q].last
    <3>1. HeadNext(q).working
      BY <2>1, <2>2, <2>5, <2>8, HeadCases
    <3>2. head'[q].working
      BY <1>2, <2>1, <3>1
    <3> HIDE DEF p, q
    <3>3. QED
      BY <2>2, <2>6, <2>8, <3>2 DEF p, q
  <2>9. QED
    BY <2>7, <2>8
<1>4. ASSUME Fire
      PROVE  /\ pk.id = job'[pk.id.q].id /\ head'[pk.id.q].working
             /\ pk.last => head'[pk.id.q].last
  <2>1. out \in Queues /\ head[out] \in HeadType /\ head[out].cmd_out_valid
    BY <1>4 DEF TypeOK, QueueTypes, Fire
  <2>2. head[out].working
    BY <2>1 DEF AllFlags, Flags
  <2>3. pk.id = job[out].id /\ pk.id.q = out
    <3>1. pk.id = head[out].cpt
      BY DEF Packet
    <3>2. QED
      BY <2>1, <2>2, <3>1 DEF Owner
  <2>4. ~CmdInFire(out) /\ HeadNext(out) = Advanced(head[out])
    BY <1>4, <2>1, <2>2, HeadMoves DEF AllFlags, Flags, CmdInFire
  <2>5. job'[out] = job[out]
    BY <2>1, <2>4 DEF Tick, HistoryStep
  <2>6. HeadNext(out).working
    BY <2>1, <2>2, <2>4, AdvancedFlags
  <2>7. pk.last => HeadNext(out).last
    <3>1. SUFFICES ASSUME pk.last PROVE HeadNext(out).last
      OBVIOUS
    <3>2. head[out].h2m_last
      BY <3>1 DEF Packet
    <3>3. head[out].next_addr = head[out].end_addr
      BY <2>1, <3>2 DEF Marked
    <3>4. HeadNext(out) = SentLast(head[out])
      BY <2>4, <3>3 DEF Advanced
    <3>5. QED
      BY <2>1, <3>4 DEF SentLast, HeadType
  <2>8. head'[out] = HeadNext(out)
    BY <1>2, <2>1
  <2> HIDE DEF pk
  <2>9. QED
    BY <2>3, <2>5, <2>6, <2>7, <2>8
<1>5. ASSUME NEW j \in 1 .. Len(Q)
      PROVE  LET p == Q[j]
             IN /\ p.id = job'[p.id.q].id /\ head'[p.id.q].working
                /\ p.last => j = Len(Q) /\ head'[p.id.q].last
  <2> HIDE DEF P, Q, pk
  <2>1. CASE ~Fire
    BY <1>1, <1>3, <1>5, <2>1
  <2>2. CASE Fire
    <3>1. /\ Len(Q) = Len(P) + 1 /\ Q[Len(P) + 1] = pk
          /\ \A k \in 1 .. Len(P) : Q[k] = P[k]
      BY <1>1, <2>2
    <3>2. CASE j = Len(P) + 1
      BY <1>4, <2>2, <3>1, <3>2
    <3>3. CASE j # Len(P) + 1
      <4>1. j \in 1 .. Len(P) /\ Q[j] = P[j]
        BY <1>1, <1>5, <3>1, <3>3
      <4>2. QED
        BY <1>3, <2>2, <4>1
    <3>4. QED
      BY <3>2, <3>3
  <2>3. QED
    BY <2>1, <2>2
<1>6. ASSUME NEW i \in Queues, head'[i].h2m_complete PROVE Q = <<>>
  <2>1. HeadNext(i).h2m_complete
    BY <1>2, <1>6
  <2>2. CASE head[i].h2m_complete
    <3>1. head[i].last /\ P = <<>>
      BY <2>2 DEF Handshake, Unwritten
    <3>2. ~Fire
      BY <3>1, HeadWaits
    <3>3. QED
      BY <1>1, <3>1, <3>2
  <2>3. CASE ~head[i].h2m_complete
    <3>1. head[i].last
      BY <2>1, <2>3, NotWaiting
    <3>2. CmdOutReady /\ ~Fire /\ out = i
      BY <2>1, <2>3, <3>1, HeadWaits
    <3>3. clear
      BY <3>1, <3>2 DEF CmdOutReady
    <3>4. h2m = <<>> /\ buf = <<>>
      BY <3>2, <3>3, ClearMeansDone
    <3>5. P = <<>>
      BY <3>4, StreamTypes, ConcatEmptySeq DEF Pending
    <3>6. QED
      BY <1>1, <3>2, <3>5
  <2>4. QED
    BY <2>2, <2>3
<1>7. QED
  BY <1>5, <1>6 DEF Unwritten, Queues

(* A start moves the oldest packet of the buffer to the writer and takes     *)
(* clear down; a finish takes it away, and raises clear only if there is no  *)
(* other.                                                                    *)

LEMMA WriterPending ==
  ASSUME TypeOK
  PROVE  /\ WriterStart => Pending' = Pending
         /\ WriterDone => /\ Pending # <<>> /\ Pending' = Tail(Pending)
                          /\ Head(Pending) = h2m[1] /\ Pending[1] = h2m[1]
                          /\ h2m' = <<>> /\ Pending' = buf
<1>1. ASSUME WriterStart PROVE Pending' = Pending
  <2>1. h2m = <<>> /\ buf # <<>> /\ buf' = Tail(buf) /\ h2m' = <<Head(buf)>>
    BY <1>1 DEF WriterStart, Owed
  <2>2. h2m' \o buf' = buf
    BY <2>1, StreamTypes, HeadThenTail
  <2>3. h2m \o buf = buf
    BY <2>1, StreamTypes, ConcatEmptySeq
  <2>4. QED
    BY <2>2, <2>3 DEF Pending
<1>2. ASSUME WriterDone
      PROVE  /\ Pending # <<>> /\ Pending' = Tail(Pending)
             /\ Head(Pending) = h2m[1] /\ Pending[1] = h2m[1]
             /\ h2m' = <<>> /\ Pending' = buf
  <2>1. h2m # <<>> /\ h2m' = <<>> /\ buf' = buf
    BY <1>2 DEF WriterDone
  <2>2. /\ Tail(h2m) \in Seq(PacketType) /\ Len(Tail(h2m)) = Len(h2m) - 1
        /\ Len(h2m) \in Nat \ {0} /\ Len(h2m) =< 1
    BY <2>1, StreamTypes, HeadTail
  <2>3. Tail(h2m) = <<>>
    <3> DEFINE t == Tail(h2m)
    <3>1. t \in Seq(PacketType) /\ Len(t) = 0
      BY <2>2
    <3> HIDE DEF t
    <3>2. t = <<>>
      BY <3>1, EmptySeq
    <3>3. QED
      BY <3>2 DEF t
  <2>4. Tail(h2m) \o buf = Tail(h2m \o buf)
    BY <2>1, StreamTypes, ConcatTail
  <2>5. <<>> \o buf = buf
    BY StreamTypes, ConcatEmptySeq
  <2>6. h2m \o buf \in Seq(PacketType) /\ h2m \o buf # <<>>
    BY <2>1, StreamTypes, ConcatProperties, ConcatEqualIffEmpty
  <2>7. Head(h2m \o buf) = (h2m \o buf)[1]
    BY <2>6, HeadTail
  <2>8. (h2m \o buf)[1] = h2m[1]
    <3>1. 1 \in 1 .. Len(h2m) + Len(buf) /\ 1 =< Len(h2m) /\ Len(buf) \in Nat
      BY <2>2, StreamTypes
    <3>2. QED
      BY <3>1, StreamTypes, ConcatProperties
  <2>9. Pending' = buf /\ Tail(Pending) = buf
    BY <2>1, <2>3, <2>4, <2>5 DEF Pending
  <2>10. QED
    BY <2>1, <2>6, <2>7, <2>8, <2>9 DEF Pending
<1>3. QED
  BY <1>1, <1>2

LEMMA WriterUnwritten ==
  ASSUME TypeOK, Unwritten, Fresh, WriterStart \/ WriterDone
  PROVE  Unwritten' /\ Fresh'
<1>1. UNCHANGED <<head, job, h2c, cpt>>
  BY DEF WriterStart, WriterDone, sched, engine, history
<1>2. CASE WriterStart
  <2>1. Pending' = Pending /\ ~clear'
    BY <1>2, WriterPending DEF WriterStart
  <2>2. Unwritten'
    BY <1>1, <2>1 DEF Unwritten, Queues
  <2>3. Fresh'
    BY <1>1, <2>1 DEF Fresh
  <2>4. QED
    BY <2>2, <2>3
<1>3. CASE WriterDone
  <2> DEFINE P == Pending
             Q == Pending'
  <2>1. /\ P # <<>> /\ Q = Tail(P) /\ P[1] = h2m[1] /\ h2m' = <<>> /\ Q = buf
    BY <1>3, WriterPending
  <2>2. /\ h2m # <<>> /\ clear' = (clear \/ h2m[1].last) /\ buf' = buf
    BY <1>3 DEF WriterDone
  <2>3. P \in Seq(PacketType)
    BY PendingType
  <2> HIDE DEF P, Q
  <2>4. /\ Len(Q) = Len(P) - 1 /\ Len(P) \in Nat \ {0}
        /\ \A k \in 1 .. Len(P) - 1 : Q[k] = P[k + 1]
    BY <2>1, <2>3, HeadTail
  <2>5. ASSUME NEW j \in 1 .. Len(Q)
        PROVE  LET p == Q[j]
               IN /\ p.id = job[p.id.q].id /\ head[p.id.q].working
                  /\ p.last => j = Len(Q) /\ head[p.id.q].last
    <3>1. j + 1 \in 1 .. Len(P) /\ Q[j] = P[j + 1]
      BY <2>4
    <3>2. LET p == P[j + 1]
          IN /\ p.id = job[p.id.q].id /\ head[p.id.q].working
             /\ p.last => j + 1 = Len(P) /\ head[p.id.q].last
      BY <3>1 DEF Unwritten, P
    <3>3. j + 1 = Len(P) <=> j = Len(Q)
      BY <2>4
    <3>4. QED
      BY <3>1, <3>2, <3>3
  <2>6. \A i \in Queues : ~head[i].h2m_complete
    BY <2>1 DEF Unwritten, P
  <2>7. Unwritten'
    BY <1>1, <2>5, <2>6 DEF Unwritten, Queues, Q
  <2>8. clear' => buf' = <<>>
    <3>1. ~clear
      BY <2>2 DEF Fresh
    <3>2. SUFFICES ASSUME h2m[1].last PROVE buf = <<>>
      BY <2>2, <3>1
    <3>3. 1 \in 1 .. Len(P) /\ P[1].last
      BY <2>1, <2>4, <3>2
    <3>4. Len(P) = 1
      BY <3>3 DEF Unwritten, P
    <3>5. Len(buf) = 0
      BY <2>1, <2>4, <3>4
    <3>6. QED
      BY <3>5, StreamTypes, EmptySeq
  <2>9. Fresh'
    BY <1>1, <2>1, <2>8 DEF Fresh
  <2>10. QED
    BY <2>7, <2>9
<1>4. QED
  BY <1>2, <1>3

-----------------------------------------------------------------------------
(* What the host has been told. *)

(* A name that was written is of a command no newer than the one its head    *)
(* was last given, and is that one only if its head waits for no more than   *)
(* to see the handshake's end.                                               *)
Told ==
  /\ \A k \in 1 .. Len(notified) : notified[k].n =< job[notified[k].q].id.n
  /\ \A k \in 1 .. Len(notified), i \in Queues :
       head[i].working /\ notified[k] = job[i].id => i = out /\ Asked /\ cpt.complete
  /\ Asked /\ cpt.complete => \E k \in 1 .. Len(notified) : notified[k] = job[out].id
  /\ CompletionsInOrder

LEMMA ToldTypes ==
  ASSUME TypeOK
  PROVE  /\ notified \in Seq(Ids) /\ Len(notified) \in Nat
         /\ \A k \in 1 .. Len(notified) :
              notified[k] \in Ids /\ notified[k].q \in Queues /\ notified[k].n \in Nat
         /\ \A i \in Queues : job[i] \in Job /\ job[i].id \in Ids /\ job[i].id.n \in Nat
<1>1. \A x \in Ids : x.q \in Queues /\ x.n \in Nat
  BY ConstantsAssumption DEF Ids
<1>2. notified \in Seq(Ids) /\ \A k \in 1 .. Len(notified) : notified[k] \in Ids
  BY DEF TypeOK, HistoryTypes
<1>3. \A i \in Queues : job[i] \in Job /\ job[i].id \in Ids
  BY DEF TypeOK, HistoryTypes, Job
<1>4. QED
  BY <1>1, <1>2, <1>3

LEMMA TickTold ==
  ASSUME TypeOK, AllFlags, Names, Handshake, Told, Tick
  PROVE  Told'
<1>1. notified' = notified
  BY DEF Tick
<1>2. ASSUME NEW i \in Queues
      PROVE  IF CmdInFire(i) THEN job'[i].id.n > job[i].id.n /\ job'[i].id.q = i
             ELSE job'[i] = job[i]
  <2>1. job'[i] = IF CmdInFire(i) THEN Head(fifo[i]) ELSE job[i]
    BY DEF Tick, HistoryStep
  <2>2. CmdInFire(i) => /\ Head(fifo[i]).id.q = i
                        /\ Head(fifo[i]).id.n > job[i].id.n
    BY TickNames
  <2>3. QED
    BY <2>1, <2>2
<1>3. \A i \in Queues : job'[i].id \in Ids /\ job'[i].id.n \in Nat
  <2>1. job' \in [Queues -> Job]
    BY TickType DEF TypeOK, HistoryTypes, Queues, Job, Ids, PacketType
  <2>2. \A c \in Job : c.id \in Ids /\ c.id.n \in Nat
    BY ConstantsAssumption DEF Job, Ids
  <2>3. QED
    BY <2>1, <2>2
<1>4. ASSUME NEW k \in 1 .. Len(notified)
      PROVE  notified[k].n =< job'[notified[k].q].id.n
  <2> DEFINE q == notified[k].q
  <2>1. q \in Queues /\ notified[k].n =< job[q].id.n
    BY ToldTypes DEF Told
  <2> HIDE DEF q
  <2>2. job'[q].id.n >= job[q].id.n
    <3>1. job'[q].id.n > job[q].id.n \/ job'[q] = job[q]
      BY <1>2, <2>1
    <3>2. job'[q].id.n \in Nat /\ job[q].id.n \in Nat
      BY <1>3, <2>1, ToldTypes
    <3>3. QED
      BY <3>1, <3>2
  <2>3. QED
    BY <1>3, <2>1, <2>2, ToldTypes DEF q
<1>5. ASSUME NEW k \in 1 .. Len(notified), NEW i \in Queues,
             head'[i].working, notified[k] = job'[i].id
      PROVE  FALSE
  <2>1. HeadNext(i).working
    BY <1>5 DEF Tick
  <2>2. CASE CmdInFire(i)
    <3>1. notified[k].q = i /\ notified[k].n > job[i].id.n
      BY <1>2, <1>5, <2>2
    <3>2. notified[k].n =< job[i].id.n
      BY <3>1 DEF Told
    <3>3. QED
      BY <3>1, <3>2, ToldTypes
  <2>3. CASE ~CmdInFire(i)
    <3>1. head[i].working /\ job'[i] = job[i]
      BY <1>2, <2>1, <2>3, StillWorking
    <3>2. i = out /\ Asked /\ cpt.complete
      BY <1>5, <3>1 DEF Told
    <3>3. ~HeadNext(i).working
      BY <3>2, HeadWaits DEF Asked
    <3>4. QED
      BY <2>1, <3>3
  <2>4. QED
    BY <2>2, <2>3
<1>6. ~(Asked /\ cpt.complete)'
  <2> SUFFICES ASSUME head'[out'].last, cpt'.complete_reg, cpt'.complete
               PROVE  FALSE
    BY DEF Asked
  <2> DEFINE h == head[out]
             start == h.last /\ ~cpt.last_reg
             ask == h.h2m_complete /\ ~cpt.complete_reg
             addr == IF start THEN h.cpt ELSE cpt.addr
  <2>1. /\ cpt'.complete_reg <=> h.h2m_complete
        /\ cpt'.complete <=> cpt.complete /\ ~start
    <3>1. cpt' = [cpt EXCEPT !.last_reg = h.last, !.complete_reg = h.h2m_complete,
                             !.complete = @ /\ ~start, !.addr = addr, !.ask = @ \/ ask]
      BY DEF Tick, CptStep
    <3>2. cpt \in [complete : BOOLEAN, addr : Ids, last_reg : BOOLEAN,
                   complete_reg : BOOLEAN, ask : BOOLEAN]
      BY DEF TypeOK, EngineTypes
    <3> HIDE DEF start, ask, addr, h
    <3>3. QED
      BY <3>1, <3>2
  <2>2. h.h2m_complete /\ cpt.complete /\ ~start
    BY <2>1
  <2>3. out \in Queues /\ h.last
    BY <2>2 DEF Handshake, TypeOK, QueueTypes
  <2>4. out' = out /\ ~HeadNext(out).last
    BY <2>2, <2>3, HeadWaits, SelectionStays
  <2>5. head'[out'] = HeadNext(out)
    BY <2>3, <2>4 DEF Tick
  <2>6. QED
    BY <2>4, <2>5
<1>7. CompletionsInOrder'
  BY <1>1 DEF Told, CompletionsInOrder
<1>8. QED
  BY <1>1, <1>4, <1>5, <1>6, <1>7 DEF Told, Queues

LEMMA NotifyTold ==
  ASSUME TypeOK, AllFlags, Handshake, Told, \A i \in Queues : Owner(i), Notify
  PROVE  Told' /\ Handshake'
<1>1. /\ cpt.ask /\ cpt' = [cpt EXCEPT !.ask = FALSE, !.complete = TRUE]
      /\ notified' = Append(notified, cpt.addr)
      /\ UNCHANGED <<head, out, job>>
  BY DEF Notify, sched, history
<1>2. /\ ~cpt'.ask /\ cpt'.complete /\ cpt'.last_reg = cpt.last_reg
      /\ cpt'.complete_reg = cpt.complete_reg /\ cpt'.addr = cpt.addr
  <2>1. cpt \in [complete : BOOLEAN, addr : Ids, last_reg : BOOLEAN,
                 complete_reg : BOOLEAN, ask : BOOLEAN]
    BY DEF TypeOK, EngineTypes
  <2>2. QED
    BY <1>1, <2>1
<1>3. out \in Queues
  BY DEF TypeOK, QueueTypes
<1>4. Asked /\ ~cpt.complete /\ cpt.addr = head[out].cpt /\ head[out].last
  BY <1>1 DEF Handshake, Asked
<1>5. Asked'
  BY <1>1, <1>2, <1>4 DEF Asked
<1>6. Handshake'
  BY <1>1, <1>2, <1>4, <1>5 DEF Handshake, Queues, Asked
<1> DEFINE x == cpt.addr
           N == Append(notified, x)
           m == Len(notified)
<1>7. x = job[out].id /\ x.q = out /\ x \in Ids
  <2>1. head[out].working
    BY <1>3, <1>4 DEF AllFlags, Flags
  <2>2. QED
    BY <1>3, <1>4, <2>1, ToldTypes DEF Owner
<1> HIDE DEF x
<1>8. /\ m \in Nat /\ Len(N) = m + 1 /\ N[m + 1] = x
      /\ \A k \in 1 .. m : N[k] = notified[k]
  BY <1>7, ToldTypes
<1> HIDE DEF N, m
<1>9. ASSUME NEW k \in 1 .. m
      PROVE  /\ notified[k].q \in Queues /\ notified[k].n =< job[notified[k].q].id.n
             /\ notified[k].q = out => notified[k].n < x.n
  <2>1. notified[k] \in Ids /\ notified[k].q \in Queues /\ notified[k].n \in Nat
    BY ToldTypes DEF m
  <2>2. notified[k].n =< job[notified[k].q].id.n
    BY DEF Told, m
  <2>3. head[out].working
    BY <1>3, <1>4 DEF AllFlags, Flags
  <2>4. notified[k] # x
    BY <1>3, <1>4, <1>7, <2>3 DEF Told, m
  <2>5. ASSUME notified[k].q = out PROVE notified[k].n < x.n
    <3>1. notified[k].n # x.n
      BY <1>7, <2>1, <2>4, <2>5 DEF Ids
    <3>2. notified[k].n =< x.n /\ x.n \in Nat
      BY <1>3, <1>7, <2>2, <2>5, ToldTypes
    <3>3. QED
      BY <2>1, <3>1, <3>2
  <2>6. QED
    BY <2>1, <2>2, <2>5
<1>10. ASSUME NEW k \in 1 .. m + 1 PROVE N[k].n =< job[N[k].q].id.n
  <2>1. CASE k = m + 1
    <3>1. N[k] = x
      BY <1>8, <2>1
    <3>2. job[out].id.n \in Nat
      BY <1>3, ToldTypes
    <3>3. QED
      BY <1>7, <3>1, <3>2
  <2>2. CASE k # m + 1
    <3>1. k \in 1 .. m /\ N[k] = notified[k]
      BY <1>8, <2>2
    <3>2. QED
      BY <1>9, <3>1
  <2>3. QED
    BY <2>1, <2>2
<1>11. ASSUME NEW k \in 1 .. m + 1, NEW i \in Queues, head[i].working,
              N[k] = job[i].id
       PROVE  i = out
  <2>1. CASE k = m + 1
    <3>1. job[i].id = x
      BY <1>8, <1>11, <2>1
    <3>2. QED
      BY <1>7, <1>11, <3>1 DEF Owner
  <2>2. CASE k # m + 1
    <3>1. k \in 1 .. m /\ N[k] = notified[k]
      BY <1>8, <2>2
    <3>2. QED
      BY <1>11, <3>1 DEF Told, m
  <2>3. QED
    BY <2>1, <2>2
<1>12. ASSUME NEW j \in 1 .. m + 1, NEW k \in 1 .. m + 1, j < k, N[j].q = N[k].q
       PROVE  N[j].n < N[k].n
  <2>1. j \in 1 .. m /\ N[j] = notified[j]
    BY <1>8, <1>12
  <2>2. CASE k = m + 1
    BY <1>7, <1>8, <1>9, <1>12, <2>1, <2>2
  <2>3. CASE k # m + 1
    <3>1. k \in 1 .. m /\ N[k] = notified[k]
      BY <1>8, <2>3
    <3>2. QED
      BY <1>12, <2>1, <3>1 DEF Told, CompletionsInOrder, m
  <2>4. QED
    BY <2>2, <2>3
<1>13. notified' = N /\ Len(N) = m + 1 /\ N[m + 1] = job[out].id /\ m + 1 \in 1 .. m + 1
  BY <1>1, <1>7, <1>8 DEF N, x
<1>14. CompletionsInOrder'
  BY <1>12, <1>13 DEF CompletionsInOrder
<1>15. Told'
  BY <1>1, <1>2, <1>5, <1>10, <1>11, <1>13, <1>14 DEF Told, Queues
<1>16. QED
  BY <1>6, <1>15

-----------------------------------------------------------------------------
(* The invariant. *)
CompletionsInv ==
  /\ Names /\ Handshake /\ Fresh /\ Unwritten /\ Told
  /\ \A i \in Queues : Owner(i)
  /\ \A i \in Queues : Marked(i)

LEMMA InitCompletions == Init => CompletionsInv
<1> SUFFICES ASSUME Init PROVE CompletionsInv
  OBVIOUS
<1>1. /\ head = [i \in Queues |-> IdleHead] /\ out = 0
      /\ buf = <<>> /\ h2m = <<>> /\ notified = <<>>
  BY DEF Init
<1>2. h2c = [state |-> "idle", valid |-> FALSE, hold |-> 0, pkt |-> NoPacket]
  BY DEF Init
<1>3. /\ ~IdleHead.working /\ ~IdleHead.cmd_out_valid /\ ~IdleHead.last
      /\ ~IdleHead.h2m_complete /\ ~IdleHead.h2m_last
  BY DEF IdleHead
<1>4. cpt.complete /\ ~cpt.ask
  <2>1. cpt = [complete |-> TRUE, addr |-> NoId, last_reg |-> FALSE,
               complete_reg |-> FALSE, ask |-> FALSE]
    BY DEF Init
  <2>2. QED
    BY <2>1
<1>5. out \in Queues /\ \A i \in Queues : head[i] = IdleHead
  BY <1>1, ConstantsAssumption DEF Queues
<1>6. ~head[out].last
  BY <1>3, <1>5
<1>7. ~clear
  BY Zenon DEF Init
<1>8. Handshake
  BY <1>3, <1>4, <1>5, <1>6 DEF Handshake
<1>9. Fresh
  <2>1. ~h2c.valid /\ h2c.state = "idle"
    BY <1>2
  <2>2. QED
    BY <1>7, <2>1 DEF Fresh
<1>10. Unwritten
  <2>1. Pending = <<>> /\ Len(<<>>) = 0
    BY <1>1, ConcatEmptySeq DEF Pending
  <2>2. QED
    BY <1>3, <1>5, <2>1 DEF Unwritten
<1>11. Told
  <2>1. Len(notified) = 0
    BY <1>1
  <2>2. QED
    BY <1>6, <2>1 DEF Told, Asked, CompletionsInOrder
<1>12. \A i \in Queues : Owner(i) /\ Marked(i)
  BY <1>3, <1>5 DEF Owner, Marked
<1>13. QED
  BY <1>8, <1>9, <1>10, <1>11, <1>12, InitNames DEF CompletionsInv

LEMMA TickCompletions ==
  ASSUME Lat =< Hold + 3, TypeOK, AllFlags, CompletionsInv, Tick
  PROVE  CompletionsInv'
<1> USE DEF CompletionsInv
<1>1. Names' /\ Handshake' /\ Fresh'
  BY TickNames, TickHandshake, TickFresh
<1>2. Unwritten' /\ Told'
  BY TickUnwritten, TickTold
<1>3. ASSUME NEW i \in Queues PROVE Owner(i)' /\ Marked(i)'
  BY TickOwner, TickMarked
<1>4. QED
  BY <1>1, <1>2, <1>3 DEF Queues

(* What each part of the invariant is about. *)
LEMMA OtherCompletions ==
  ASSUME CompletionsInv
  PROVE  /\ UNCHANGED <<req, fifo, job, posts>> => Names'
         /\ UNCHANGED <<head, out, cpt>> => Handshake'
         /\ UNCHANGED <<h2c, clear, h2m, buf, age>> => Fresh'
         /\ UNCHANGED <<head, job, h2m, buf>> => Unwritten'
         /\ UNCHANGED <<head, job, out, cpt, notified>> => Told'
         /\ UNCHANGED <<head, job>> => \A i \in Queues : Owner(i)' /\ Marked(i)'
<1>1. UNCHANGED <<req, fifo, job, posts>> => Names'
  BY DEF CompletionsInv, Names, Newer, Taken, Rising, Queues
<1>2. UNCHANGED <<head, out, cpt>> => Handshake'
  BY DEF CompletionsInv, Handshake, Asked, Queues
<1>3. UNCHANGED <<h2c, clear, h2m, buf, age>> => Fresh'
  BY DEF CompletionsInv, Fresh, Elapsed
<1>4. UNCHANGED <<head, job, h2m, buf>> => Unwritten'
  BY DEF CompletionsInv, Unwritten, Pending, Queues
<1>5. UNCHANGED <<head, job, out, cpt, notified>> => Told'
  BY DEF CompletionsInv, Told, Asked, CompletionsInOrder, Queues
<1>6. UNCHANGED <<head, job>> => \A i \in Queues : Owner(i)' /\ Marked(i)'
  BY DEF CompletionsInv, Owner, Marked
<1>7. QED
  BY <1>1, <1>2, <1>3, <1>4, <1>5, <1>6

LEMMA EnvironmentCompletions ==
  ASSUME TypeOK, AllFlags, CompletionsInv, Environment
  PROVE  CompletionsInv'
<1>1. ASSUME NEW i \in Queues, NEW c \in Cmds, Post(i, c)
      PROVE  CompletionsInv'
  <2>1. Names'
    BY <1>1, PostNames DEF CompletionsInv
  <2>2. UNCHANGED <<head, out, cpt, h2c, clear, h2m, buf, age, job, notified>>
    BY <1>1 DEF Post, sched, engine, writer, history
  <2>3. QED
    BY <2>1, <2>2, OtherCompletions DEF CompletionsInv, Queues
<1>2. ASSUME QdmaReady PROVE CompletionsInv'
  <2>1. UNCHANGED <<head, out, cpt, h2c, clear, h2m, buf, age, job, notified,
                    req, fifo, posts>>
    BY <1>2 DEF QdmaReady, sched, writer, history
  <2>2. QED
    BY <2>1, OtherCompletions DEF CompletionsInv, Queues
<1>3. ASSUME WriterStart \/ WriterDone PROVE CompletionsInv'
  <2>1. UNCHANGED <<head, out, cpt, job, notified, req, fifo, posts>>
    BY <1>3 DEF WriterStart, WriterDone, sched, history
  <2>2. Unwritten' /\ Fresh'
    BY <1>3, WriterUnwritten DEF CompletionsInv
  <2>3. QED
    BY <2>1, <2>2, OtherCompletions DEF CompletionsInv, Queues
<1>4. ASSUME Notify PROVE CompletionsInv'
  <2>1. UNCHANGED <<head, out, h2c, clear, h2m, buf, age, job, req, fifo, posts>>
    BY <1>4 DEF Notify, sched, engine, writer, history
  <2>2. Told' /\ Handshake'
    BY <1>4, NotifyTold DEF CompletionsInv
  <2>3. QED
    BY <2>1, <2>2, OtherCompletions DEF CompletionsInv, Queues
<1>5. QED
  BY <1>1, <1>2, <1>3, <1>4 DEF Environment

LEMMA CompletionsKept ==
  ASSUME Lat =< Hold + 3
  PROVE  Spec => []CompletionsInv
<1>1. TypeOK /\ AllFlags /\ CompletionsInv /\ [Next]_vars => CompletionsInv'
  <2> SUFFICES ASSUME TypeOK, AllFlags, CompletionsInv, [Next]_vars
               PROVE  CompletionsInv'
    OBVIOUS
  <2>1. CASE Tick
    BY <2>1, TickCompletions
  <2>2. CASE Environment
    BY <2>2, EnvironmentCompletions
  <2>3. CASE UNCHANGED vars
    <3>1. UNCHANGED <<head, out, cpt, h2c, clear, h2m, buf, age, job, notified,
                      req, fifo, posts>>
      BY <2>3 DEF vars, sched, engine, writer, history
    <3>2. QED
      BY <3>1, OtherCompletions DEF CompletionsInv, Queues
  <2>4. QED
    BY <2>1, <2>2, <2>3 DEF Next
<1>2. QED
  BY <1>1, InitCompletions, TypeCorrect, FlagsKept, PTL DEF Spec

(* A completion is written once for each command, in the order in which a    *)
(* queue's commands were posted, and not before the last of its data is in   *)
(* the HBM.  That rests on time alone: the engine's hold outlasts the HBM    *)
(* side's answer to a start, so that the clear flag of an earlier command is *)
(* down before it is sampled for the next.                                   *)
THEOREM CompletionsCorrect ==
  ASSUME Lat =< Hold + 3
  PROVE  Spec => []CompletionsRight
<1>1. TypeOK /\ AllFlags /\ CompletionsInv => CompletionsRight
  <2> SUFFICES ASSUME TypeOK, AllFlags, CompletionsInv PROVE CompletionsRight
    OBVIOUS
  <2> USE DEF CompletionsInv
  <2>1. CompletionsInOrder
    BY DEF Told
  <2>2. ASSUME NEW k \in 1 .. Len(notified), NEW j \in 1 .. Len(Pending)
        PROVE  Pending[j].id # notified[k]
    <3> DEFINE q == Pending[j].id.q
    <3>1. q \in Queues /\ Pending[j].id = job[q].id /\ head[q].working
      BY PendingType DEF Unwritten
    <3>2. SUFFICES ASSUME Pending[j].id = notified[k] PROVE FALSE
      OBVIOUS
    <3> HIDE DEF q
    <3>3. q = out /\ Asked
      BY <3>1, <3>2 DEF Told
    <3>4. Pending = <<>>
      BY <3>1, <3>3 DEF Asked, Unwritten
    <3>5. QED
      BY <3>4, PendingType
  <2>3. ASSUME NEW k \in 1 .. Len(notified), NEW i \in Queues, job[i].id = notified[k]
        PROVE  ~head[i].cmd_out_valid
    <3>1. SUFFICES ASSUME head[i].cmd_out_valid PROVE FALSE
      OBVIOUS
    <3>2. head[i].working /\ ~head[i].last
      BY <3>1 DEF AllFlags, Flags
    <3>3. i = out /\ Asked
      BY <2>3, <3>2 DEF Told
    <3>4. QED
      BY <3>2, <3>3 DEF Asked
  <2>4. CompletionAfterData
    BY <2>2, <2>3 DEF CompletionAfterData, Pending
  <2>5. QED
    BY <2>1, <2>4 DEF CompletionsRight
<1>2. QED
  BY <1>1, CompletionsKept, TypeCorrect, FlagsKept, PTL

-----------------------------------------------------------------------------
(* Counting the beats of a flow along a sequence P of packets: f[j] is what  *)
(* the packets before the j-th bring a flow that starts with a beats to, and *)
(* all of them bring it to b.                                                *)

Counts(P, top) == [1 .. Len(P) + 1 -> 0 .. top]

Path(P, i, a, b, f) ==
  /\ f[1] = a /\ f[Len(P) + 1] = b
  /\ \A j \in 1 .. Len(P) :
       IF P[j].id.q = i THEN f[j] < f[j + 1] /\ f[j + 1] = f[j] + P[j].len
                        ELSE f[j + 1] = f[j]

LEMMA PathNone ==
  ASSUME NEW P \in Seq(PacketType), NEW i, NEW top \in Nat,
         \A j \in 1 .. Len(P) : P[j].id.q # i
  PROVE  \E f \in Counts(P, top) : Path(P, i, 0, 0, f)
<1> DEFINE n == Len(P)
           f == [j \in 1 .. n + 1 |-> 0]
<1>1. n \in Nat
  OBVIOUS
<1> HIDE DEF n
<1>2. 1 \in 1 .. n + 1 /\ n + 1 \in 1 .. n + 1
      /\ \A j \in 1 .. n : j \in 1 .. n + 1 /\ j + 1 \in 1 .. n + 1
  BY <1>1
<1>3. f \in [1 .. n + 1 -> 0 .. top]
  OBVIOUS
<1>4. f[1] = 0 /\ f[n + 1] = 0 /\ \A j \in 1 .. n : f[j] = 0 /\ f[j + 1] = 0
  BY <1>2
<1> HIDE DEF f
<1>5. Path(P, i, 0, 0, f) /\ f \in Counts(P, top)
  BY <1>3, <1>4 DEF Path, Counts, n
<1>6. QED
  BY <1>5

(* One more packet at the end. *)
LEMMA PathAppend ==
  ASSUME NEW P \in Seq(PacketType), NEW p \in PacketType, NEW i, NEW top \in Nat,
         NEW a, NEW b \in Nat, NEW c \in 0 .. top,
         IF p.id.q = i THEN b < c /\ c = b + p.len ELSE c = b,
         \E f \in Counts(P, top) : Path(P, i, a, b, f)
  PROVE  \E f \in Counts(Append(P, p), top) : Path(Append(P, p), i, a, c, f)
<1> DEFINE n == Len(P)
           Q == Append(P, p)
<1>1. PICK f \in Counts(P, top) : Path(P, i, a, b, f)
  OBVIOUS
<1> DEFINE g == [j \in 1 .. n + 2 |-> IF j = n + 2 THEN c ELSE f[j]]
<1>2. /\ n \in Nat /\ Len(Q) = n + 1 /\ Q[n + 1] = p
      /\ \A j \in 1 .. n : Q[j] = P[j]
  OBVIOUS
<1>3. f \in [1 .. n + 1 -> 0 .. top]
  BY DEF Counts
<1>4. /\ f[1] = a /\ f[n + 1] = b
      /\ \A j \in 1 .. n :
           IF P[j].id.q = i THEN f[j] < f[j + 1] /\ f[j + 1] = f[j] + P[j].len
                            ELSE f[j + 1] = f[j]
  BY <1>1 DEF Path
<1> HIDE DEF n, Q
<1>5. g \in [1 .. n + 2 -> 0 .. top]
  <2>1. ASSUME NEW j \in 1 .. n + 2, j # n + 2 PROVE f[j] \in 0 .. top
    <3>1. j \in 1 .. n + 1
      BY <1>2, <2>1
    <3>2. QED
      BY <1>3, <3>1
  <2>2. QED
    BY <2>1
<1>6. g[n + 2] = c /\ \A j \in 1 .. n + 1 : g[j] = f[j]
  BY <1>2
<1> HIDE DEF g
<1>7. g[1] = a /\ g[n + 1] = b
  BY <1>2, <1>4, <1>6
<1>8. ASSUME NEW j \in 1 .. n + 1
      PROVE  IF Q[j].id.q = i THEN g[j] < g[j + 1] /\ g[j + 1] = g[j] + Q[j].len
                              ELSE g[j + 1] = g[j]
  <2>1. CASE j = n + 1
    <3>1. Q[j] = p /\ g[j] = b /\ g[j + 1] = c
      BY <1>2, <1>6, <1>7, <2>1
    <3>2. QED
      BY <3>1
  <2>2. CASE j # n + 1
    <3>1. j \in 1 .. n /\ j + 1 \in 1 .. n + 1 /\ j \in 1 .. n + 1
      BY <1>2, <2>2
    <3>2. Q[j] = P[j] /\ g[j] = f[j] /\ g[j + 1] = f[j + 1]
      BY <1>2, <1>6, <3>1
    <3>3. QED
      BY <1>4, <3>1, <3>2
  <2>3. QED
    BY <2>1, <2>2
<1>9. (n + 1) + 1 = n + 2
  BY <1>2
<1>10. Path(Q, i, a, c, g)
  <2>1. g[(n + 1) + 1] = c
    BY <1>6, <1>9
  <2>2. QED
    BY <1>2, <1>7, <1>8, <2>1 DEF Path
<1>11. g \in Counts(Q, top)
  BY <1>2, <1>5, <1>9 DEF Counts
<1>12. QED
  BY <1>10, <1>11 DEF Q

(* The first packet goes. *)
LEMMA PathTail ==
  ASSUME NEW P \in Seq(PacketType), P # <<>>, NEW i, NEW top \in Nat, NEW a, NEW b,
         \E f \in Counts(P, top) : Path(P, i, a, b, f)
  PROVE  \E c \in 0 .. top :
           /\ IF P[1].id.q = i THEN a < c /\ c = a + P[1].len ELSE c = a
           /\ \E f \in Counts(Tail(P), top) : Path(Tail(P), i, c, b, f)
<1> DEFINE n == Len(P)
           Q == Tail(P)
<1>1. PICK f \in Counts(P, top) : Path(P, i, a, b, f)
  OBVIOUS
<1> DEFINE g == [j \in 1 .. n |-> f[j + 1]]
<1>2. /\ n \in Nat \ {0} /\ Len(Q) = n - 1 /\ \A j \in 1 .. n - 1 : Q[j] = P[j + 1]
  BY HeadTail
<1>3. f \in [1 .. n + 1 -> 0 .. top]
  BY DEF Counts
<1>4. /\ f[1] = a /\ f[n + 1] = b
      /\ \A j \in 1 .. n :
           IF P[j].id.q = i THEN f[j] < f[j + 1] /\ f[j + 1] = f[j] + P[j].len
                            ELSE f[j + 1] = f[j]
  BY <1>1 DEF Path
<1> HIDE DEF n, Q
<1>5. g \in [1 .. n -> 0 .. top]
  <2>1. ASSUME NEW j \in 1 .. n PROVE f[j + 1] \in 0 .. top
    <3>1. j + 1 \in 1 .. n + 1
      BY <1>2
    <3>2. QED
      BY <1>3, <3>1
  <2>2. QED
    BY <2>1
<1>6. \A j \in 1 .. n : g[j] = f[j + 1]
  OBVIOUS
<1> HIDE DEF g
<1>7. 1 \in 1 .. n /\ n \in 1 .. n /\ (n - 1) + 1 = n /\ 1 + 1 = 2
  BY <1>2
<1>8. g[1] = f[2] /\ g[n] = b
  BY <1>4, <1>6, <1>7
<1>9. ASSUME NEW j \in 1 .. n - 1
      PROVE  IF Q[j].id.q = i THEN g[j] < g[j + 1] /\ g[j + 1] = g[j] + Q[j].len
                              ELSE g[j + 1] = g[j]
  <2>1. j \in 1 .. n /\ j + 1 \in 1 .. n
    BY <1>2
  <2>2. Q[j] = P[j + 1] /\ g[j] = f[j + 1] /\ g[j + 1] = f[(j + 1) + 1]
    BY <1>2, <1>6, <2>1
  <2>3. QED
    BY <1>4, <2>1, <2>2
<1>10. Path(Q, i, g[1], b, g)
  BY <1>2, <1>7, <1>8, <1>9 DEF Path
<1>11. g \in Counts(Q, top)
  BY <1>2, <1>5, <1>7 DEF Counts
<1>12. g[1] \in 0 .. top
  BY <1>5, <1>7
<1>13. IF P[1].id.q = i THEN a < g[1] /\ g[1] = a + P[1].len ELSE g[1] = a
  BY <1>4, <1>7, <1>8
<1>14. QED
  BY <1>10, <1>11, <1>12, <1>13 DEF Q

-----------------------------------------------------------------------------
(* Beats of its command that a working head has given to the HBM side. *)
Given(i) == IF head[i].cmd_out_valid THEN Sent(job[i], Len(log[i])) ELSE job[i].len

(* Until its command is reported, the packets of a flow that are still to be *)
(* written bring what has been moved of the command to what has been given;  *)
(* afterwards nothing of the next has been moved.                            *)
Track(i) ==
  IF Unreported(i)
  THEN \E f \in Counts(Pending, job[i].len) : Path(Pending, i, moved[i], Given(i), f)
  ELSE moved[i] = 0

Posted == req # <<>> => req[1].q \in Queues /\ req[1].cmd \in PostedJobs(req[1].q)

DeliveryInv == Posted /\ \A i \in Queues : Track(i)

LEMMA InitDelivery == Init => DeliveryInv
<1> SUFFICES ASSUME Init PROVE DeliveryInv
  OBVIOUS
<1>1. Posted
  BY DEF Init, Posted
<1>2. ASSUME NEW i \in Queues PROVE Track(i)
  <2>1. head[i] = IdleHead /\ moved[i] = 0
    BY DEF Init
  <2>2. ~IdleHead.working
    BY DEF IdleHead
  <2>3. QED
    BY <2>1, <2>2 DEF Track, Unreported
<1>3. QED
  BY <1>1, <1>2 DEF DeliveryInv

(* A packet that is still to be written is of an unreported command. *)
LEMMA PendingUnreported ==
  ASSUME TypeOK, CompletionsInv, NEW j \in 1 .. Len(Pending)
  PROVE  Pending[j].id.q \in Queues /\ Unreported(Pending[j].id.q)
<1> DEFINE q == Pending[j].id.q
<1>1. q \in Queues /\ head[q].working
  BY PendingType DEF CompletionsInv, Unwritten
<1> HIDE DEF q
<1>2. ASSUME NEW k \in 1 .. Len(notified), notified[k] = job[q].id PROVE FALSE
  <2>1. q = out /\ Asked
    BY <1>1, <1>2 DEF CompletionsInv, Told
  <2>2. Pending = <<>>
    BY <1>1, <2>1 DEF Asked, CompletionsInv, Unwritten
  <2>3. QED
    BY <2>2, PendingType
<1>3. QED
  BY <1>1, <1>2 DEF Unreported, q

(* A head that takes a command has an unreported one from then on; and one   *)
(* that finishes had none.                                                   *)
LEMMA TickUnreported ==
  ASSUME TypeOK, AllFlags, CompletionsInv, Tick, NEW i \in Queues
  PROVE  IF CmdInFire(i)
         THEN /\ ~Unreported(i) /\ Unreported(i)'
              /\ fifo[i] # <<>> /\ job'[i] = Head(fifo[i])
         ELSE (Unreported(i)' <=> Unreported(i)) /\ job'[i] = job[i]
<1>1. /\ notified' = notified /\ head'[i] = HeadNext(i)
      /\ job'[i] = IF CmdInFire(i) THEN Head(fifo[i]) ELSE job[i]
  BY DEF Tick, HistoryStep
<1>2. CASE CmdInFire(i)
  <2>1. ~head[i].working /\ fifo[i] # <<>>
    BY <1>2 DEF CmdInFire, AllFlags, Flags
  <2>2. HeadNext(i).working
    <3>1. HeadNext(i).cmd_out_valid /\ ~(Fire /\ out = i) /\ ~head[i].cmd_out_valid
      BY <1>2, HeadMoves
    <3>2. QED
      BY <3>1, HeadCases
  <2>3. job'[i].id.q = i /\ job'[i].id.n > job[i].id.n
    BY <1>1, <1>2, TickNames DEF CompletionsInv
  <2>4. job'[i].id.n \in Nat /\ job[i].id.n \in Nat
    <3>1. job' \in [Queues -> Job] /\ job \in [Queues -> Job]
      BY TickType DEF TypeOK, HistoryTypes, Queues, Job, Ids, PacketType
    <3>2. \A c \in Job : c.id.n \in Nat
      BY ConstantsAssumption DEF Job, Ids
    <3>3. QED
      BY <3>1, <3>2
  <2>5. ASSUME NEW k \in 1 .. Len(notified), notified[k] = job'[i].id PROVE FALSE
    <3>1. notified[k].n =< job[notified[k].q].id.n
      BY DEF CompletionsInv, Told
    <3>2. QED
      BY <2>3, <2>4, <2>5, <3>1
  <2>6. Unreported(i)'
    BY <1>1, <2>2, <2>5 DEF Unreported
  <2>7. QED
    BY <1>1, <1>2, <2>1, <2>6 DEF Unreported
<1>3. CASE ~CmdInFire(i)
  <2>1. HeadNext(i).working => head[i].working
    BY <1>3, StillWorking
  <2>2. ASSUME head[i].working, ~HeadNext(i).working PROVE ~Unreported(i)
    <3>1. head[i].last
      BY <1>3, <2>2, HeadCases
    <3>2. out = i /\ head[i].h2m_complete /\ cpt.complete
      BY <2>2, <3>1, HeadWaits
    <3>3. Asked
      BY <3>1, <3>2 DEF CompletionsInv, Handshake
    <3>4. \E k \in 1 .. Len(notified) : notified[k] = job[i].id
      BY <3>2, <3>3 DEF CompletionsInv, Told
    <3>5. QED
      BY <3>4 DEF Unreported
  <2>3. Unreported(i)' <=> Unreported(i)
    BY <1>1, <1>3, <2>1, <2>2 DEF Unreported
  <2>4. QED
    BY <1>1, <1>3, <2>3
<1>4. QED
  BY <1>2, <1>3

(* What a head gives in a cycle is the length of the packet it fires. *)
LEMMA TickGiven ==
  ASSUME TypeOK, AllFlags, PacketsInv, Tick, NEW i \in Queues, ~CmdInFire(i)
  PROVE  IF Fire /\ out = i
         THEN /\ Given(i) \in Nat /\ Packet.len \in Nat \ {0}
              /\ Given(i)' = Given(i) + Packet.len /\ Given(i)' =< job[i].len
         ELSE Given(i)' = Given(i)
<1> DEFINE h == head[i]
           n == HeadNext(i)
           c == job[i]
           L == log[i]
           m == Len(L)
           o == Sent(c, m)
           p == Packet
<1>1. h \in HeadType /\ head'[i] = n /\ job'[i] = c
      /\ log'[i] = IF Fire /\ out = i THEN Append(L, p) ELSE L
  BY DEF Tick, HistoryStep, TypeOK, QueueTypes
<1>2. CASE Fire /\ out = i
  <2>1. n = Advanced(h) /\ h.cmd_out_valid
    BY <1>2, HeadMoves
  <2>2. Sound(c) /\ Carries(h, c, o)
    BY <2>1 DEF PacketsInv, Fired, SoundJobs
  <2>3. o \in Nat /\ o < c.len /\ p.len = Size(c, o)
    BY <1>2, <2>2 DEF Carries, Packet
  <2>4. /\ Size(c, o) \in 1 .. c.pkt /\ o + Size(c, o) =< c.len
        /\ o + Size(c, o) # c.len => Size(c, o) = c.pkt
    BY <2>2, <2>3, SizeType
  <2>5. h.next_addr = h.end_addr <=> o + Size(c, o) = c.len
    BY <1>1, <2>2, EndFound
  <2>6. m \in Nat /\ Len(Append(L, p)) = m + 1
    BY PacketType_ DEF TypeOK, HistoryTypes
  <2>7. c.pkt \in Nat \ {0} /\ c.len \in Nat
    BY <2>2, ConstantsAssumption DEF Sound, Job
  <2>8. Sent(c, m + 1) = o + c.pkt
    BY <2>6, <2>7, SentStep
  <2>9. Given(i) = o
    BY <2>1 DEF Given
  <2>10. Given(i)' = o + Size(c, o)
    <3>1. CASE o + Size(c, o) = c.len
      <4>1. n = SentLast(h)
        BY <2>1, <2>5, <3>1 DEF Advanced
      <4>2. ~n.cmd_out_valid
        BY <1>1, <4>1 DEF SentLast, HeadType
      <4> HIDE DEF n, o
      <4>3. QED
        BY <1>1, <3>1, <4>2 DEF Given
    <3>2. CASE o + Size(c, o) # c.len
      <4>1. n = SentOne(h, Plus(h.next_addr, h.length) < h.end_addr)
        BY <2>1, <2>5, <3>2 DEF Advanced
      <4>2. n.cmd_out_valid
        BY <1>1, <2>1, <4>1 DEF SentOne, HeadType
      <4>3. log'[i] = Append(L, p)
        BY <1>1, <1>2
      <4> HIDE DEF n, o, p
      <4>4. Given(i)' = Sent(c, m + 1)
        BY <1>1, <2>6, <4>2, <4>3 DEF Given
      <4>5. QED
        BY <2>4, <2>8, <3>2, <4>4
    <3>3. QED
      BY <3>1, <3>2
  <2> HIDE DEF o, p, c
  <2>11. Size(c, o) \in Nat \ {0}
    BY <2>4, <2>7
  <2>12. QED
    BY <1>2, <2>3, <2>4, <2>9, <2>10, <2>11 DEF p, c
<1>3. CASE ~(Fire /\ out = i)
  <2>1. n.cmd_out_valid = h.cmd_out_valid
    BY <1>3, HeadMoves
  <2> HIDE DEF n, p
  <2>2. QED
    BY <1>1, <1>3, <2>1 DEF Given
<1>4. QED
  BY <1>2, <1>3

LEMMA TickTrack ==
  ASSUME TypeOK, AllFlags, CompletionsInv, PacketsInv, DeliveryInv, Tick,
         NEW i \in Queues
  PROVE  Track(i)'
<1> DEFINE P == Pending
           p == Packet
           Q == Pending'
           c == job'[i]
<1>1. /\ P \in Seq(PacketType) /\ p \in PacketType
      /\ Q = IF Fire THEN Append(P, p) ELSE P
  BY PendingType, PacketType_, TickPending
<1>2. moved' = moved /\ c \in Job /\ c.len \in Nat
  <2>1. job' \in [Queues -> Job]
    BY TickType DEF TypeOK, HistoryTypes, Queues, Job, Ids, PacketType
  <2>2. \A d \in Job : d.len \in Nat
    BY ConstantsAssumption DEF Job
  <2>3. QED
    BY <2>1, <2>2 DEF Tick
<1>3. Fire => p.id.q = out
  <2>1. SUFFICES ASSUME Fire PROVE p.id.q = out
    OBVIOUS
  <2>2. out \in Queues /\ head[out].working
    BY <2>1 DEF Fire, AllFlags, Flags, TypeOK, QueueTypes
  <2>3. p.id = head[out].cpt
    BY DEF Packet
  <2>4. QED
    BY <2>2, <2>3 DEF CompletionsInv, Owner
<1>4. Track(i)
  BY DEF DeliveryInv
<1>5. CASE CmdInFire(i)
  <2>1. ~Unreported(i) /\ Unreported(i)' /\ moved'[i] = 0
    BY <1>2, <1>4, <1>5, TickUnreported DEF Track
  <2>2. ~(Fire /\ out = i) /\ HeadNext(i).cmd_out_valid
    BY <1>5, HeadMoves
  <2>3. \A j \in 1 .. Len(P) : P[j].id.q # i
    BY <2>1, PendingUnreported
  <2>4. Q \in Seq(PacketType) /\ \A j \in 1 .. Len(Q) : Q[j].id.q # i
    <3> HIDE DEF P, Q, p
    <3>1. CASE Fire
      <4>1. /\ Q \in Seq(PacketType) /\ Len(Q) = Len(P) + 1 /\ Q[Len(P) + 1] = p
            /\ Len(P) \in Nat /\ \A j \in 1 .. Len(P) : Q[j] = P[j]
        BY <1>1, <3>1
      <4>2. p.id.q # i
        BY <1>3, <2>2, <3>1
      <4>3. ASSUME NEW j \in 1 .. Len(Q) PROVE Q[j].id.q # i
        <5>1. j = Len(P) + 1 \/ j \in 1 .. Len(P)
          BY <4>1
        <5>2. QED
          BY <2>3, <4>1, <4>2, <5>1
      <4>4. QED
        BY <4>1, <4>3
    <3>2. CASE ~Fire
      BY <1>1, <2>3, <3>2
    <3>3. QED
      BY <3>1, <3>2
  <2>5. Given(i)' = 0
    <3>1. log'[i] = <<>> /\ head'[i] = HeadNext(i)
      BY <1>5 DEF Tick, HistoryStep
    <3>2. Given(i)' = Sent(c, 0)
      <4>1. Len(<<>>) = 0
        OBVIOUS
      <4>2. QED
        BY <2>2, <3>1, <4>1 DEF Given
    <3>3. 0 * c.pkt = 0
      <4>1. c.pkt \in Nat
        BY <1>2, ConstantsAssumption DEF Job
      <4>2. QED
        BY <4>1
    <3>4. QED
      BY <3>2, <3>3 DEF Sent
  <2>6. \E f \in Counts(Q, c.len) : Path(Q, i, 0, 0, f)
    <3> HIDE DEF Q, c
    <3>1. QED
      BY <1>2, <2>4, PathNone
  <2>7. QED
    BY <2>1, <2>5, <2>6 DEF Track
<1>6. CASE ~CmdInFire(i) /\ Unreported(i)
  <2>1. Unreported(i)' /\ c = job[i]
    BY <1>6, TickUnreported
  <2> DEFINE a == moved[i]
             b == Given(i)
             d == Given(i)'
  <2>2. \E f \in Counts(P, c.len) : Path(P, i, a, b, f)
    BY <1>4, <1>6, <2>1 DEF Track
  <2>3. IF Fire /\ out = i THEN /\ b \in Nat /\ p.len \in Nat \ {0}
                                /\ d = b + p.len /\ d =< c.len
                           ELSE d = b
    BY <1>6, <2>1, TickGiven
  <2>4. b \in 0 .. c.len
    <3>1. PICK f \in Counts(P, c.len) : Path(P, i, a, b, f)
      BY <2>2
    <3> DEFINE n == Len(P)
    <3>2. n \in Nat
      BY <1>1
    <3>3. f \in [1 .. n + 1 -> 0 .. c.len] /\ b = f[n + 1]
      BY <3>1 DEF Counts, Path
    <3> HIDE DEF n, P, b, c
    <3>4. n + 1 \in 1 .. n + 1
      BY <3>2
    <3>5. QED
      BY <3>3, <3>4
  <2>5. \E f \in Counts(Q, c.len) : Path(Q, i, a, d, f)
    <3> HIDE DEF P, Q, p, a, b, c, d
    <3>1. CASE Fire
      <4>1. IF p.id.q = i THEN b < d /\ d = b + p.len ELSE d = b
        BY <1>3, <2>3, <3>1
      <4>2. d \in 0 .. c.len
        BY <1>2, <2>3, <2>4
      <4>3. b \in Nat
        BY <1>2, <2>4
      <4>4. \E f \in Counts(Append(P, p), c.len) : Path(Append(P, p), i, a, d, f)
        BY <1>1, <1>2, <2>2, <4>1, <4>2, <4>3, PathAppend
      <4>5. QED
        BY <1>1, <3>1, <4>4
    <3>2. CASE ~Fire
      BY <1>1, <2>2, <2>3, <3>2
    <3>3. QED
      BY <3>1, <3>2
  <2>6. moved'[i] = a
    BY <1>2
  <2>7. QED
    BY <2>1, <2>5, <2>6 DEF Track
<1>7. CASE ~CmdInFire(i) /\ ~Unreported(i)
  <2>1. ~Unreported(i)' /\ moved'[i] = 0
    BY <1>2, <1>4, <1>7, TickUnreported DEF Track
  <2>2. QED
    BY <2>1 DEF Track
<1>8. QED
  BY <1>5, <1>6, <1>7

(* The writer takes the first pending packet; the others change no packet. *)
LEMMA WriterTrack ==
  ASSUME TypeOK, CompletionsInv, DeliveryInv, WriterDone
  PROVE  LET q == h2m[1].id.q
         IN /\ q \in Queues /\ Unreported(q)
            /\ moved' = [moved EXCEPT ![q] = moved'[q]]
            /\ moved'[q] \in moved[q] + 1 .. job[q].len
            /\ \A i \in Queues : Track(i)'
<1> DEFINE P == Pending
           Q == Pending'
           w == h2m[1]
           q == w.id.q
<1>1. P \in Seq(PacketType) /\ P # <<>> /\ Q = Tail(P) /\ P[1] = w
  BY WriterPending, PendingType
<1>2. /\ moved' = [moved EXCEPT ![q] = @ + w.len]
      /\ UNCHANGED <<head, job, log, notified>>
  BY DEF WriterDone, sched, history
<1>3. q \in Queues /\ Unreported(q)
  <2>1. 1 \in 1 .. Len(P)
    BY <1>1
  <2>2. QED
    BY <1>1, <2>1, PendingUnreported
<1>4. moved \in [Queues -> Nat] /\ \A i \in Queues : job[i].len \in Nat
  BY ConstantsAssumption DEF TypeOK, HistoryTypes, Job
<1> HIDE DEF w, q
<1>5. moved'[q] = moved[q] + w.len /\ \A i \in Queues : i # q => moved'[i] = moved[i]
  BY <1>2, <1>3, <1>4
<1>6. moved' = [moved EXCEPT ![q] = moved'[q]]
  BY <1>2, <1>3, <1>4, <1>5
<1>7. ASSUME NEW i \in Queues
      PROVE  (Unreported(i)' <=> Unreported(i)) /\ Given(i)' = Given(i)
  BY <1>2 DEF Unreported, Given
<1>8. ASSUME NEW i \in Queues, Unreported(i)
      PROVE  /\ Track(i)' /\ moved'[i] \in 0 .. job[i].len
             /\ i = q => moved'[i] > moved[i]
  <2>7. Unreported(i)' /\ Given(i)' = Given(i) /\ job'[i] = job[i]
    BY <1>2, <1>7, <1>8
  <2> DEFINE a == moved[i]
             b == Given(i)
             top == job[i].len
  <2>1. \E f \in Counts(P, top) : Path(P, i, a, b, f)
    BY <1>8 DEF DeliveryInv, Track
  <2>2. PICK c \in 0 .. top :
          /\ IF P[1].id.q = i THEN a < c /\ c = a + P[1].len ELSE c = a
          /\ \E f \in Counts(Tail(P), top) : Path(Tail(P), i, c, b, f)
    <3> HIDE DEF P, a, b
    <3>1. top \in Nat
      BY <1>4
    <3> HIDE DEF top
    <3>2. QED
      BY <1>1, <2>1, <3>1, PathTail
  <2>3. P[1] = w /\ w.id.q = q
    BY <1>1 DEF q
  <2>4. c = moved'[i] /\ (i = q => c > a)
    <3>1. CASE i = q
      <4>1. a < c /\ c = a + w.len
        BY <2>2, <2>3, <3>1
      <4>2. a \in Nat
        BY <1>4
      <4>3. QED
        BY <1>5, <3>1, <4>1, <4>2
    <3>2. CASE i # q
      BY <1>5, <2>2, <2>3, <3>2
    <3>3. QED
      BY <3>1, <3>2
  <2>5. Track(i)'
    <3>1. \E f \in Counts(Q, top) : Path(Q, i, c, b, f)
      BY <1>1, <2>2
    <3>2. job'[i].len = top /\ moved'[i] = c
      BY <2>4, <2>7
    <3>3. QED
      BY <2>7, <3>1, <3>2 DEF Track
  <2>6. QED
    BY <2>4, <2>5
<1>9. ASSUME NEW i \in Queues, ~Unreported(i) PROVE Track(i)'
  <2>1. i # q /\ moved[i] = 0
    BY <1>3, <1>9 DEF DeliveryInv, Track
  <2>2. ~Unreported(i)' /\ moved'[i] = 0
    BY <1>5, <1>7, <1>9, <2>1
  <2>3. QED
    BY <2>2 DEF Track
<1>10. moved'[q] \in moved[q] + 1 .. job[q].len
  <2>1. moved'[q] \in 0 .. job[q].len /\ moved'[q] > moved[q]
    BY <1>3, <1>8
  <2>2. QED
    BY <1>3, <1>4, <2>1
<1>11. QED
  BY <1>3, <1>6, <1>8, <1>9, <1>10 DEF q, w

(* A completion is written when all of its command has been moved. *)
LEMMA NotifyTrack ==
  ASSUME TypeOK, AllFlags, CompletionsInv, DeliveryInv, Notify
  PROVE  /\ out \in Queues /\ Unreported(out) /\ moved[out] = job[out].len
         /\ moved' = [moved EXCEPT ![out] = 0]
         /\ notified' = Append(notified, job[out].id)
         /\ \A i \in Queues : Unreported(i)' <=> Unreported(i) /\ i # out
         /\ \A i \in Queues : Track(i)'
<1>1. /\ cpt.ask /\ notified' = Append(notified, cpt.addr)
      /\ moved' = [moved EXCEPT ![cpt.addr.q] = 0]
      /\ UNCHANGED <<head, out, job, log, h2m, buf>>
  BY DEF Notify, sched, writer, history
<1>2. out \in Queues
  BY DEF TypeOK, QueueTypes
<1>3. Asked /\ ~cpt.complete /\ cpt.addr = head[out].cpt /\ head[out].last
  BY <1>1 DEF CompletionsInv, Handshake, Asked
<1>4. head[out].working /\ ~head[out].cmd_out_valid
  BY <1>2, <1>3 DEF AllFlags, Flags
<1>5. cpt.addr = job[out].id /\ cpt.addr.q = out
  BY <1>2, <1>3, <1>4 DEF CompletionsInv, Owner
<1>6. Unreported(out)
  BY <1>2, <1>3, <1>4 DEF CompletionsInv, Told, Unreported
<1>7. Pending = <<>>
  BY <1>2, <1>3 DEF Asked, CompletionsInv, Unwritten
<1>8. moved[out] = job[out].len
  <2>1. PICK f \in Counts(Pending, job[out].len) :
               Path(Pending, out, moved[out], Given(out), f)
    BY <1>2, <1>6 DEF DeliveryInv, Track
  <2>2. Len(Pending) + 1 = 1
    BY <1>7
  <2>3. moved[out] = Given(out)
    BY <2>1, <2>2 DEF Path
  <2>4. QED
    BY <1>4, <2>3 DEF Given
<1>9. moved' = [moved EXCEPT ![out] = 0]
  BY <1>1, <1>5
<1> DEFINE x == cpt.addr
           m == Len(notified)
           N == Append(notified, x)
<1>10. /\ m \in Nat /\ Len(N) = m + 1 /\ N[m + 1] = x
       /\ \A k \in 1 .. m : N[k] = notified[k]
  <2>1. x \in Ids
    BY <1>2, <1>5, ToldTypes
  <2> HIDE DEF x
  <2>2. QED
    BY <2>1, ToldTypes
<1>11. notified' = N /\ x = job[out].id /\ x.q = out
  BY <1>1, <1>5
<1> HIDE DEF x, m, N
<1>12. ASSUME NEW i \in Queues PROVE Unreported(i)' <=> Unreported(i) /\ i # out
  <2>1. Unreported(i)' <=> /\ head[i].working
                           /\ \A k \in 1 .. m + 1 : N[k] # job[i].id
    BY <1>1, <1>10, <1>11 DEF Unreported
  <2>2. (\A k \in 1 .. m + 1 : N[k] # job[i].id) <=>
        /\ \A k \in 1 .. m : notified[k] # job[i].id
        /\ x # job[i].id
    BY <1>10
  <2>3. head[i].working => (x # job[i].id <=> i # out)
    <3>1. head[i].working => job[i].id.q = i
      BY DEF CompletionsInv, Owner
    <3>2. QED
      BY <1>11, <3>1
  <2>4. QED
    BY <2>1, <2>2, <2>3 DEF Unreported, m
<1>13. ASSUME NEW i \in Queues PROVE Track(i)'
  <2>1. Pending' = Pending /\ job'[i] = job[i] /\ Given(i)' = Given(i)
    BY <1>1 DEF Pending, Given
  <2>2. CASE i = out
    <3>1. ~Unreported(i)' /\ moved'[i] = 0
      BY <1>2, <1>9, <1>12, <2>2 DEF TypeOK, HistoryTypes
    <3>2. QED
      BY <3>1 DEF Track
  <2>3. CASE i # out
    <3>1. moved'[i] = moved[i]
      BY <1>2, <1>9, <2>3 DEF TypeOK, HistoryTypes
    <3>2. Unreported(i)' <=> Unreported(i)
      BY <1>12, <2>3
    <3>3. Track(i)
      BY DEF DeliveryInv
    <3>4. QED
      BY <2>1, <3>1, <3>2, <3>3 DEF Track
  <2>4. QED
    BY <2>2, <2>3
<1>14. notified' = Append(notified, job[out].id)
  BY <1>11 DEF N
<1>15. QED
  BY <1>2, <1>6, <1>8, <1>9, <1>12, <1>13, <1>14

LEMMA NextDelivery ==
  ASSUME TypeOK, AllFlags, CompletionsInv, PacketsInv, DeliveryInv, [Next]_vars
  PROVE  DeliveryInv'
<1>1. CASE Tick
  <2>1. Posted'
    BY <1>1 DEF Tick, Posted
  <2>2. \A i \in Queues : Track(i)'
    BY <1>1, TickTrack
  <2>3. QED
    BY <2>1, <2>2 DEF DeliveryInv, Queues
<1>2. CASE WriterDone
  <2>1. Posted'
    BY <1>2 DEF WriterDone, DeliveryInv, Posted, PostedJobs, Queues
  <2>2. \A i \in Queues : Track(i)'
    BY <1>2, WriterTrack
  <2>3. QED
    BY <2>1, <2>2 DEF DeliveryInv, Queues
<1>3. CASE Notify
  <2>1. Posted'
    BY <1>3 DEF Notify, DeliveryInv, Posted, PostedJobs, Queues
  <2>2. \A i \in Queues : Track(i)'
    BY <1>3, NotifyTrack
  <2>3. QED
    BY <2>1, <2>2 DEF DeliveryInv, Queues
<1>4. ASSUME UNCHANGED <<head, job, log, moved, notified>>, Pending' = Pending
      PROVE  \A i \in Queues : Track(i)'
  <2> SUFFICES ASSUME NEW i \in Queues PROVE Track(i)'
    OBVIOUS
  <2>1. Track(i)
    BY DEF DeliveryInv
  <2>2. /\ Given(i)' = Given(i) /\ job'[i] = job[i] /\ moved'[i] = moved[i]
        /\ Unreported(i)' <=> Unreported(i)
    BY <1>4 DEF Given, Unreported
  <2>3. QED
    BY <1>4, <2>1, <2>2 DEF Track
<1>5. ASSUME NEW i \in Queues, NEW c \in Cmds, Post(i, c) PROVE DeliveryInv'
  <2>1. UNCHANGED <<head, job, log, moved, notified, h2m, buf>>
    BY <1>5 DEF Post, sched, writer, history
  <2>2. Pending' = Pending
    BY <2>1 DEF Pending
  <2>3. req'[1].q = i /\ req'[1].cmd = Numbered(i, posts + 1, c)
    BY <1>5 DEF Post
  <2>4. posts + 1 \in 1 .. MaxPosts
    BY <1>5, ConstantsAssumption DEF Post, TypeOK, HistoryTypes
  <2>5. req'[1].cmd \in PostedJobs(i)
    BY <2>3, <2>4 DEF PostedJobs
  <2>6. Posted'
    BY <2>3, <2>5 DEF Posted, Queues, PostedJobs
  <2>7. QED
    BY <1>4, <2>1, <2>2, <2>6 DEF DeliveryInv, Queues
<1>6. CASE QdmaReady \/ WriterStart \/ UNCHANGED vars
  <2>1. UNCHANGED <<req, head, job, log, moved, notified>>
    BY <1>6 DEF QdmaReady, WriterStart, vars, sched, writer, history
  <2>2. Pending' = Pending
    <3>1. QdmaReady \/ UNCHANGED vars => UNCHANGED <<h2m, buf>>
      BY DEF QdmaReady, vars, writer
    <3>2. QED
      BY <1>6, <3>1, WriterPending DEF Pending
  <2>3. Posted'
    BY <2>1 DEF DeliveryInv, Posted, Queues, PostedJobs
  <2>4. QED
    BY <1>4, <2>1, <2>2, <2>3 DEF DeliveryInv, Queues
<1>7. QED
  BY <1>1, <1>2, <1>3, <1>5, <1>6 DEF Next, Environment

-----------------------------------------------------------------------------
(* The steps of OrderedDelivery. *)

LEMMA ConsHead ==
  ASSUME NEW S, NEW e \in S, NEW s \in Seq(S)
  PROVE  <<e>> \o s # <<>> /\ Head(<<e>> \o s) = e /\ Tail(<<e>> \o s) = s
<1> DEFINE u == <<e>>
           t == u \o s
<1>1. /\ u \in Seq(S) /\ u # <<>> /\ u[1] = e /\ Len(u) = 1
      /\ Len(s) \in Nat
  OBVIOUS
<1>2. Tail(u) = <<>>
  OBVIOUS
<1> HIDE DEF u
<1>3. t \in Seq(S) /\ t # <<>> /\ t[1] = u[1]
  BY <1>1, ConcatProperties, ConcatEqualIffEmpty
<1>4. Tail(u) \o s = Tail(t)
  BY <1>1, ConcatTail
<1>5. Tail(t) = s
  BY <1>2, <1>4, ConcatEmptySeq
<1> HIDE DEF t
<1>6. Head(t) = t[1]
  BY <1>3, HeadTail
<1>7. QED
  BY <1>1, <1>3, <1>5, <1>6 DEF t, u

(* The commands of a flow: only one that arrives is added. *)
LEMMA TickTodo ==
  ASSUME TypeOK, AllFlags, CompletionsInv, Tick, NEW i \in Queues
  PROVE  Todo'[i] = IF req # <<>> /\ req[1].q = i /\ Len(fifo[i]) < QDepth
                    THEN Append(Todo[i], req[1].cmd) ELSE Todo[i]
<1> DEFINE s == fifo[i]
           t == Todo[i]
           left == IF CmdInFire(i) THEN Tail(s) ELSE s
           c == req[1].cmd
           In == req # <<>> /\ req[1].q = i /\ Len(s) < QDepth
<1>1. s \in Seq(Job) /\ job[i] \in Job /\ job'[i] \in Job
  BY TickType DEF TypeOK, QueueTypes, HistoryTypes, Queues, Job, Ids, PacketType
<1>2. fifo'[i] = IF In THEN Append(left, c) ELSE left
  BY DEF Tick, FifoNext
<1>3. t = IF Unreported(i) THEN <<job[i]>> \o s ELSE s
  BY DEF Todo
<1>4. Todo'[i] = IF Unreported(i)' THEN <<job'[i]>> \o fifo'[i] ELSE fifo'[i]
  BY DEF Todo, Queues
<1>5. In => c \in Job
  <2>1. req \in Seq([q : Queues, cmd : Job])
    BY DEF TypeOK, QueueTypes
  <2>2. req # <<>> => req[1] \in [q : Queues, cmd : Job]
    <3> DEFINE R == [q : Queues, cmd : Job]
    <3> HIDE DEF R
    <3>1. req \in Seq(R)
      BY <2>1 DEF R
    <3>2. req # <<>> => Head(req) \in R /\ Head(req) = req[1]
      BY <3>1, HeadTail
    <3>3. QED
      BY <3>2, Zenon DEF R
  <2>3. QED
    BY <2>2
<1>6. CASE CmdInFire(i)
  <2>1. /\ ~Unreported(i) /\ Unreported(i)' /\ s # <<>> /\ job'[i] = Head(s)
    BY <1>6, TickUnreported
  <2>2. left = Tail(s) /\ Tail(s) \in Seq(Job) /\ Head(s) \in Job
    BY <1>1, <1>6, <2>1, HeadTail
  <2>3. <<Head(s)>> \o Tail(s) = s
    BY <1>1, <2>1, HeadThenTail
  <2>4. In => <<Head(s)>> \o Append(Tail(s), c) = Append(s, c)
    <3> DEFINE u == <<Head(s)>>
               v == Tail(s)
    <3>1. u \in Seq(Job) /\ v \in Seq(Job)
      BY <2>2
    <3> HIDE DEF u, v, s, c, In
    <3>2. In => u \o Append(v, c) = Append(u \o v, c)
      BY <1>5, <3>1, ConcatAppend
    <3>3. u \o v = s
      BY <2>3 DEF u, v
    <3>4. QED
      BY <3>2, <3>3 DEF u, v
  <2>5. t = s /\ Todo'[i] = <<Head(s)>> \o fifo'[i]
    BY <1>3, <1>4, <2>1
  <2> HIDE DEF s, t, c, In, left
  <2>6. Todo'[i] = IF In THEN Append(t, c) ELSE t
    BY <1>2, <2>2, <2>3, <2>4, <2>5
  <2>7. QED
    BY <2>6 DEF s, t, c, In
<1>7. CASE ~CmdInFire(i)
  <2>1. (Unreported(i)' <=> Unreported(i)) /\ job'[i] = job[i]
    BY <1>7, TickUnreported
  <2>2. left = s
    BY <1>7
  <2>3. In => <<job[i]>> \o Append(s, c) = Append(<<job[i]>> \o s, c)
    <3> DEFINE u == <<job[i]>>
    <3>1. u \in Seq(Job)
      BY <1>1
    <3> HIDE DEF u, s, c, In
    <3>2. In => u \o Append(s, c) = Append(u \o s, c)
      BY <1>1, <1>5, <3>1, ConcatAppend
    <3>3. QED
      BY <3>2 DEF u
  <2> HIDE DEF s, t, c, In, left
  <2>4. Todo'[i] = IF In THEN Append(t, c) ELSE t
    BY <1>2, <1>3, <1>4, <2>1, <2>2, <2>3
  <2>5. QED
    BY <2>4 DEF s, t, c, In
<1>8. QED
  BY <1>6, <1>7

LEMMA TickDelivers ==
  ASSUME TypeOK, AllFlags, CompletionsInv, DeliveryInv, Tick
  PROVE  [Delivery!Next]_Delivery!vars
<1>1. moved' = moved /\ notified' = notified
  BY DEF Tick
<1>2. /\ Todo = [i \in Queues |-> Todo[i]] /\ Todo' = [i \in Queues |-> Todo'[i]]
  BY DEF Todo, Queues
<1> DEFINE q == req[1].q
           c == req[1].cmd
           In(i) == req # <<>> /\ q = i /\ Len(fifo[i]) < QDepth
<1>3. \A i \in Queues : Todo'[i] = IF In(i) THEN Append(Todo[i], c) ELSE Todo[i]
  BY TickTodo
<1>4. req # <<>> => q \in Queues /\ c \in PostedJobs(q)
  BY DEF DeliveryInv, Posted
<1> HIDE DEF q, c
<1>5. CASE req # <<>> /\ Len(fifo[q]) < QDepth
  <2>1. q \in Queues /\ c \in PostedJobs(q)
    BY <1>4, <1>5
  <2> DEFINE t == [Todo EXCEPT ![q] = Append(@, c)]
  <2>2. ASSUME NEW i \in Queues PROVE Todo'[i] = t[i]
    <3>1. t[i] = IF i = q THEN Append(Todo[i], c) ELSE Todo[i]
      BY <1>2
    <3>2. In(i) <=> i = q
      BY <1>5
    <3> HIDE DEF t, In
    <3>3. QED
      BY <1>3, <3>1, <3>2
  <2>3. t = [i \in Queues |-> t[i]]
    BY <1>2
  <2> HIDE DEF t
  <2>4. Todo' = t
    BY <1>2, <2>2, <2>3
  <2>5. Delivery!Accept(q, c)
    BY <1>1, <2>4 DEF Delivery!Accept, t
  <2>6. QED
    BY <2>1, <2>5 DEF Delivery!Next
<1>6. CASE ~(req # <<>> /\ Len(fifo[q]) < QDepth)
  <2>1. ASSUME NEW i \in Queues PROVE Todo'[i] = Todo[i]
    BY <1>3, <1>6
  <2>2. Todo' = Todo
    BY <1>2, <2>1
  <2>3. QED
    BY <1>1, <2>2 DEF Delivery!vars
<1>7. QED
  BY <1>5, <1>6

(* Outside the clock domain only the two ends of the writer's and the        *)
(* completion unit's work show.                                              *)
LEMMA OtherDelivers ==
  ASSUME TypeOK, AllFlags, CompletionsInv, DeliveryInv, Environment \/ UNCHANGED vars
  PROVE  [Delivery!Next]_Delivery!vars
<1>1. \A i \in Queues : Todo[i] = IF Unreported(i) THEN <<job[i]>> \o fifo[i] ELSE fifo[i]
  BY DEF Todo
<1>2. \A i \in Queues : job[i] \in Job /\ fifo[i] \in Seq(Job)
  BY DEF TypeOK, QueueTypes, HistoryTypes
<1>3. ASSUME NEW i \in Queues, Unreported(i)
      PROVE  Todo[i] # <<>> /\ Head(Todo[i]) = job[i] /\ Tail(Todo[i]) = fifo[i]
  <2> DEFINE j == job[i]
             s == fifo[i]
  <2>1. j \in Job /\ s \in Seq(Job) /\ Todo[i] = <<j>> \o s
    BY <1>1, <1>2, <1>3
  <2> HIDE DEF j, s
  <2>2. <<j>> \o s # <<>> /\ Head(<<j>> \o s) = j /\ Tail(<<j>> \o s) = s
    BY <2>1, ConsHead
  <2>3. QED
    BY <2>1, <2>2 DEF j, s
<1>4. UNCHANGED <<head, job, fifo, notified>> => Todo' = Todo
  BY DEF Todo, Unreported, Queues
<1>5. CASE WriterDone
  <2> DEFINE q == h2m[1].id.q
  <2>1. /\ q \in Queues /\ Unreported(q)
        /\ moved' = [moved EXCEPT ![q] = moved'[q]]
        /\ moved'[q] \in moved[q] + 1 .. job[q].len
    BY <1>5, WriterTrack
  <2>2. UNCHANGED <<head, job, fifo, notified>>
    BY <1>5 DEF WriterDone, sched, history
  <2> HIDE DEF q
  <2>3. Todo' = Todo /\ Todo[q] # <<>> /\ Head(Todo[q]) = job[q]
    BY <1>3, <1>4, <2>1, <2>2
  <2>4. Delivery!Move(q)
    BY <2>1, <2>2, <2>3 DEF Delivery!Move
  <2>5. QED
    BY <2>1, <2>4 DEF Delivery!Next
<1>6. CASE Notify
  <2>1. /\ out \in Queues /\ Unreported(out) /\ moved[out] = job[out].len
        /\ moved' = [moved EXCEPT ![out] = 0]
        /\ notified' = Append(notified, job[out].id)
        /\ \A i \in Queues : Unreported(i)' <=> Unreported(i) /\ i # out
    BY <1>6, NotifyTrack
  <2>2. UNCHANGED <<job, fifo>>
    BY <1>6 DEF Notify, sched, history
  <2>3. Todo[out] # <<>> /\ Head(Todo[out]) = job[out] /\ Tail(Todo[out]) = fifo[out]
    BY <1>3, <2>1
  <2>4. Todo' = [Todo EXCEPT ![out] = Tail(@)]
    <3> DEFINE t == [Todo EXCEPT ![out] = Tail(@)]
    <3>1. /\ Todo' = [i \in Queues |-> Todo'[i]] /\ t = [i \in Queues |-> t[i]]
      BY DEF Todo, Queues
    <3>2. \A i \in Queues : t[i] = IF i = out THEN fifo[i] ELSE Todo[i]
      <4>1. Todo = [i \in Queues |-> Todo[i]]
        BY DEF Todo
      <4>2. QED
        BY <2>3, <4>1
    <3> HIDE DEF t
    <3>3. ASSUME NEW i \in Queues PROVE Todo'[i] = t[i]
      <4>1. Todo'[i] = IF Unreported(i)' THEN <<job'[i]>> \o fifo'[i] ELSE fifo'[i]
        BY DEF Todo, Queues
      <4>2. Unreported(i)' <=> Unreported(i) /\ i # out
        BY <2>1
      <4>3. QED
        BY <1>1, <2>2, <3>2, <4>1, <4>2
    <3>4. QED
      BY <3>1, <3>3 DEF t
  <2>5. Delivery!Report(out)
    BY <2>1, <2>3, <2>4 DEF Delivery!Report
  <2>6. QED
    BY <2>1, <2>5 DEF Delivery!Next
<1>7. CASE UNCHANGED <<head, job, fifo, notified, moved>>
  BY <1>4, <1>7 DEF Delivery!vars
<1>8. ASSUME NEW i \in Queues, NEW c \in Cmds, Post(i, c)
      PROVE  UNCHANGED <<head, job, fifo, notified, moved>>
  BY <1>8 DEF Post, sched, history
<1>9. QdmaReady \/ WriterStart \/ UNCHANGED vars
        => UNCHANGED <<head, job, fifo, notified, moved>>
  BY DEF QdmaReady, WriterStart, vars, sched, history
<1>10. QED
  BY <1>5, <1>6, <1>7, <1>8, <1>9 DEF Environment

(* The host-to-device path does what OrderedDelivery promises: each flow's   *)
(* commands are carried out one at a time in the order in which they were    *)
(* posted, each moves its data from the first beat to the last, and each is  *)
(* reported once, when all of it has been moved.                             *)
THEOREM DeliveryCorrect ==
  ASSUME Lat =< Hold + 3, \A c \in Cmds : Fits(c)
  PROVE  Spec => ImplementsDelivery
<1>1. Init => Delivery!Init
  <2> SUFFICES ASSUME Init PROVE Delivery!Init
    OBVIOUS
  <2>1. Todo = [i \in Queues |-> <<>>]
    BY DEF Todo, Unreported, Init, IdleHead
  <2>2. QED
    BY <2>1 DEF Init, Delivery!Init
<1>2. TypeOK /\ AllFlags /\ CompletionsInv /\ PacketsInv /\ DeliveryInv /\ [Next]_vars
        => DeliveryInv'
  BY NextDelivery
<1>3. TypeOK /\ AllFlags /\ CompletionsInv /\ DeliveryInv /\ [Next]_vars
        => [Delivery!Next]_Delivery!vars
  BY TickDelivers, OtherDelivers DEF Next
<1>4. QED
  BY <1>1, <1>2, <1>3, InitDelivery, TypeCorrect, FlagsKept, CompletionsKept, PacketsKept,
     PTL DEF Spec, ImplementsDelivery, Delivery!Spec
=============================================================================
