--------------------------- MODULE ContextLayout ----------------------------
(***************************************************************************)
(* How the driver lays the contexts of queues and interrupt rings out in   *)
(* the words that it exchanges with the card, for the three kinds of       *)
(* card (qdma_access).  Each table below is what one function shifts and   *)
(* masks: where in the words each bit of each field of the structure is.   *)
(* The tables for writing and for reading are separate, as in the code.    *)
(* The masks' values are those of the register headers.                    *)
(***************************************************************************)
EXTENDS Integers

Bits(hi, lo)       == {<<lo + i, i>> : i \in 0..(hi - lo)}
Bit(b)             == {<<b, 0>>}
\* The bits of a field from bit from on.
Part(hi, lo, from) == {<<lo + i, from + i>> : i \in 0..(hi - lo)}

\* The fields in word w, as a set of <<word, bit, field, bit of the field>>.
Word(w, fields) ==
  UNION {{<<w, p[1], name, p[2]>> : p \in fields[name]} : name \in DOMAIN fields}

-----------------------------------------------------------------------------
\* The soft QDMA: qdma_soft_access.c.

qdma_fmap_write ==
       Word(0, [qbase |-> Bits(10, 0)])
  \cup Word(1, [qmax |-> Bits(11, 0)])

qdma_fmap_read ==
       Word(0, [qbase |-> Bits(10, 0)])
  \cup Word(1, [qmax |-> Bits(11, 0)])

qdma_sw_context_write ==
       Word(0, [pidx |-> Bits(15, 0), irq_arm |-> Bit(16), fnc_id |-> Bits(24, 17)])
  \cup Word(1, [qen |-> Bit(0), frcd_en |-> Bit(1), wbi_chk |-> Bit(2), wbi_intvl_en |-> Bit(3),
                at |-> Bit(4), fetch_max |-> Bits(7, 5), rngsz_idx |-> Bits(15, 12),
                desc_sz |-> Bits(17, 16), bypass |-> Bit(18), mm_chn |-> Bit(19),
                wbk_en |-> Bit(20), irq_en |-> Bit(21), port_id |-> Bits(24, 22),
                irq_no_last |-> Bit(25), err |-> Bits(27, 26), err_wb_sent |-> Bit(28),
                irq_req |-> Bit(29), mrkr_dis |-> Bit(30), is_mm |-> Bit(31)])
  \cup Word(2, [ring_bs_addr |-> Part(31, 0, 0)])
  \cup Word(3, [ring_bs_addr |-> Part(31, 0, 32)])
  \cup Word(4, [vec |-> Bits(10, 0), intr_aggr |-> Bit(11)])

qdma_sw_context_read ==
       Word(0, [pidx |-> Bits(15, 0), irq_arm |-> Bit(16), fnc_id |-> Bits(24, 17)])
  \cup Word(1, [qen |-> Bit(0), frcd_en |-> Bit(1), wbi_chk |-> Bit(2), wbi_intvl_en |-> Bit(3),
                at |-> Bit(4), fetch_max |-> Bits(7, 5), rngsz_idx |-> Bits(15, 12),
                desc_sz |-> Bits(17, 16), bypass |-> Bit(18), mm_chn |-> Bit(19),
                wbk_en |-> Bit(20), irq_en |-> Bit(21), port_id |-> Bits(24, 22),
                irq_no_last |-> Bit(25), err |-> Bits(27, 26), err_wb_sent |-> Bit(28),
                irq_req |-> Bit(29), mrkr_dis |-> Bit(30), is_mm |-> Bit(31)])
  \cup Word(2, [ring_bs_addr |-> Part(31, 0, 0)])
  \cup Word(3, [ring_bs_addr |-> Part(31, 0, 32)])
  \cup Word(4, [vec |-> Bits(10, 0), intr_aggr |-> Bit(11)])

\* What the card writes.
soft_hw_context ==
       Word(0, [cidx |-> Bits(15, 0), crd_use |-> Bits(31, 16)])
  \cup Word(1, [dsc_pend |-> Bit(8), idl_stp_b |-> Bit(9), evt_pnd |-> Bit(10),
                fetch_pnd |-> Bits(14, 11)])

soft_credit_context == Word(0, [credit |-> Bits(15, 0)])

qdma_hw_context_read ==
       Word(0, [cidx |-> Bits(15, 0), crd_use |-> Bits(31, 16)])
  \cup Word(1, [dsc_pend |-> Bit(8), idl_stp_b |-> Bit(9), evt_pnd |-> Bit(10),
                fetch_pnd |-> Bits(14, 11)])

qdma_credit_context_read ==
       Word(0, [credit |-> Bits(15, 0)])

qdma_pfetch_context_write ==
       Word(0, [bypass |-> Bit(0), bufsz_idx |-> Bits(4, 1), port_id |-> Bits(7, 5),
                err |-> Bit(26), pfch_en |-> Bit(27), pfch |-> Bit(28),
                sw_crdt |-> Part(31, 29, 0)])
  \cup Word(1, [sw_crdt |-> Part(12, 0, 3), valid |-> Bit(13)])

qdma_pfetch_context_read ==
       Word(0, [bypass |-> Bit(0), bufsz_idx |-> Bits(4, 1), port_id |-> Bits(7, 5),
                err |-> Bit(26), pfch_en |-> Bit(27), pfch |-> Bit(28),
                sw_crdt |-> Part(31, 29, 0)])
  \cup Word(1, [valid |-> Bit(13), sw_crdt |-> Part(12, 0, 3)])

qdma_cmpt_context_write ==
       Word(0, [en_stat_desc |-> Bit(0), en_int |-> Bit(1), trig_mode |-> Bits(4, 2),
                fnc_id |-> Bits(12, 5), counter_idx |-> Bits(20, 17), timer_idx |-> Bits(24, 21),
                in_st |-> Bits(26, 25), color |-> Bit(27), ringsz_idx |-> Bits(31, 28)])
  \cup Word(1, [bs_addr |-> Part(31, 6, 12)])
  \cup Word(2, [bs_addr |-> Part(25, 0, 38), desc_sz |-> Bits(27, 26), pidx |-> Part(31, 28, 0)])
  \cup Word(3, [pidx |-> Part(11, 0, 4), cidx |-> Bits(27, 12), valid |-> Bit(28),
                err |-> Bits(30, 29), user_trig_pend |-> Bit(31)])
  \cup Word(4, [timer_running |-> Bit(0), full_upd |-> Bit(1), ovf_chk_dis |-> Bit(2),
                at |-> Bit(3), vec |-> Bits(14, 4), int_aggr |-> Bit(15)])

qdma_cmpt_context_read ==
       Word(0, [en_stat_desc |-> Bit(0), en_int |-> Bit(1), trig_mode |-> Bits(4, 2),
                fnc_id |-> Bits(12, 5), counter_idx |-> Bits(20, 17), timer_idx |-> Bits(24, 21),
                in_st |-> Bits(26, 25), color |-> Bit(27), ringsz_idx |-> Bits(31, 28)])
  \cup Word(1, [bs_addr |-> Part(31, 6, 12)])
  \cup Word(2, [desc_sz |-> Bits(27, 26), bs_addr |-> Part(25, 0, 38), pidx |-> Part(31, 28, 0)])
  \cup Word(3, [cidx |-> Bits(27, 12), valid |-> Bit(28), err |-> Bits(30, 29),
                user_trig_pend |-> Bit(31), pidx |-> Part(11, 0, 4)])
  \cup Word(4, [timer_running |-> Bit(0), full_upd |-> Bit(1), ovf_chk_dis |-> Bit(2),
                at |-> Bit(3), vec |-> Bits(14, 4), int_aggr |-> Bit(15)])

qdma_indirect_intr_context_write ==
       Word(0, [valid |-> Bit(0), vec |-> Bits(11, 1), int_st |-> Bit(13), color |-> Bit(14),
                baddr_4k |-> Part(31, 15, 12)])
  \cup Word(1, [baddr_4k |-> Part(31, 0, 29)])
  \cup Word(2, [baddr_4k |-> Part(2, 0, 61), page_size |-> Bits(5, 3), pidx |-> Bits(17, 6),
                at |-> Bit(18)])

qdma_indirect_intr_context_read ==
       Word(0, [valid |-> Bit(0), vec |-> Bits(11, 1), int_st |-> Bit(13), color |-> Bit(14),
                baddr_4k |-> Part(31, 15, 12)])
  \cup Word(1, [baddr_4k |-> Part(31, 0, 29)])
  \cup Word(2, [page_size |-> Bits(5, 3), pidx |-> Bits(17, 6), at |-> Bit(18),
                baddr_4k |-> Part(2, 0, 61)])

-----------------------------------------------------------------------------
\* The EQDMA: eqdma_soft_access.c; its function map is the soft QDMA's.

eqdma_sw_context_write ==
       Word(0, [pidx |-> Bits(15, 0), irq_arm |-> Bit(16), fnc_id |-> Bits(28, 17)])
  \cup Word(1, [qen |-> Bit(0), frcd_en |-> Bit(1), wbi_chk |-> Bit(2), wbi_intvl_en |-> Bit(3),
                at |-> Bit(4), fetch_max |-> Bits(8, 5), rngsz_idx |-> Bits(15, 12),
                desc_sz |-> Bits(17, 16), bypass |-> Bit(18), mm_chn |-> Bit(19),
                wbk_en |-> Bit(20), irq_en |-> Bit(21), port_id |-> Bits(24, 22),
                irq_no_last |-> Bit(25), err |-> Bits(27, 26), err_wb_sent |-> Bit(28),
                irq_req |-> Bit(29), mrkr_dis |-> Bit(30), is_mm |-> Bit(31)])
  \cup Word(2, [ring_bs_addr |-> Part(31, 0, 0)])
  \cup Word(3, [ring_bs_addr |-> Part(31, 0, 32)])
  \cup Word(4, [vec |-> Bits(10, 0), intr_aggr |-> Bit(11), dis_intr_on_vf |-> Bit(12),
                virtio_en |-> Bit(13), pack_byp_out |-> Bit(14), irq_byp |-> Bit(15),
                host_id |-> Bits(19, 16), pasid |-> Part(31, 20, 0)])
  \cup Word(5, [pasid |-> Part(9, 0, 12), pasid_en |-> Bit(10),
                virtio_dsc_base |-> Part(31, 11, 0)])
  \cup Word(6, [virtio_dsc_base |-> Part(31, 0, 21)])
  \cup Word(7, [virtio_dsc_base |-> Part(10, 0, 53)])

eqdma_sw_context_read ==
       Word(0, [pidx |-> Bits(15, 0), irq_arm |-> Bit(16), fnc_id |-> Bits(28, 17)])
  \cup Word(1, [qen |-> Bit(0), frcd_en |-> Bit(1), wbi_chk |-> Bit(2), wbi_intvl_en |-> Bit(3),
                at |-> Bit(4), fetch_max |-> Bits(8, 5), rngsz_idx |-> Bits(15, 12),
                desc_sz |-> Bits(17, 16), bypass |-> Bit(18), mm_chn |-> Bit(19),
                wbk_en |-> Bit(20), irq_en |-> Bit(21), port_id |-> Bits(24, 22),
                irq_no_last |-> Bit(25), err |-> Bits(27, 26), err_wb_sent |-> Bit(28),
                irq_req |-> Bit(29), mrkr_dis |-> Bit(30), is_mm |-> Bit(31)])
  \cup Word(2, [ring_bs_addr |-> Part(31, 0, 0)])
  \cup Word(3, [ring_bs_addr |-> Part(31, 0, 32)])
  \cup Word(4, [vec |-> Bits(10, 0), intr_aggr |-> Bit(11), dis_intr_on_vf |-> Bit(12),
                virtio_en |-> Bit(13), pack_byp_out |-> Bit(14), irq_byp |-> Bit(15),
                host_id |-> Bits(19, 16), pasid |-> Part(31, 20, 0)])
  \cup Word(5, [pasid_en |-> Bit(10), pasid |-> Part(9, 0, 12),
                virtio_dsc_base |-> Part(31, 11, 0)])
  \cup Word(6, [virtio_dsc_base |-> Part(31, 0, 21)])
  \cup Word(6, [virtio_dsc_base |-> Part(10, 0, 53)])

\* What the card writes.
eqdma_hw_context ==
       Word(0, [cidx |-> Bits(15, 0), crd_use |-> Bits(31, 16)])
  \cup Word(1, [dsc_pend |-> Bit(8), idl_stp_b |-> Bit(9), evt_pnd |-> Bit(10),
                fetch_pnd |-> Bits(14, 11)])

eqdma_credit_context == Word(0, [credit |-> Bits(15, 0)])

eqdma_hw_context_read ==
       Word(0, [cidx |-> Bits(15, 0), crd_use |-> Bits(31, 16)])
  \cup Word(1, [dsc_pend |-> Bit(8), idl_stp_b |-> Bit(9), evt_pnd |-> Bit(10),
                fetch_pnd |-> Bit(8)])

eqdma_credit_context_read ==
       Word(0, [credit |-> Bits(15, 0)])

eqdma_pfetch_context_write ==
       Word(0, [bypass |-> Bit(0), bufsz_idx |-> Bits(4, 1), port_id |-> Bits(7, 5),
                num_pftch |-> Bits(15, 10), var_desc |-> Bit(8), err |-> Bit(26),
                pfch_en |-> Bit(27), pfch |-> Bit(28), sw_crdt |-> Part(31, 29, 0)])
  \cup Word(1, [sw_crdt |-> Part(12, 0, 3), valid |-> Bit(13)])

\* As if the upper part of the credits were taken one bit lower.
BadPfetchRead ==
       Word(0, [bypass |-> Bit(0), bufsz_idx |-> Bits(4, 1), num_pftch |-> Bits(15, 10),
                port_id |-> Bits(7, 5), var_desc |-> Bit(8), err |-> Bit(26), pfch_en |-> Bit(27),
                pfch |-> Bit(28), sw_crdt |-> Part(31, 29, 0)])
  \cup Word(1, [valid |-> Bit(13), sw_crdt |-> Part(12, 0, 2)])

eqdma_pfetch_context_read ==
       Word(0, [bypass |-> Bit(0), bufsz_idx |-> Bits(4, 1), num_pftch |-> Bits(15, 10),
                port_id |-> Bits(7, 5), var_desc |-> Bit(8), err |-> Bit(26), pfch_en |-> Bit(27),
                pfch |-> Bit(28), sw_crdt |-> Part(31, 29, 0)])
  \cup Word(1, [valid |-> Bit(13), sw_crdt |-> Part(12, 0, 3)])

eqdma_cmpt_context_write ==
       Word(0, [en_stat_desc |-> Bit(0), en_int |-> Bit(1), trig_mode |-> Bits(4, 2),
                fnc_id |-> Bits(16, 5), counter_idx |-> Bits(20, 17), timer_idx |-> Bits(24, 21),
                in_st |-> Bits(26, 25), color |-> Bit(27), ringsz_idx |-> Bits(31, 28)])
  \cup Word(1, [bs_addr |-> Part(31, 0, 6)])
  \cup Word(2, [bs_addr |-> Part(25, 0, 38), desc_sz |-> Bits(27, 26), pidx |-> Part(31, 28, 0)])
  \cup Word(3, [pidx |-> Part(11, 0, 4), cidx |-> Bits(27, 12), valid |-> Bit(28),
                err |-> Bits(30, 29), user_trig_pend |-> Bit(31)])
  \cup Word(4, [timer_running |-> Bit(0), full_upd |-> Bit(1), ovf_chk_dis |-> Bit(2),
                at |-> Bit(3), vec |-> Bits(14, 4), int_aggr |-> Bit(15),
                dis_intr_on_vf |-> Bit(16), vio |-> Bit(17), dir_c2h |-> Bit(18),
                host_id |-> Bits(22, 19), pasid |-> Part(31, 23, 0)])
  \cup Word(5, [pasid |-> Part(12, 0, 9), pasid_en |-> Bit(13), bs_addr |-> Part(17, 14, 2),
                vio_eop |-> Bit(18), sh_cmpt |-> Bit(19)])

eqdma_cmpt_context_read ==
       Word(0, [en_stat_desc |-> Bit(0), en_int |-> Bit(1), trig_mode |-> Bits(4, 2),
                fnc_id |-> Bits(16, 5), counter_idx |-> Bits(20, 17), timer_idx |-> Bits(24, 21),
                in_st |-> Bits(26, 25), color |-> Bit(27), ringsz_idx |-> Bits(31, 28)])
  \cup Word(1, [bs_addr |-> Part(31, 0, 6)])
  \cup Word(2, [desc_sz |-> Bits(27, 26), bs_addr |-> Part(25, 0, 38), pidx |-> Part(31, 28, 0)])
  \cup Word(3, [cidx |-> Bits(27, 12), valid |-> Bit(28), err |-> Bits(30, 29),
                user_trig_pend |-> Bit(31), pidx |-> Part(11, 0, 4)])
  \cup Word(4, [timer_running |-> Bit(0), full_upd |-> Bit(1), ovf_chk_dis |-> Bit(2),
                at |-> Bit(3), vec |-> Bits(14, 4), int_aggr |-> Bit(15),
                dis_intr_on_vf |-> Bit(16), vio |-> Bit(17), dir_c2h |-> Bit(18),
                host_id |-> Bits(22, 19), pasid |-> Part(31, 23, 0)])
  \cup Word(5, [pasid_en |-> Bit(13), vio_eop |-> Bit(18), sh_cmpt |-> Bit(19),
                bs_addr |-> Part(17, 14, 2), pasid |-> Part(12, 0, 9)])

eqdma_indirect_intr_context_write ==
       Word(0, [valid |-> Bit(0), vec |-> Bits(11, 1), int_st |-> Bit(13), color |-> Bit(14),
                baddr_4k |-> Part(31, 15, 12)])
  \cup Word(1, [baddr_4k |-> Part(31, 0, 29)])
  \cup Word(2, [baddr_4k |-> Part(2, 0, 61), page_size |-> Bits(5, 3), pidx |-> Bits(17, 6),
                at |-> Bit(18), host_id |-> Bits(22, 19), pasid |-> Part(31, 23, 0)])
  \cup Word(3, [pasid |-> Part(12, 0, 9), pasid_en |-> Bit(13), func_id |-> Bits(29, 18)])

eqdma_indirect_intr_context_read ==
       Word(0, [valid |-> Bit(0), vec |-> Bits(11, 1), int_st |-> Bit(13), color |-> Bit(14),
                baddr_4k |-> Part(31, 15, 12)])
  \cup Word(1, [baddr_4k |-> Part(31, 0, 29)])
  \cup Word(2, [page_size |-> Bits(5, 3), pidx |-> Bits(17, 6), at |-> Bit(18),
                host_id |-> Bits(22, 19), baddr_4k |-> Part(2, 0, 61), pasid |-> Part(30, 23, 0)])
  \cup Word(3, [pasid_en |-> Bit(13), func_id |-> Bits(29, 18), pasid |-> Part(12, 0, 9)])

-----------------------------------------------------------------------------
\* The Versal hard QDMA: qdma_s80_hard_access.c.

qdma_s80_hard_fmap_write ==
       Word(0, [qbase |-> Bits(10, 0), qmax |-> Bits(22, 11)])

qdma_s80_hard_fmap_read ==
       Word(0, [qbase |-> Bits(10, 0), qmax |-> Bits(22, 11)])

qdma_s80_hard_qid2vec_write ==
       Word(0, [c2h_vector |-> Bits(7, 0), c2h_en_coal |-> Bit(8), h2c_vector |-> Bits(16, 9),
                h2c_en_coal |-> Bit(17)])

qdma_s80_hard_qid2vec_read ==
       Word(0, [c2h_vector |-> Bits(7, 0), c2h_en_coal |-> Bit(8), h2c_vector |-> Bits(16, 9),
                h2c_en_coal |-> Bit(17)])

qdma_s80_hard_sw_context_write ==
       Word(0, [pidx |-> Bits(15, 0), irq_arm |-> Bit(16)])
  \cup Word(1, [qen |-> Bit(0), frcd_en |-> Bit(1), wbi_chk |-> Bit(2), wbi_intvl_en |-> Bit(3),
                fnc_id |-> Bits(11, 4), rngsz_idx |-> Bits(15, 12), desc_sz |-> Bits(17, 16),
                bypass |-> Bit(18), mm_chn |-> Bit(19), wbk_en |-> Bit(20), irq_en |-> Bit(21),
                port_id |-> Bits(24, 22), irq_no_last |-> Bit(25), err |-> Bits(27, 26),
                err_wb_sent |-> Bit(28), irq_req |-> Bit(29), mrkr_dis |-> Bit(30),
                is_mm |-> Bit(31)])
  \cup Word(2, [ring_bs_addr |-> Part(31, 0, 0)])
  \cup Word(3, [ring_bs_addr |-> Part(31, 0, 32)])

qdma_s80_hard_sw_context_read ==
       Word(0, [pidx |-> Bits(15, 0), irq_arm |-> Bit(16)])
  \cup Word(1, [qen |-> Bit(0), frcd_en |-> Bit(1), wbi_chk |-> Bit(2), wbi_intvl_en |-> Bit(3),
                fnc_id |-> Bits(11, 4), rngsz_idx |-> Bits(15, 12), desc_sz |-> Bits(17, 16),
                bypass |-> Bit(18), mm_chn |-> Bit(19), wbk_en |-> Bit(20), irq_en |-> Bit(21),
                port_id |-> Bits(24, 22), irq_no_last |-> Bit(25), err |-> Bits(27, 26),
                err_wb_sent |-> Bit(28), irq_req |-> Bit(29), mrkr_dis |-> Bit(30),
                is_mm |-> Bit(31)])
  \cup Word(2, [ring_bs_addr |-> Part(31, 0, 0)])
  \cup Word(3, [ring_bs_addr |-> Part(31, 0, 32)])

\* What the card writes.
s80_hw_context ==
       Word(0, [cidx |-> Bits(15, 0), crd_use |-> Bits(31, 16)])
  \cup Word(1, [dsc_pend |-> Bit(8), idl_stp_b |-> Bit(9),
                fetch_pnd |-> Bit(10)])

s80_credit_context == Word(0, [credit |-> Bits(15, 0)])

qdma_s80_hard_hw_context_read ==
       Word(0, [cidx |-> Bits(15, 0), crd_use |-> Bits(31, 16)])
  \cup Word(1, [dsc_pend |-> Bit(8), idl_stp_b |-> Bit(9), fetch_pnd |-> Bit(10)])

qdma_s80_hard_credit_context_read ==
       Word(0, [credit |-> Bits(15, 0)])

qdma_s80_hard_pfetch_context_write ==
       Word(0, [bypass |-> Bit(0), bufsz_idx |-> Bits(4, 1), port_id |-> Bits(7, 5),
                err |-> Bit(26), pfch_en |-> Bit(27), pfch |-> Bit(28),
                sw_crdt |-> Part(31, 29, 0)])
  \cup Word(1, [sw_crdt |-> Part(12, 0, 3), valid |-> Bit(13)])

qdma_s80_hard_pfetch_context_read ==
       Word(0, [bypass |-> Bit(0), bufsz_idx |-> Bits(4, 1), port_id |-> Bits(7, 5),
                err |-> Bit(26), pfch_en |-> Bit(27), pfch |-> Bit(28),
                sw_crdt |-> Part(31, 29, 0)])
  \cup Word(1, [valid |-> Bit(13), sw_crdt |-> Part(12, 0, 3)])

qdma_s80_hard_cmpt_context_write ==
       Word(0, [en_stat_desc |-> Bit(0), en_int |-> Bit(1), trig_mode |-> Bits(4, 2),
                fnc_id |-> Bits(12, 5), counter_idx |-> Bits(16, 13), timer_idx |-> Bits(20, 17),
                in_st |-> Bits(22, 21), color |-> Bit(23), ringsz_idx |-> Bits(27, 24),
                bs_addr |-> Part(31, 28, 6)])
  \cup Word(1, [bs_addr |-> Part(31, 0, 10)])
  \cup Word(2, [bs_addr |-> Part(21, 0, 42), desc_sz |-> Bits(23, 22), pidx |-> Part(31, 24, 0)])
  \cup Word(3, [pidx |-> Part(7, 0, 8), cidx |-> Bits(23, 8), valid |-> Bit(24),
                err |-> Bits(26, 25), user_trig_pend |-> Bit(27), timer_running |-> Bit(28),
                full_upd |-> Bit(29)])

qdma_s80_hard_cmpt_context_read ==
       Word(0, [en_stat_desc |-> Bit(0), en_int |-> Bit(1), trig_mode |-> Bits(4, 2),
                fnc_id |-> Bits(12, 5), counter_idx |-> Bits(16, 13), timer_idx |-> Bits(20, 17),
                in_st |-> Bits(22, 21), color |-> Bit(23), ringsz_idx |-> Bits(27, 24),
                bs_addr |-> Part(31, 28, 6)])
  \cup Word(1, [bs_addr |-> Part(31, 0, 10)])
  \cup Word(2, [desc_sz |-> Bits(23, 22), bs_addr |-> Part(21, 0, 42), pidx |-> Part(31, 24, 0)])
  \cup Word(3, [cidx |-> Bits(23, 8), valid |-> Bit(24), err |-> Bits(26, 25),
                user_trig_pend |-> Bit(27), timer_running |-> Bit(28), full_upd |-> Bit(29),
                pidx |-> Part(7, 0, 8)])

qdma_s80_hard_indirect_intr_context_write ==
       Word(0, [valid |-> Bit(0), vec |-> Bits(5, 1), int_st |-> Bit(7), color |-> Bit(8),
                baddr_4k |-> Part(31, 9, 12)])
  \cup Word(1, [baddr_4k |-> Part(28, 0, 35), page_size |-> Bits(31, 29)])
  \cup Word(2, [pidx |-> Bits(11, 0)])

qdma_s80_hard_indirect_intr_context_read ==
       Word(0, [valid |-> Bit(0), vec |-> Bits(5, 1), int_st |-> Bit(7), color |-> Bit(8),
                baddr_4k |-> Part(31, 9, 12)])
  \cup Word(1, [page_size |-> Bits(31, 29), baddr_4k |-> Part(28, 0, 35)])
  \cup Word(2, [pidx |-> Bits(11, 0)])

-----------------------------------------------------------------------------
(* The functions of each kind of card. *)

Pair(wr, rd) == [wr |-> wr, rd |-> rd]

Layout == [
  soft |-> [
    fmap   |-> Pair(qdma_fmap_write, qdma_fmap_read),
    sw     |-> Pair(qdma_sw_context_write, qdma_sw_context_read),
    hw     |-> Pair(soft_hw_context, qdma_hw_context_read),
    credit |-> Pair(soft_credit_context, qdma_credit_context_read),
    pftch  |-> Pair(qdma_pfetch_context_write, qdma_pfetch_context_read),
    cmpt   |-> Pair(qdma_cmpt_context_write, qdma_cmpt_context_read),
    intr   |-> Pair(qdma_indirect_intr_context_write, qdma_indirect_intr_context_read)],
  eqdma |-> [
    sw     |-> Pair(eqdma_sw_context_write, eqdma_sw_context_read),
    hw     |-> Pair(eqdma_hw_context, eqdma_hw_context_read),
    credit |-> Pair(eqdma_credit_context, eqdma_credit_context_read),
    pftch  |-> Pair(eqdma_pfetch_context_write, eqdma_pfetch_context_read),
    cmpt   |-> Pair(eqdma_cmpt_context_write, eqdma_cmpt_context_read),
    intr   |-> Pair(eqdma_indirect_intr_context_write, eqdma_indirect_intr_context_read)],
  s80 |-> [
    fmap    |-> Pair(qdma_s80_hard_fmap_write, qdma_s80_hard_fmap_read),
    qid2vec |-> Pair(qdma_s80_hard_qid2vec_write, qdma_s80_hard_qid2vec_read),
    sw      |-> Pair(qdma_s80_hard_sw_context_write, qdma_s80_hard_sw_context_read),
    hw      |-> Pair(s80_hw_context, qdma_s80_hard_hw_context_read),
    credit  |-> Pair(s80_credit_context, qdma_s80_hard_credit_context_read),
    pftch   |-> Pair(qdma_s80_hard_pfetch_context_write, qdma_s80_hard_pfetch_context_read),
    cmpt    |-> Pair(qdma_s80_hard_cmpt_context_write, qdma_s80_hard_cmpt_context_read),
    intr    |-> Pair(qdma_s80_hard_indirect_intr_context_write,
                     qdma_s80_hard_indirect_intr_context_read)]]

\* The widths of the structures' members.
Width(name) ==
  CASE name \in {"ring_bs_addr", "bs_addr", "baddr_4k", "virtio_dsc_base"} -> 64
    [] name \in {"pasid", "credit"} -> 32
    [] name \in {"qbase", "qmax", "vec", "pidx", "cidx", "crd_use", "sw_crdt", "num_pftch",
                 "func_id"} -> 16
    [] OTHER -> 8

\* The bits of a context that both the structure and the card hold.
Room(table) == {b \in {<<p[3], p[4]>> : p \in table} : b[2] < Width(b[1])}

Packed(table, context)  == {<<p[1], p[2]>> : p \in {p \in table : <<p[3], p[4]>> \in context}}
Unpacked(table, image)  == {<<p[3], p[4]>> : p \in {p \in table : <<p[1], p[2]>> \in image}}
                           \cap Room(table)

-----------------------------------------------------------------------------
VARIABLES
  lay,    \* the kind of card and of context, and what has been done
  given,  \* the context that was written, as the set of its one-bits
  image,  \* the words on the card, as the set of their one-bits
  back    \* the context that was read

layoutVars == <<lay, given, image, back>>

LayoutInit ==
  /\ lay = [card |-> "soft", kind |-> "sw", at |-> "start"]
  /\ given = {} /\ image = {} /\ back = {}

(* Shifts and masks act on every bit alone: contexts of one bit suffice. *)
WriteContext(card, kind, context) ==
  /\ lay.at = "start"
  /\ lay' = [card |-> card, kind |-> kind, at |-> "written"]
  /\ given' = context
  /\ image' = Packed(Layout[card][kind].wr, context)
  /\ UNCHANGED back

ReadContext ==
  /\ lay.at = "written"
  /\ lay' = [lay EXCEPT !.at = "read"]
  /\ back' = Unpacked(Layout[lay.card][lay.kind].rd, image)
  /\ UNCHANGED <<given, image>>

LayoutNext ==
  \/ \E card \in DOMAIN Layout : \E kind \in DOMAIN Layout[card] :
       \E bit \in Room(Layout[card][kind].wr) : WriteContext(card, kind, {bit})
  \/ ReadContext

LayoutSpec == LayoutInit /\ [][LayoutNext]_layoutVars

-----------------------------------------------------------------------------
(* A context that is read is the context that was written: the layouts for  *)
(* the two directions agree, no two fields share a bit of the words, and no *)
(* part of a field that is split over words is misplaced.                   *)
ReadBack == lay.at = "read" => back = given

(* The fields that the EQDMA's readers take from the wrong bits. *)
Misread(card, kind) ==
  IF card # "eqdma" THEN {}
  ELSE CASE kind = "sw"   -> {"virtio_dsc_base"}
         [] kind = "hw"   -> {"fetch_pnd"}
         [] kind = "intr" -> {"pasid"}
         [] OTHER         -> {}

(* All fields but three of the EQDMA's are read as they were written.       *)
LayoutsAgree ==
  lay.at = "read" =>
    LET kept(c) == {b \in c : b[1] \notin Misread(lay.card, lay.kind)}
    IN  kept(back) = kept(given)
=============================================================================
