----------------------------- MODULE EfctPktId -----------------------------
(***************************************************************************)
(* The packet-id codec of efct_vi.c: a 32-bit id packs the packet index in *)
(* its superbuf (bits 0..15), the local superbuf index (bits 16..26) and   *)
(* the rxq index (bits 27..29); bit 31 is left free for a sentinel.        *)
(*                                                                         *)
(* The field widths are the real ones.  An rxq "pointer" (the low word of  *)
(* rxq_ptr->next) carries the sentinel in bit 31, a value TLC's 32-bit     *)
(* signed integers cannot hold, so a pointer is a record                   *)
(* [sentinel |-> s, pkt |-> id] and the masking of bit 31 is the           *)
(* projection onto the two fields.                                         *)
(***************************************************************************)
EXTENDS Integers, Bitwise

PKT_ID_PKT_BITS  == 16
PKT_ID_SBUF_BITS == 11
PKT_ID_RXQ_BITS  == 3
PKT_ID_TOTAL_BITS == PKT_ID_PKT_BITS + PKT_ID_SBUF_BITS + PKT_ID_RXQ_BITS

CI_EFCT_MAX_SUPERBUFS == 2048
EF_VI_MAX_EFCT_RXQS   == 8

(* Bits 0..15: the packet's slot in its superbuf. *)
pkt_id_to_index_in_superbuf(pkt_id) == pkt_id & (2^PKT_ID_PKT_BITS - 1)

(* Bits 16..29: rxq index and local superbuf index together. *)
pkt_id_to_global_superbuf_ix(pkt_id) == shiftR(pkt_id, PKT_ID_PKT_BITS)

(* Mutant: the superbuf mask is the count rather than the count minus one. *)
pkt_id_to_local_superbuf_ix_badmask(pkt_id) ==
  pkt_id_to_global_superbuf_ix(pkt_id) & CI_EFCT_MAX_SUPERBUFS

pkt_id_to_local_superbuf_ix(pkt_id) ==
  pkt_id_to_global_superbuf_ix(pkt_id) & (CI_EFCT_MAX_SUPERBUFS - 1)

pkt_id_to_rxq_ix(pkt_id) ==
  pkt_id_to_global_superbuf_ix(pkt_id) \div CI_EFCT_MAX_SUPERBUFS

(* Mutant: the rxq index is scaled by the number of rxqs. *)
efct_rx_desc_for_sb_badscale(qid, sbid) == (qid * EF_VI_MAX_EFCT_RXQS) | sbid

(* Descriptor slot of (qid, sbid) as efct_rx_desc_for_sb computes it, used *)
(* by the free-list helpers.                                               *)
efct_rx_desc_for_sb(qid, sbid) == (qid * CI_EFCT_MAX_SUPERBUFS) | sbid

(* Descriptor slot of a packet as efct_rx_desc computes it, used by the   *)
(* rx path and rxpkt_release.                                              *)
efct_rx_desc(pkt_id) == pkt_id_to_global_superbuf_ix(pkt_id)

(* The id rx_rollover builds for the first slot of superbuf sb of rxq q. *)
RolloverPktId(q, sb) == (q * CI_EFCT_MAX_SUPERBUFS + sb) * 2^PKT_ID_PKT_BITS

(* An rxq pointer with the sentinel in bit 31. *)
rxq_ptr_to_pkt_id(ptr)   == ptr.pkt
rxq_ptr_to_sentinel(ptr) == ptr.sentinel

=============================================================================
