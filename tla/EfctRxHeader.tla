---------------------------- MODULE EfctRxHeader ----------------------------
(***************************************************************************)
(* The fields of an EFCT rx metadata header that decide what efct_poll_rx *)
(* does with the packet it describes, and the classification of           *)
(* efct_vi.c: the coarse CHECK_FIELDS test, header_status_flags and the   *)
(* rx_discard_mask.  A field holds a symbolic value for each encoding the *)
(* code distinguishes; the OK/zero encodings are the all-zero bits.       *)
(***************************************************************************)
EXTENDS FiniteSets

L2Status == {"OK", "FCS_ERR", "LEN_ERR"}
L2Class  == {"ETH", "OTHER"}
L3Class  == {"IP4", "IP6", "OTHER"}
L4Class  == {"TCP", "UDP", "OTHER"}

Header == [l2_status : L2Status, l2_class : L2Class,
           l3_class : L3Class, l3_status : {0, 1},
           l4_class : L4Class, l4_status : {0, 1},
           rollover : {0, 1}]

(* The EF_VI_DISCARD_RX_* flags the code knows of. *)
DiscardFlags == {"ETH_FCS_ERR", "ETH_LEN_ERR", "L3_CSUM_ERR", "L4_CSUM_ERR",
                 "L2_CLASS_OTHER", "L3_CLASS_OTHER", "L4_CLASS_OTHER"}

(* Mutant: the flags are stored without masking off unknown bits. *)
efct_ef_vi_receive_set_discards_unmasked(flags) == flags

(* efct_ef_vi_receive_set_discards keeps exactly the known flags. *)
efct_ef_vi_receive_set_discards(flags) == flags \cap DiscardFlags

(* The mask efct_vi_init installs. *)
DefaultDiscardMask == {"L4_CSUM_ERR", "L3_CSUM_ERR", "ETH_FCS_ERR", "ETH_LEN_ERR"}

(* Mutant: CHECK_FIELDS leaves out the L4 status field. *)
CheckFields_no_l4(h) ==
  h.l2_status # "OK" \/ h.l3_status # 0 \/ h.rollover # 0

(* header->u64[0] & CHECK_FIELDS: any of the L2/L3/L4 status fields or    *)
(* the rollover bit is non-zero.                                          *)
CheckFields(h) ==
  h.l2_status # "OK" \/ h.l3_status # 0 \/ h.l4_status # 0 \/ h.rollover # 0

header_status_flags(h) ==
     (IF h.l2_status = "FCS_ERR" THEN {"ETH_FCS_ERR"} ELSE {})
  \cup (IF h.l2_status = "LEN_ERR" THEN {"ETH_LEN_ERR"} ELSE {})
  \cup (IF h.l3_class \in {"IP4", "IP6"} /\ h.l3_status # 0
          THEN {"L3_CSUM_ERR"} ELSE {})
  \cup (IF h.l4_class \in {"TCP", "UDP"} /\ h.l4_status # 0
          THEN {"L4_CSUM_ERR"} ELSE {})
  \cup (IF h.l4_class = "OTHER" THEN {"L4_CLASS_OTHER"} ELSE {})
  \cup (IF h.l3_class = "OTHER" THEN {"L3_CLASS_OTHER"} ELSE {})
  \cup (IF h.l2_class = "OTHER" THEN {"L2_CLASS_OTHER"} ELSE {})

(* What efct_poll_rx does with a header whose sentinel is valid: the      *)
(* condition of its "course grained check" decides between the slow path *)
(* (rollover, or a discard event with the masked flags) and an RX_REF.     *)
(* The result is [kind, flags] with kind "ROLLOVER", "RX_REF_DISCARD" or  *)
(* "RX_REF".                                                              *)
RxClassify(h, mask) ==
  LET discard_flags == header_status_flags(h) \cap mask
  IN  IF CheckFields(h) /\ (h.rollover # 0 \/ discard_flags # {})
        THEN IF h.rollover # 0
               THEN [kind |-> "ROLLOVER", flags |-> {}]
               ELSE [kind |-> "RX_REF_DISCARD", flags |-> discard_flags]
        ELSE [kind |-> "RX_REF", flags |-> {}]

=============================================================================
