--------------------------- MODULE MCEfctRxDiscard ---------------------------
(***************************************************************************)
(* Checks the event efct_poll_rx emits for a valid header (RxClassify of  *)
(* EfctRxHeader) against the discard table of the specification, for     *)
(* every header and every discard mask the application can install with  *)
(* receive_set_discards.  Each state is one (header, mask) pair; the mask *)
(* grows one flag per step from the empty mask.                           *)
(***************************************************************************)
EXTENDS EfctRxHeader

VARIABLES h, mask
vars == <<h, mask>>

(* A flag the application may pass that the code does not know. *)
UnknownFlag == "UNKNOWN"

Init == h \in Header /\ mask = {}

(* The application calls efct_ef_vi_receive_set_discards with the current *)
(* mask and one more flag, possibly one the code does not know.          *)
SetDiscards == \E f \in DiscardFlags \cup {UnknownFlag} :
                 /\ mask' = efct_ef_vi_receive_set_discards(mask \cup {f})
                 /\ UNCHANGED h

Next == SetDiscards

Spec == Init /\ [][Next]_vars

TypeOK == h \in Header /\ mask \subseteq DiscardFlags

(* The table of discard flags in the specification, one row per flag. *)
TableFlags(hd) ==
  { f \in DiscardFlags :
      CASE f = "ETH_FCS_ERR"    -> hd.l2_status = "FCS_ERR"
        [] f = "ETH_LEN_ERR"    -> hd.l2_status = "LEN_ERR"
        [] f = "L3_CSUM_ERR"    -> hd.l3_class \in {"IP4", "IP6"} /\ hd.l3_status = 1
        [] f = "L4_CSUM_ERR"    -> hd.l4_class \in {"TCP", "UDP"} /\ hd.l4_status = 1
        [] f = "L4_CLASS_OTHER" -> hd.l4_class = "OTHER"
        [] f = "L3_CLASS_OTHER" -> hd.l3_class = "OTHER"
        [] f = "L2_CLASS_OTHER" -> hd.l2_class = "OTHER" }

(* What the specification says the event for a header is: a rollover, a   *)
(* discard carrying the table's flags within the mask, or a normal RX_REF. *)
SpecClassify(hd, m) ==
  IF hd.rollover = 1 THEN [kind |-> "ROLLOVER", flags |-> {}]
  ELSE IF TableFlags(hd) \cap m # {}
    THEN [kind |-> "RX_REF_DISCARD", flags |-> TableFlags(hd) \cap m]
  ELSE [kind |-> "RX_REF", flags |-> {}]

StatusFlags == {"ETH_FCS_ERR", "ETH_LEN_ERR", "L3_CSUM_ERR", "L4_CSUM_ERR"}

(* For masks made of the status (error) flags, as the default one is, the *)
(* coarse CHECK_FIELDS test of efct_poll_rx loses nothing: every header   *)
(* gets the event and the flags the table gives it.                       *)
ClassifyMatchesTableForStatusFlags ==
  mask \subseteq StatusFlags => RxClassify(h, mask) = SpecClassify(h, mask)

(* For every mask receive_set_discards accepts, every header gets the     *)
(* event and flags of the table ("for any header, the emitted flag set    *)
(* equals the table").                                                    *)
ClassifyMatchesTable == RxClassify(h, mask) = SpecClassify(h, mask)

=============================================================================
