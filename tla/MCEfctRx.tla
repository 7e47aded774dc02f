------------------------------ MODULE MCEfctRx ------------------------------
EXTENDS EfctRx

(* A clean packet and one with a bad FCS, which the default mask discards. *)
HdrGood == [l2_status |-> "OK", l2_class |-> "ETH", l3_class |-> "IP4",
            l3_status |-> 0, l4_class |-> "UDP", l4_status |-> 0,
            rollover |-> 0]
HdrFcs  == [HdrGood EXCEPT !.l2_status = "FCS_ERR"]

(* Headers of the runs: clean packets only, and clean and FCS-errored    *)
(* packets mixed.                                                        *)
MCHdrs1 == {HdrGood}
MCHdrs == {HdrGood, HdrFcs}

=============================================================================
