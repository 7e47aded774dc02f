----------------------------- MODULE MCEfctPoll -----------------------------
(* The poll multiplexer under sustained traffic: two active rxqs of        *)
(* 2-packet superbufs and the TX queue, polled with room for one or two   *)
(* events, while the NIC keeps writing packets and completions without    *)
(* end (the NIC holds at most two unread packets per rxq and one unread   *)
(* TX event).  The bounded-traffic instance is part of MCEfctUnits.       *)
EXTENDS EfctPoll
=============================================================================
