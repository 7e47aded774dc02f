---------------------------- MODULE MCEfctUnits ----------------------------
(***************************************************************************)
(* The components that share no state with the RX and TX engines, checked *)
(* in one run.  They are independent, so the specification is their       *)
(* disjoint union: part, chosen at the start, says which component a      *)
(* behaviour belongs to, and the variables of the others do not change.   *)
(*                                                                         *)
(*  "stream"  EfctTxStream: a 16-word (128-byte) aperture, so that a      *)
(*            128-byte packet that starts half way wraps round its end;   *)
(*            iovecs that are empty, a single byte, a tail of 7, a word   *)
(*            and a byte, or a long block, up to three in a transmitv,    *)
(*            until 192 bytes have been charged to ct_added.              *)
(*  "pktid"   EfctPktId: one (rxq, superbuf, packet) triple at the        *)
(*            boundary values of the fields; Pick moves to any other.     *)
(*  "discard" MCEfctRxDiscard: every header with a growing discard mask.  *)
(*  "mux"     EfctPoll: two active rxqs of 2-packet superbufs and the TX  *)
(*            queue, polled with room for one or two events, while the    *)
(*            NIC delivers at most 4 packets or completions and the       *)
(*            resource manager makes one configuration change.            *)
(*  "free"    EfctSbFree: rxqs 0 and 7 (whose descriptors are far apart  *)
(*            in the shared array) with superbufs 0, 1 and 2047 each,      *)
(*            pushed and taken in any order.                              *)
(***************************************************************************)
EXTENDS Integers, FiniteSets

CONSTANTS RxqIx, SbIx, PktIx, NoWord, Unused

VARIABLES
  part,
  ap, ct_added, bug, last,                     \* EfctTxStream
  pid,                                         \* the pkt_id triple
  h, mask,                                     \* MCEfctRxDiscard
  rxq, live, txevs, arrived, cfgs, got, polls, \* EfctPoll
  head, sbid_next, held                        \* EfctSbFree

Stream  == INSTANCE EfctTxStream WITH ApertureWords <- 16,
             IovLens <- {0, 1, 7, 9, 57}, MaxIovs <- 3, MaxCtAdded <- 192
Mux     == INSTANCE EfctPoll WITH Active <- {0, 1}, SbPkts <- 2, AvailCap <- 2,
             EvsLens <- {1, 2}, TxQ <- TRUE, MaxTxEvs <- 1, Sustained <- FALSE,
             MaxArrivals <- 4, MaxCfg <- 1
Free    == INSTANCE EfctSbFree WITH Qs <- {0, 7}, Sbs <- {0, 1, 2047}, NoLink <- Unused
Discard == INSTANCE MCEfctRxDiscard
Pkt     == INSTANCE EfctPktId

svars == <<ap, ct_added, bug, last>>
dvars == <<h, mask>>
mvars == <<rxq, live, txevs, arrived, cfgs, got, polls>>
fvars == <<head, sbid_next, held>>
allvars == <<part, svars, pid, dvars, mvars, fvars>>

ASSUME RxqIx \subseteq 0 .. Pkt!EF_VI_MAX_EFCT_RXQS - 1
ASSUME SbIx  \subseteq 0 .. Pkt!CI_EFCT_MAX_SUPERBUFS - 1
ASSUME PktIx \subseteq 0 .. 2^Pkt!PKT_ID_PKT_BITS - 1

Triples == RxqIx \X SbIx \X PktIx

(* The variables of a part a behaviour does not belong to stay at the    *)
(* part's initial state when it has one, and Unused otherwise, so that    *)
(* its temporal formulas can be evaluated (and hold) in every behaviour.  *)
StreamIdle  == Stream!Init
PktIdle     == pid = Unused
DiscardIdle == h = Unused /\ mask = Unused
MuxIdle     == Mux!Init
FreeIdle    == Free!Init

Init ==
  \/ part = "stream"  /\ Stream!Init      /\ PktIdle /\ DiscardIdle /\ MuxIdle /\ FreeIdle
  \/ part = "pktid"   /\ pid \in Triples  /\ StreamIdle /\ DiscardIdle /\ MuxIdle /\ FreeIdle
  \/ part = "discard" /\ Discard!Init     /\ StreamIdle /\ PktIdle /\ MuxIdle /\ FreeIdle
  \/ part = "mux"     /\ Mux!Init         /\ StreamIdle /\ PktIdle /\ DiscardIdle /\ FreeIdle
  \/ part = "free"    /\ Free!Init        /\ StreamIdle /\ PktIdle /\ DiscardIdle /\ MuxIdle

(* Pick the next triple to decode. *)
Pick == \E t \in Triples : t # pid /\ pid' = t

Next ==
  \/ part = "stream"  /\ Stream!Next  /\ UNCHANGED <<part, pid, dvars, mvars, fvars>>
  \/ part = "pktid"   /\ Pick         /\ UNCHANGED <<part, svars, dvars, mvars, fvars>>
  \/ part = "discard" /\ Discard!Next /\ UNCHANGED <<part, svars, pid, mvars, fvars>>
  \/ part = "mux"     /\ Mux!Next     /\ UNCHANGED <<part, svars, pid, dvars, fvars>>
  \/ part = "free"    /\ Free!Next    /\ UNCHANGED <<part, svars, pid, dvars, mvars>>

(* The application keeps polling the multiplexer: weak fairness of its    *)
(* Poll, in the form EfctPoll explains.  The other parts have no liveness. *)
Spec == Init /\ [][Next]_allvars /\ (part = "mux" => []<><<Mux!Poll>>_allvars)

-----------------------------------------------------------------------------
(* Properties.                                                             *)

TypeOK ==
  /\ part = "stream"  => Stream!TypeOK
  /\ part = "discard" => Discard!TypeOK
  /\ part = "mux"     => Mux!TypeOK
  /\ part = "free"    => Free!TypeOK

(* The aperture holds the last packet exactly as the NIC must read it     *)
(* (EfctTxStream!ApertureHoldsPacket): header, payload across any iovec   *)
(* split, zero padding, across the wrap, in the words charged to ct_added. *)
ApertureHoldsPacket == part = "stream" => Stream!ApertureHoldsPacket

(* Decoding the id built by rx_rollover gives back the rxq, superbuf and  *)
(* packet it was built from, the id leaves bits 30 and 31 clear for the   *)
(* sentinel, and the code's masks and shifts agree with the reference.    *)
PktIdRoundTrip ==
  part = "pktid" =>
     LET q == pid[1]  sb == pid[2]  ix == pid[3]
         id == Pkt!RolloverPktId(q, sb) + ix
     IN  /\ id < 2^Pkt!PKT_ID_TOTAL_BITS
         /\ Pkt!pkt_id_to_index_in_superbuf(id) = ix
         /\ Pkt!pkt_id_to_local_superbuf_ix(id) = sb
         /\ Pkt!pkt_id_to_rxq_ix(id) = q
         /\ id % 2^Pkt!PKT_ID_PKT_BITS = ix
         /\ (id \div 2^Pkt!PKT_ID_PKT_BITS) % 2^Pkt!PKT_ID_SBUF_BITS = sb
         /\ id \div 2^(Pkt!PKT_ID_PKT_BITS + Pkt!PKT_ID_SBUF_BITS) = q

(* efct_rx_desc (rx path, rxpkt_release) and efct_rx_desc_for_sb (the    *)
(* free-list helpers) select the same descriptor for the same superbuf,  *)
(* and rxpkt_release frees the (rxq, superbuf) pair the packet came from. *)
DescLookupAgrees ==
  part = "pktid" =>
     LET q == pid[1]  sb == pid[2]  id == Pkt!RolloverPktId(q, sb) + pid[3]
     IN  /\ Pkt!efct_rx_desc(id) = Pkt!efct_rx_desc_for_sb(q, sb)
         /\ Pkt!efct_rx_desc_for_sb(Pkt!pkt_id_to_rxq_ix(id),
                                    Pkt!pkt_id_to_local_superbuf_ix(id))
              = Pkt!efct_rx_desc(id)

(* For masks of error flags, the coarse CHECK_FIELDS test of efct_poll_rx *)
(* loses nothing (MCEfctRxDiscard!ClassifyMatchesTableForStatusFlags).     *)
ClassifyMatchesTableForStatusFlags ==
  part = "discard" => Discard!ClassifyMatchesTableForStatusFlags

(* efct_ef_eventq_poll never writes past the caller's array             *)
(* (EfctPoll!PollWithinArray).                                           *)
PollWithinArray == part = "mux" => Mux!PollWithinArray

(* When efct_ef_eventq_check_event says there is nothing, no poll does   *)
(* anything (EfctPoll!CheckEventComplete).                                *)
CheckEventComplete == part = "mux" => Mux!CheckEventComplete

(* While the NIC's traffic is finite, every rxq with a packet waiting and *)
(* the TX queue with an event waiting is eventually served by a poll      *)
(* (EfctPoll!EveryQueueServed).                                           *)
EveryQueueServed == part = "mux" => Mux!EveryQueueServed

(* The free lists threaded through the shared descriptor array implement *)
(* a stack of distinct superbufs per rxq (SbFreeStack): whatever the     *)
(* order of pushes and takes on either rxq, following the sbid_next links *)
(* from each head reads exactly the superbufs pushed and not taken, most  *)
(* recent first, with no cycle and no entry of the other rxq.             *)
(* This is Free!Stack!Spec, restricted to the behaviours of the part.   *)
SbFreeRefinement ==
  /\ part = "free" => Free!Stack!Init
  /\ [][part = "free" => Free!Stack!Next]_<<part, Free!FreeLists>>

=============================================================================
