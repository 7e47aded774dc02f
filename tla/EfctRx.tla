------------------------------- MODULE EfctRx -------------------------------
(***************************************************************************)
(* The receive engine of efct_vi.c for one rxq of a VI, together with the *)
(* agents it shares memory with:                                          *)
(*   - the NIC, which writes a metadata header into each packet slot of a *)
(*     superbuf; the header in slot k describes the packet in slot k-1,   *)
(*     and slot 0 describes the last packet of the previous superbuf;     *)
(*   - the resource manager behind vi->efct_rxqs.ops, which hands the NIC *)
(*     free superbufs, gives them to the VI through ops->next in sequence *)
(*     order and takes them back through ops->free;                       *)
(*   - the application, which polls, and releases every packet reference  *)
(*     an event gave it through efct_vi_rxpkt_release;                    *)
(*   - whoever bumps *live.config_generation.                            *)
(*                                                                         *)
(* The VI's state is rxq_ptr (next, prev, end), the superbuf descriptors  *)
(* (refcnt, superbuf_pkts) and the cached config_generation.  efct_poll_rx*)
(* is one action: a concurrent NIC write between two iterations of its    *)
(* loop is the same as an atomic poll with a smaller evs_len, because the *)
(* loop consumes a prefix of the headers the NIC has written in order.    *)
(***************************************************************************)
EXTENDS Integers, Sequences, SequencesExt, FiniteSets, EfctPktId, EfctRxHeader

CONSTANTS
  Qix,          \* index of the modelled rxq in vi->efct_rxqs.q
  SB,           \* local superbuf indices of this rxq
  SbPkts,       \* *live.superbuf_pkts, packets per superbuf
  SeqBits,      \* width of the superbuf sequence numbers ops->next returns
  MaxSuperbufs, \* the NIC starts at most this many superbufs (and drops)
  MaxEvs,       \* largest evs_len the application passes
  MaxGen,       \* bound on *live.config_generation
  Hdrs,         \* headers the NIC may write for a packet (rollover = 0)
  RxDiscardMask,\* vi->rx_discard_mask
  Sleeps,       \* whether the application blocks on the wakeup it arms
  Stamps,       \* whether header timestamps are told apart (else all 0)
  NoSb, NoPkt, NoWake   \* "none" model values

ASSUME Qix \in 0 .. EF_VI_MAX_EFCT_RXQS - 1
ASSUME SB \subseteq 0 .. CI_EFCT_MAX_SUPERBUFS - 1 /\ SB # {}
ASSUME SbPkts \in 1 .. 2^PKT_ID_PKT_BITS - 1
ASSUME SeqBits \in 1 .. 32 /\ MaxSuperbufs \in Nat /\ MaxEvs \in Nat \ {0}
ASSUME Hdrs \subseteq Header /\ \A h \in Hdrs : h.rollover = 0
ASSUME RxDiscardMask \subseteq DiscardFlags /\ Sleeps \in BOOLEAN /\ Stamps \in BOOLEAN

(* The header the NIC writes to end a superbuf early. *)
RolloverHdr == [CHOOSE h \in Hdrs : TRUE EXCEPT !.rollover = 1]

Slots == 0 .. SbPkts - 1
SbSeqMod == 2^SeqBits
U16 == 2^16

PktId(sb, ix) == RolloverPktId(Qix, sb) + ix
(* pkt_id_to_local_superbuf_ix and pkt_id_to_index_in_superbuf by        *)
(* arithmetic: MCEfctPktId checks that the code's masks and shifts agree  *)
(* with these, and they are far cheaper for TLC to evaluate.              *)
SbOf(pkt_id) == (pkt_id \div 2^PKT_ID_PKT_BITS) % CI_EFCT_MAX_SUPERBUFS
IxOf(pkt_id) == pkt_id % 2^PKT_ID_PKT_BITS
PktIds == {PktId(sb, ix) : sb \in SB, ix \in 0 .. SbPkts}

(* Whether the mask discards a packet with metadata m, by the table of    *)
(* header_status_flags; and the packet ids of a history.                 *)
Discarded(m) == header_status_flags(m) \cap RxDiscardMask # {}
PktsOf(log) == [i \in DOMAIN log |-> log[i].pkt]

VARIABLES
  rxq_ptr,           \* vi->ep_state->rxq.rxq_ptr[Qix]
  desc,              \* the efct_rx_descriptor of each superbuf of the rxq
  config_generation, \* vi->efct_rxqs.q[Qix].config_generation
  live_gen,          \* *live.config_generation
  owner,             \* who holds each superbuf: "rm", "nic" (posted) or "vi"
  sentinel,          \* sentinel of each superbuf's current use
  hdr,               \* hdr[sb][slot]: [sentinel, meta, ts] in superbuf
                     \* memory; ts is the arrival number (the position in
                     \* nicLog) of the packet the header describes
  avail,             \* superbufs the NIC has started, not yet taken by ops->next
  nic,               \* NIC fill position: superbuf, slot, sequence, the
                     \* packet whose header it writes next, and the
                     \* (sequence, slot) of the last header it wrote
  refs,              \* packet ids the application holds from events
  nicLog,            \* history: packets whose describing header the NIC
                     \* wrote, each with whether that header has an error
                     \* the mask discards
  viLog,             \* history: the events the VI emitted, each a packet
                     \* id and whether the event is a discard
  freeErr,           \* history: ops->free was called on a superbuf the VI
                     \* did not hold
  armed              \* the (sbseq, pktix) the resource manager armed a
                     \* wakeup at for the sleeping application, or NoWake

vars == <<rxq_ptr, desc, config_generation, live_gen, owner, sentinel, hdr,
          avail, nic, refs, nicLog, viLog, freeErr, armed>>

-----------------------------------------------------------------------------
(* The VI's side of the state as one record, so that the steps of a       *)
(* handler compose as functions on it.                                     *)
VIState == [ptr |-> rxq_ptr, desc |-> desc, cfg |-> config_generation,
            owner |-> owner, avail |-> avail, freeErr |-> freeErr,
            evs |-> <<>>]

SetVIState(s) ==
  /\ rxq_ptr' = s.ptr /\ desc' = s.desc /\ config_generation' = s.cfg
  /\ owner' = s.owner /\ avail' = s.avail /\ freeErr' = s.freeErr

efct_rxq_need_rollover(ptr) == rxq_ptr_to_pkt_id(ptr.next) >= ptr.end

efct_rxq_need_config == live_gen # config_generation

(* efct_rx_next_header: the header at next if its sentinel matches. *)
NextHeaderValid(ptr) ==
  LET p == rxq_ptr_to_pkt_id(ptr.next)
  IN  hdr[SbOf(p)][IxOf(p)].sentinel = rxq_ptr_to_sentinel(ptr.next)

(* ops->free(vi, qid, sb) *)
OpsFree(s, sb) ==
  [s EXCEPT !.owner[sb] = "rm", !.freeErr = @ \/ s.owner[sb] # "vi"]

(* Mutant: the superbuf is freed one release early. *)
efct_vi_rxpkt_release_early(s, pkt_id) ==
  LET sb == SbOf(pkt_id)
      r  == (s.desc[sb].refcnt - 1) % U16
      s1 == [s EXCEPT !.desc[sb].refcnt = r]
  IN  IF r <= 1 THEN OpsFree(s1, sb) ELSE s1

(* efct_vi_rxpkt_release: refcnt is a uint16_t. *)
efct_vi_rxpkt_release(s, pkt_id) ==
  LET sb == SbOf(pkt_id)
      r  == (s.desc[sb].refcnt - 1) % U16
      s1 == [s EXCEPT !.desc[sb].refcnt = r]
  IN  IF r = 0 THEN OpsFree(s1, sb) ELSE s1

(* Mutant: the sequence check compares with the last sequence itself.    *)
rx_rollover_seq_off(s) ==
  LET a      == Head(s.avail)
      pkt_id == RolloverPktId(Qix, a.sb)
      first  == s.ptr.end = 0
      gap    == ~first /\ a.seq # s.ptr.next.seq
      s1     == IF gap THEN efct_vi_rxpkt_release(s, s.ptr.prev) ELSE s
      skip   == IF first \/ gap THEN 1 ELSE 0
  IN  [s1 EXCEPT
         !.avail = Tail(@),
         !.owner[a.sb] = "vi",
         !.ptr = [next |-> [seq |-> a.seq, sentinel |-> a.sentinel,
                            pkt |-> pkt_id + skip],
                  prev |-> IF first \/ gap THEN pkt_id ELSE s.ptr.prev,
                  end  |-> pkt_id + SbPkts],
         !.desc[a.sb] = [@ EXCEPT !.refcnt = SbPkts, !.superbuf_pkts = SbPkts]]

(* Mutant: end is set one past the last packet of the superbuf. *)
rx_rollover_end_off(s) ==
  LET a      == Head(s.avail)
      pkt_id == RolloverPktId(Qix, a.sb)
      first  == s.ptr.end = 0
      gap    == ~first /\ a.seq # s.ptr.next.seq + 1
      s1     == IF gap THEN efct_vi_rxpkt_release(s, s.ptr.prev) ELSE s
      skip   == IF first \/ gap THEN 1 ELSE 0
  IN  [s1 EXCEPT
         !.avail = Tail(@),
         !.owner[a.sb] = "vi",
         !.ptr = [next |-> [seq |-> a.seq, sentinel |-> a.sentinel,
                            pkt |-> pkt_id + skip],
                  prev |-> IF first \/ gap THEN pkt_id ELSE s.ptr.prev,
                  end  |-> pkt_id + SbPkts + 1],
         !.desc[a.sb] = [@ EXCEPT !.refcnt = SbPkts, !.superbuf_pkts = SbPkts]]

(* rx_rollover after ops->next returned the head of avail. *)
rx_rollover(s) ==
  LET a      == Head(s.avail)
      pkt_id == RolloverPktId(Qix, a.sb)
      first  == s.ptr.end = 0
      gap    == ~first /\ a.seq # s.ptr.next.seq + 1
      s1     == IF gap THEN efct_vi_rxpkt_release(s, s.ptr.prev) ELSE s
      skip   == IF first \/ gap THEN 1 ELSE 0
  IN  [s1 EXCEPT
         !.avail = Tail(@),
         !.owner[a.sb] = "vi",
         !.ptr = [next |-> [seq |-> a.seq, sentinel |-> a.sentinel,
                            pkt |-> pkt_id + skip],
                  prev |-> IF first \/ gap THEN pkt_id ELSE s.ptr.prev,
                  end  |-> pkt_id + SbPkts],
         !.desc[a.sb] = [@ EXCEPT !.refcnt = SbPkts, !.superbuf_pkts = SbPkts]]

(* Mutant: the unused refs of a partly filled superbuf are counted one short. *)
HwRollover_nskipped_off(s) ==
  LET pkt_id   == s.ptr.prev
      prev_sb  == SbOf(pkt_id)
      next_sb  == SbOf(rxq_ptr_to_pkt_id(s.ptr.next))
      nskipped == IF next_sb = prev_sb THEN s.ptr.end - pkt_id - 1 ELSE 1
      s1       == IF next_sb = prev_sb THEN s ELSE OpsFree(s, next_sb)
      r        == (s1.desc[prev_sb].refcnt - nskipped) % U16
      s2       == [s1 EXCEPT !.desc[prev_sb].refcnt = r, !.ptr.end = 0]
  IN  IF r = 0 THEN OpsFree(s2, prev_sb) ELSE s2

(* The ROLLOVER branch of the loop of efct_poll_rx. *)
HwRollover(s) ==
  LET pkt_id   == s.ptr.prev
      prev_sb  == SbOf(pkt_id)
      next_sb  == SbOf(rxq_ptr_to_pkt_id(s.ptr.next))
      nskipped == IF next_sb = prev_sb THEN s.ptr.end - pkt_id ELSE 1
      s1       == IF next_sb = prev_sb THEN s ELSE OpsFree(s, next_sb)
      r        == (s1.desc[prev_sb].refcnt - nskipped) % U16
      s2       == [s1 EXCEPT !.desc[prev_sb].refcnt = r, !.ptr.end = 0]
  IN  IF r = 0 THEN OpsFree(s2, prev_sb) ELSE s2

(* Mutant: the packet is classified by the header in its own slot rather *)
(* than by the header after it.                                           *)
ConsumeHeader_own_slot(s, h) ==
  LET own == hdr[SbOf(s.ptr.prev)][IxOf(s.ptr.prev)].meta
      c == RxClassify(own, RxDiscardMask)
  IN  [s EXCEPT
         !.evs = Append(@, [type |-> c.kind, pkt |-> s.ptr.prev]),
         !.desc[SbOf(s.ptr.prev)].final_ts = h.ts,
         !.ptr.prev = rxq_ptr_to_pkt_id(s.ptr.next),
         !.ptr.next.pkt = @ + 1]

(* Mutant: the timestamp is stashed in the descriptor of next's superbuf. *)
ConsumeHeader_next_desc(s, h) ==
  LET c == RxClassify(h.meta, RxDiscardMask)
  IN  [s EXCEPT
         !.evs = Append(@, [type |-> c.kind, pkt |-> s.ptr.prev]),
         !.desc[SbOf(rxq_ptr_to_pkt_id(s.ptr.next))].final_ts = h.ts,
         !.ptr.prev = rxq_ptr_to_pkt_id(s.ptr.next),
         !.ptr.next.pkt = @ + 1]

(* One packet of the loop: emit an event for prev with the metadata of    *)
(* header h, stash h's timestamp in prev's descriptor (final_timestamp,   *)
(* read back only for the last packet of a superbuf), advance the pointer.*)
ConsumeHeader(s, h) ==
  LET c == RxClassify(h.meta, RxDiscardMask)
  IN  [s EXCEPT
         !.evs = Append(@, [type |-> c.kind, pkt |-> s.ptr.prev]),
         !.desc[SbOf(s.ptr.prev)].final_ts = h.ts,
         !.ptr.prev = rxq_ptr_to_pkt_id(s.ptr.next),
         !.ptr.next.pkt = @ + 1]

(* The for loop of efct_poll_rx, at most n iterations. *)
RECURSIVE RxLoop(_, _)
RxLoop(s, n) ==
  LET p == rxq_ptr_to_pkt_id(s.ptr.next)
      h == hdr[SbOf(p)][IxOf(p)]
  IN  IF n = 0 \/ h.sentinel # rxq_ptr_to_sentinel(s.ptr.next)
        THEN s
      ELSE IF RxClassify(h.meta, RxDiscardMask).kind = "ROLLOVER"
        THEN HwRollover(s)
      ELSE RxLoop(ConsumeHeader(s, h), n - 1)

MinOf(a, b) == IF a < b THEN a ELSE b

(* Mutant: the loop bound stops one packet short of the superbuf's end. *)
PollLoop_short(s, evs_len) ==
  RxLoop(s, MinOf(evs_len, s.ptr.end - rxq_ptr_to_pkt_id(s.ptr.next) - 1))

(* efct_poll_rx(vi, Qix, evs, evs_len) after any rollover, when the       *)
(* refresh (if one was needed) has succeeded.                             *)
PollLoop(s, evs_len) ==
  RxLoop(s, MinOf(evs_len, s.ptr.end - rxq_ptr_to_pkt_id(s.ptr.next)))

(* The state efct_poll_rx leaves, when ops->refresh (if called) returns  *)
(* ok.  A needed rollover for which ops->next has no superbuf returns 0   *)
(* at once; user-space caches the generation captured before the refresh *)
(* whatever its outcome, and returns no events when it failed.           *)
PollResult(evs_len, ok) ==
  LET s0 == VIState
      s1 == IF efct_rxq_need_rollover(s0.ptr) THEN rx_rollover(s0) ELSE s0
      s2 == IF efct_rxq_need_config THEN [s1 EXCEPT !.cfg = live_gen] ELSE s1
  IN  IF efct_rxq_need_rollover(s0.ptr) /\ s0.avail = <<>> THEN s0
      ELSE IF efct_rxq_need_config /\ ~ok THEN s2
      ELSE PollLoop(s2, evs_len)

(* Mutant: check_event forgets a pending config refresh. *)
efct_rxq_check_event_no_config ==
  IF efct_rxq_need_rollover(rxq_ptr) THEN avail # <<>>
  ELSE NextHeaderValid(rxq_ptr)

(* efct_rxq_check_event: "This must match the checks made in efct_poll_rx *)
(* to ensure none are missed."                                            *)
efct_rxq_check_event ==
  IF efct_rxq_need_rollover(rxq_ptr) THEN avail # <<>>
  ELSE efct_rxq_need_config \/ NextHeaderValid(rxq_ptr)

(* Mutant: the superbuf is taken as finished one packet early. *)
efct_vi_get_wakeup_params_early(ptr) ==
  LET ix == IxOf(rxq_ptr_to_pkt_id(ptr.next))
  IN  IF ix >= SbPkts - 1 THEN <<(ptr.next.seq + 1) % SbSeqMod, 0>>
      ELSE <<ptr.next.seq, ix>>

(* efct_vi_get_wakeup_params: the (sbseq, pktix) at which the resource    *)
(* manager arms the wakeup, from one read of rxq_ptr->next; past the last *)
(* packet of the superbuf it is slot 0 of the next sequence.              *)
efct_vi_get_wakeup_params(ptr) ==
  LET ix == IxOf(rxq_ptr_to_pkt_id(ptr.next))
  IN  IF ix >= SbPkts THEN <<(ptr.next.seq + 1) % SbSeqMod, 0>>
      ELSE <<ptr.next.seq, ix>>

(* Positions (sequence, slot) in the order the NIC writes them. *)
PosLeq(a, b) == a[1] < b[1] \/ (a[1] = b[1] /\ a[2] <= b[2])

(* efct_vi_rx_future_peek on this rxq: skip it while a rollover or a      *)
(* config refresh is pending, else read prev and look at its frame.  The  *)
(* frame of slot k lands with the header the NIC writes there (the poison *)
(* word before the frame is overwritten), so the peek finds a packet when *)
(* the header at prev is the current use's.  Result: prev, or NoPkt.      *)
FuturePeekReadsPrev ==
  ~(efct_rxq_need_rollover(rxq_ptr) \/ efct_rxq_need_config)

efct_vi_rx_future_peek ==
  LET pkt_id == rxq_ptr.prev
  IN  IF FuturePeekReadsPrev
         /\ hdr[SbOf(pkt_id)][IxOf(pkt_id)].sentinel = sentinel[SbOf(pkt_id)]
        THEN pkt_id ELSE NoPkt

(* efct_vi_rxpkt_get_timestamp: the timestamp of a packet is in the      *)
(* header after it, or, for the last packet of a superbuf, in the        *)
(* final_timestamp stashed in its descriptor when the header in slot 0 of *)
(* the next superbuf was consumed.  The timestamp status is always set.  *)
efct_vi_rxpkt_get_timestamp(pkt_id) ==
  LET d == desc[SbOf(pkt_id)]
  IN  IF IxOf(pkt_id) = d.superbuf_pkts - 1 THEN d.final_ts
      ELSE hdr[SbOf(pkt_id)][IxOf(pkt_id) + 1].ts

-----------------------------------------------------------------------------
(* Actions of the VI.                                                      *)

(* efct_poll_rx, with the outcome of ops->refresh chosen by the resource *)
(* manager; the events it returns hand their packet references to the   *)
(* application.                                                         *)
PollRx(evs_len) ==
  /\ armed = NoWake
  /\ \E ok \in BOOLEAN :
       LET s == PollResult(evs_len, ok)
       IN  /\ SetVIState(s)
           /\ refs' = refs \cup {s.evs[i].pkt : i \in DOMAIN s.evs}
           /\ viLog' = viLog \o [i \in DOMAIN s.evs |->
                          [pkt |-> s.evs[i].pkt,
                           discard |-> s.evs[i].type = "RX_REF_DISCARD"]]
  /\ UNCHANGED <<live_gen, sentinel, hdr, nic, nicLog, armed>>

(* The application releases one packet reference it holds. *)
RxpktRelease(pkt_id) ==
  /\ pkt_id \in refs
  /\ SetVIState(efct_vi_rxpkt_release(VIState, pkt_id))
  /\ refs' = refs \ {pkt_id}
  /\ UNCHANGED <<live_gen, sentinel, hdr, nic, nicLog, viLog, armed>>

(* The application finds no work (efct_rxq_check_event) and blocks: it   *)
(* asks efct_vi_get_wakeup_params where the resource manager should arm  *)
(* the wakeup.  efct_rxq_is_active holds: superbuf_pkts is attached.     *)
Sleep ==
  /\ Sleeps /\ armed = NoWake
  /\ ~efct_rxq_check_event
  /\ armed' = efct_vi_get_wakeup_params(rxq_ptr)
  /\ UNCHANGED <<rxq_ptr, desc, config_generation, live_gen, owner, sentinel,
                 hdr, avail, nic, refs, nicLog, viLog, freeErr>>

-----------------------------------------------------------------------------
(* Actions of the NIC, the resource manager and the config writer.         *)

(* The NIC needs a new superbuf: it takes one the resource manager posted *)
(* (flipping its sentinel; the slots left from earlier uses carry the     *)
(* other value), or finds none posted and drops: a nodesc drop that       *)
(* loses the metadata of the packet it was about to describe.             *)
NicStartSuperbuf ==
  /\ nic.sb = NoSb \/ nic.slot = SbPkts
  /\ nic.count < MaxSuperbufs
  /\ LET seq == (nic.seq + 1) % SbSeqMod
     IN  \/ \E sb \in SB :
              /\ owner[sb] = "rm"
              /\ owner' = [owner EXCEPT ![sb] = "nic"]
              /\ sentinel' = [sentinel EXCEPT ![sb] = 1 - @]
              /\ hdr' = [hdr EXCEPT ![sb] =
                           [i \in Slots |-> [@[i] EXCEPT !.sentinel = sentinel[sb]]]]
              /\ avail' = Append(avail, [sb |-> sb, seq |-> seq,
                                         sentinel |-> 1 - sentinel[sb]])
              /\ nic' = [nic EXCEPT !.sb = sb, !.slot = 0, !.seq = seq,
                                    !.count = @ + 1]
         \/ /\ nic' = [nic EXCEPT !.sb = NoSb, !.slot = 0, !.seq = seq,
                                    !.prev = NoPkt, !.count = @ + 1]
            /\ UNCHANGED <<owner, sentinel, hdr, avail>>
  /\ UNCHANGED <<rxq_ptr, desc, config_generation, live_gen, refs, nicLog,
                 viLog, freeErr, armed>>

(* The NIC writes the next header of its superbuf.  A header with the     *)
(* rollover bit marks the packet it describes as bogus and abandons the   *)
(* superbuf; the NIC only writes one when there is a packet to describe.  *)
NicWriteHeader ==
  /\ nic.sb # NoSb /\ nic.slot < SbPkts
  /\ \E m \in Hdrs \cup (IF nic.prev # NoPkt THEN {RolloverHdr} ELSE {}) :
       /\ hdr' = [hdr EXCEPT ![nic.sb][nic.slot] =
                    [sentinel |-> sentinel[nic.sb], meta |-> m,
                     ts |-> IF Stamps /\ nic.prev # NoPkt /\ m # RolloverHdr
                              THEN Len(nicLog) + 1 ELSE 0]]
       /\ IF m = RolloverHdr
            THEN /\ nic' = [nic EXCEPT !.sb = NoSb, !.prev = NoPkt,
                                       !.last = <<nic.seq, nic.slot>>]
                 /\ UNCHANGED nicLog
            ELSE /\ nic' = [nic EXCEPT !.slot = @ + 1,
                                       !.prev = PktId(nic.sb, nic.slot),
                                       !.last = <<nic.seq, nic.slot>>]
                 /\ nicLog' = IF nic.prev # NoPkt
                                THEN Append(nicLog, [pkt |-> nic.prev,
                                       discard |-> Discarded(m)])
                                ELSE nicLog
  /\ UNCHANGED <<rxq_ptr, desc, config_generation, live_gen, owner, sentinel,
                 avail, refs, viLog, freeErr, armed>>

(* The NIC writes the first header of a superbuf it has started: it      *)
(* starts one only for a packet that has arrived.                        *)
NicWriteFirstHeader == NicWriteHeader /\ nic.slot = 0

(* The resource manager's wakeup fires once the NIC has written a header *)
(* at or past the armed position.                                        *)
KernelWakeup ==
  /\ armed # NoWake
  /\ PosLeq(armed, nic.last)
  /\ armed' = NoWake
  /\ UNCHANGED <<rxq_ptr, desc, config_generation, live_gen, owner, sentinel,
                 hdr, avail, nic, refs, nicLog, viLog, freeErr>>

(* Another agent changes the rxq's configuration. *)
BumpConfigGeneration ==
  /\ live_gen < MaxGen
  /\ live_gen' = live_gen + 1
  /\ UNCHANGED <<rxq_ptr, desc, config_generation, owner, sentinel, hdr,
                 avail, nic, refs, nicLog, viLog, freeErr, armed>>

-----------------------------------------------------------------------------
(* efct_vi_start_rxq has set end = 0 and config_generation = 0; the rest  *)
(* of rxq_ptr is the zeroed shared state.  Superbuf memory holds          *)
(* sentinel 0 and the superbufs start with the resource manager.          *)
Init ==
  /\ rxq_ptr = [next |-> [seq |-> 0, sentinel |-> 0, pkt |-> 0],
                prev |-> 0, end |-> 0]
  /\ desc = [sb \in SB |-> [refcnt |-> 0, superbuf_pkts |-> 0, final_ts |-> 0]]
  /\ config_generation = 0
  /\ live_gen = 0
  /\ owner = [sb \in SB |-> "rm"]
  /\ sentinel = [sb \in SB |-> 0]
  /\ hdr = [sb \in SB |-> [i \in Slots |->
              [sentinel |-> 0, meta |-> CHOOSE h \in Hdrs : TRUE, ts |-> 0]]]
  /\ avail = <<>>
  /\ nic = [sb |-> NoSb, slot |-> 0, seq |-> 0, prev |-> NoPkt, count |-> 0,
            last |-> <<0, -1>>]
  /\ refs = {}
  /\ nicLog = <<>>
  /\ viLog = <<>>
  /\ freeErr = FALSE
  /\ armed = NoWake

Next ==
  \/ \E n \in 1 .. MaxEvs : PollRx(n)
  \/ \E p \in PktIds : RxpktRelease(p)
  \/ NicStartSuperbuf
  \/ NicWriteHeader
  \/ BumpConfigGeneration
  \/ Sleep
  \/ KernelWakeup

(* The application keeps polling and eventually releases what it holds.  *)
Fairness ==
  /\ WF_vars(\E n \in 1 .. MaxEvs : PollRx(n))
  /\ \A p \in PktIds : WF_vars(RxpktRelease(p))

Spec == Init /\ [][Next]_vars /\ Fairness

(* With a blocking application: the resource manager delivers an armed   *)
(* wakeup, and the NIC writes the first header of a superbuf it started. *)
WakeupSpec == Spec /\ WF_vars(KernelWakeup) /\ WF_vars(NicWriteFirstHeader)

-----------------------------------------------------------------------------
(* Properties.                                                             *)

TypeOK ==
  /\ rxq_ptr \in [next : [seq : Nat, sentinel : {0, 1}, pkt : {0} \cup PktIds],
                  prev : PktIds \cup {0}, end : {0} \cup PktIds]
  /\ desc \in [SB -> [refcnt : 0 .. U16 - 1, superbuf_pkts : 0 .. SbPkts,
                       final_ts : Nat]]
  /\ config_generation \in 0 .. MaxGen /\ live_gen \in 0 .. MaxGen
  /\ owner \in [SB -> {"rm", "nic", "vi"}]
  /\ sentinel \in [SB -> {0, 1}]
  /\ avail \in Seq([sb : SB, seq : 0 .. SbSeqMod - 1, sentinel : {0, 1}])
  /\ refs \subseteq PktIds
  /\ freeErr \in BOOLEAN

(* Refs of superbuf sb that rxq_ptr still holds for packets not yet       *)
(* delivered: from prev to the end of its superbuf, or the whole superbuf *)
(* next has rolled over to while prev is the last packet of the previous. *)
Pending(sb) ==
  IF rxq_ptr.end = 0 THEN 0
  ELSE IF SbOf(rxq_ptr.prev) = sb
    THEN desc[sb].superbuf_pkts - IxOf(rxq_ptr.prev)
  ELSE IF SbOf(rxq_ptr_to_pkt_id(rxq_ptr.next)) = sb
    THEN desc[sb].superbuf_pkts
  ELSE 0

(* Refcount conservation (rx_rollover preloads refcnt with every potential *)
(* packet; rxpkt_release, the nodesc-drop release and the two rollover     *)
(* skips take them back): the refcnt of every superbuf the VI holds is the *)
(* application's references into it plus the slots rxq_ptr has not yet    *)
(* passed, and so never reaches 0 while the VI still holds it.            *)
RefcntConservation ==
  \A sb \in SB : owner[sb] = "vi" =>
     /\ desc[sb].refcnt = Cardinality({p \in refs : SbOf(p) = sb}) + Pending(sb)
     /\ desc[sb].refcnt > 0

(* ops->free is only called on superbufs the VI holds (so each superbuf   *)
(* ops->next gave out is freed once), and no freed superbuf is still in   *)
(* use: not by an application reference, not by rxq_ptr while it is live  *)
(* (end # 0), and not by the NIC while it is filling it.                  *)
NoUseAfterFree ==
  /\ ~freeErr
  /\ \A p \in refs : owner[SbOf(p)] = "vi"
  /\ rxq_ptr.end # 0 =>
       /\ owner[SbOf(rxq_ptr.prev)] = "vi"
       /\ owner[SbOf(rxq_ptr_to_pkt_id(rxq_ptr.next))] = "vi"
  /\ nic.sb # NoSb /\ nic.slot < SbPkts => owner[nic.sb] # "rm"

(* Events name the packets whose metadata the NIC wrote, in the order it  *)
(* wrote them, each once, skipping none: across first rollovers, nodesc   *)
(* drops, hardware rollovers and the one-slot lag of metadata.            *)
RxInOrder == IsPrefix(PktsOf(viLog), PktsOf(nicLog))

(* Each event reports the errors of its own packet: the k-th event is a   *)
(* discard exactly when the header the NIC wrote to describe the k-th     *)
(* packet (the header in the slot after it, or in slot 0 of the next     *)
(* superbuf) has an error the mask selects.                              *)
RxDiscardsMatchMetadata ==
  \A i \in DOMAIN viLog : i <= Len(nicLog) => viLog[i].discard = nicLog[i].discard

(* No lost wakeup: whenever a poll would make progress (emit an event or   *)
(* change the VI's state), efct_rxq_check_event reports an event.          *)
NoLostWakeup == PollResult(MaxEvs, TRUE) # VIState => efct_rxq_check_event

(* Every packet whose metadata the NIC wrote is eventually delivered,     *)
(* given that the application keeps polling.                              *)
AllDelivered == <>[](Len(viLog) = Len(nicLog))

(* The EF_VI_ASSERT of efct_vi_rx_future_peek: whenever the peek gets   *)
(* past the rollover and config checks, the prev it reads is below end.  *)
FuturePeekInRange == FuturePeekReadsPrev => rxq_ptr.prev < rxq_ptr.end

(* Every packet reference the application holds reads back, through     *)
(* efct_vi_rxpkt_get_timestamp, the timestamp of its own arrival: the one *)
(* in the header the NIC wrote to describe it (the k-th event's packet    *)
(* arrived k-th), across the final_timestamp stash of poll, the reuse of  *)
(* superbufs and descriptors, and the NIC's later writes.                 *)
RxTimestampOwn ==
  \A p \in refs :
     efct_vi_rxpkt_get_timestamp(p) = SelectLastInSeq(viLog, LAMBDA e : e.pkt = p)

(* Work a packet brings: a header at next, or a superbuf to roll over to. *)
PacketWork ==
  IF efct_rxq_need_rollover(rxq_ptr) THEN avail # <<>>
  ELSE NextHeaderValid(rxq_ptr)

(* No lost wakeup for a blocked application: if packet work arrives while *)
(* it sleeps, the wakeup armed at efct_vi_get_wakeup_params's position    *)
(* fires.  Armed past the NIC's next relevant write (a superbuf taken as  *)
(* finished early, the slot skipped at the first rollover, the abandoned  *)
(* superbuf of a hardware rollover) it never would.                      *)
WakeupFires == (armed # NoWake /\ PacketWork) ~> (armed = NoWake)

=============================================================================
