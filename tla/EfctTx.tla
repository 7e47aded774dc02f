------------------------------- MODULE EfctTx -------------------------------
(***************************************************************************)
(* The transmit side of efct_vi.c and the NIC it drives.                  *)
(*                                                                         *)
(* The VI streams each packet into the CTPIO FIFO and records it in the   *)
(* descriptor ring at added (efct_tx_complete).  The NIC drains the FIFO  *)
(* in order and writes completion events into the event ring under the    *)
(* phase-bit protocol; efct_poll_tx reads them, retires descriptors       *)
(* (previous, ct_removed) and hands TX / TX_WITH_TIMESTAMP events to the  *)
(* application, which frees ring slots (removed) with                     *)
(* ef_vi_transmit_unbundle.  TIME_SYNC control events keep the VI's       *)
(* notion of the NIC's clock, under the unsolicited-credit scheme.        *)
(*                                                                         *)
(* Packet bytes, the aperture and the header words are data the           *)
(* properties do not read; a packet is its payload length and request id.*)
(***************************************************************************)
EXTENDS Integers, Sequences, SequencesExt, FiniteSets

CONSTANTS
  RingSize,      \* vi_txq.mask + 1
  TxFifoBytes,   \* design parameter tx_fifo_bytes
  EvqSize,       \* event ring entries (evq_mask + 1) / 8
  SeqBits,       \* EFCT_TX_EVENT_SEQUENCE_WIDTH
  UnsolMod,      \* unsol_credit_seq_mask + 1
  UnsolCap,      \* CI_CFG_TIME_SYNC_EVENT_EVQ_CAPACITY
  Lens,          \* payload lengths the application sends
  DmaIds,        \* request ids the application uses
  TxTimestamps,  \* EF_VI_TX_TIMESTAMPS in vi_flags
  NicErrors,     \* whether the NIC may report a TX error
  MaxAdded,      \* the application sends at most this many packets
  Sec0, MaxSecs, \* the NIC clock runs from second Sec0 for MaxSecs seconds
  POSTED_ID,     \* EFCT_TX_POSTED_ID
  ID_MASK,       \* EF_REQUEST_ID_MASK, the "ignore" request id
  NoSync

ASSUME RingSize \in {2^i : i \in 0 .. 16} /\ EvqSize \in {2^i : i \in 0 .. 16}
ASSUME Lens \subseteq Nat \ {0} /\ POSTED_ID \notin DmaIds /\ ID_MASK \notin DmaIds

EFCT_TX_ALIGNMENT    == 64
EFCT_TX_HEADER_BYTES == 8

(* efct_design_parameters: the FIFO size the VI may fill, reduced by one  *)
(* cache line and one header.                                              *)
CtFifoBytes == TxFifoBytes - EFCT_TX_ALIGNMENT - EFCT_TX_HEADER_BYTES

TxSeqMod == 2^SeqBits
RoundUp(n, a) == ((n + a - 1) \div a) * a

VARIABLES
  added, removed, previous,  \* vi->ep_state->txq counters
  ct_added, ct_removed,      \* bytes put into / retired from the CT FIFO
  ring,                      \* ring[i]: [len, id] of descriptor slot i
  last_ctpio_failed,         \* vi->last_ctpio_failed
  warm,                      \* WARM_FLAG of vi_txq.efct_fixed_header
  evq_ptr,                   \* vi->ep_state->evq.evq_ptr, in events
  unsol_credit_seq,          \* vi->ep_state->evq.unsol_credit_seq
  sync_major,                \* vi->ep_state->evq.sync_timestamp_major
  bug,                       \* the BUG_ONs of the VI that have fired
  evq,                       \* evq[k]: [phase, ev] of event ring entry k
  nic,                       \* NIC state: events written, packets completed,
                             \* unsolicited events since the last clear,
                             \* overflow pending, error sent
  unsol_reg,                 \* last value written to the credit register
  clock,                     \* NIC clock: [now, last second synced]
  app,                       \* application: events still to handle, and a
                             \* CTPIO send whose fallback is due
  postedLog, retLog          \* history: ids sent, and ids given back

vars == <<added, removed, previous, ct_added, ct_removed, ring,
          last_ctpio_failed, warm, evq_ptr, unsol_credit_seq, sync_major, bug,
          evq, nic, unsol_reg, clock, app, postedLog, retLog>>

nicVars == <<evq, nic, clock>>

-----------------------------------------------------------------------------
(* Mutant: the ring counts as full only once it holds more than its size. *)
ef_vi_transmit_space_bytes_ringoff ==
  IF added - removed > RingSize THEN 0
  ELSE CtFifoBytes - (ct_added - ct_removed)

(* ef_vi_transmit_space_bytes (ef_vi.h): the CT FIFO bytes not in use,    *)
(* and nothing once the descriptor ring is full.                          *)
ef_vi_transmit_space_bytes ==
  IF added - removed >= RingSize THEN 0
  ELSE CtFifoBytes - (ct_added - ct_removed)

(* Mutant: admission looks at the FIFO and not at the ring. *)
efct_tx_check_fifo_only(len) == CtFifoBytes - (ct_added - ct_removed) >= len

efct_tx_check(len) == ef_vi_transmit_space_bytes >= len

(* Mutant: the FIFO is charged the unpadded length. *)
TxDescLen_unpadded(len) == len + EFCT_TX_HEADER_BYTES

(* The FIFO bytes a packet of len payload bytes takes: header and payload *)
(* padded to the 64-byte alignment by efct_tx_complete.                    *)
TxDescLen(len) == RoundUp(len + EFCT_TX_HEADER_BYTES, EFCT_TX_ALIGNMENT)

(* efct_tx_complete: the descriptor and the counters. *)
efct_tx_complete(dma_id, len) ==
  /\ ring' = [ring EXCEPT ![added % RingSize] = [len |-> TxDescLen(len),
                                                  id  |-> dma_id]]
  /\ ct_added' = ct_added + TxDescLen(len)
  /\ added' = added + 1

-----------------------------------------------------------------------------
(* Transmit calls of the application.  It sends at most MaxAdded packets, *)
(* does not send while a CTPIO fallback is due, and sends only CTPIO      *)
(* packets while warming (the warm flag goes into every header).          *)
(* app.fallback is the length of the CTPIO frame whose fallback is due,  *)
(* or NoFallback.                                                          *)
NoFallback == 0

SendAllowed == added < MaxAdded /\ app.fallback = NoFallback

(* efct_ef_vi_transmit / efct_ef_vi_transmitv: -EAGAIN (no change) when  *)
(* the space check fails.                                                 *)
Transmit(len, dma_id) ==
  /\ SendAllowed /\ ~warm
  /\ efct_tx_check(len)
  /\ efct_tx_complete(dma_id, len)
  /\ postedLog' = Append(postedLog, dma_id)
  /\ UNCHANGED <<removed, previous, ct_removed, last_ctpio_failed, warm,
                 evq_ptr, unsol_credit_seq, sync_major, bug, unsol_reg, app,
                 retLog>>
  /\ UNCHANGED nicVars

(* efct_ef_vi_transmitv_ctpio: records a failed admission for the        *)
(* fallback; otherwise sends with a placeholder id (or the ignored id     *)
(* when warming, for which no fallback follows).                          *)
TransmitCtpio(len) ==
  /\ SendAllowed
  /\ last_ctpio_failed' = ~efct_tx_check(len)
  /\ IF efct_tx_check(len)
       THEN efct_tx_complete(IF warm THEN ID_MASK ELSE POSTED_ID, len)
       ELSE UNCHANGED <<ring, ct_added, added>>
  /\ app' = [app EXCEPT !.fallback = IF warm THEN NoFallback ELSE len]
  /\ UNCHANGED <<removed, previous, ct_removed, warm, evq_ptr,
                 unsol_credit_seq, sync_major, bug, unsol_reg, postedLog,
                 retLog>>
  /\ UNCHANGED nicVars

(* Mutant: the placeholder is looked for at added rather than added - 1. *)
efct_ef_vi_ctpio_fallback_at_added(dma_id) ==
  LET di == added % RingSize
  IN  /\ bug' = bug \cup (IF added = removed THEN {"fallback_empty"} ELSE {})
                    \cup (IF ring[di].id # POSTED_ID THEN {"fallback_id"} ELSE {})
      /\ ring' = [ring EXCEPT ![di].id = dma_id]

(* efct_ef_vi_ctpio_fallback: the two EF_VI_BUG_ONs and the id swap. *)
efct_ef_vi_ctpio_fallback(dma_id) ==
  LET di == (added - 1) % RingSize
  IN  /\ bug' = bug \cup (IF added = removed THEN {"fallback_empty"} ELSE {})
                    \cup (IF ring[di].id # POSTED_ID THEN {"fallback_id"} ELSE {})
      /\ ring' = [ring EXCEPT ![di].id = dma_id]

(* efct_ef_vi_transmit(v)_ctpio_fallback with the frame of the CTPIO send *)
(* it follows: re-sends it when CTPIO failed admission (-EAGAIN leaves    *)
(* the fallback due), else replaces the placeholder id.                   *)
CtpioFallback(dma_id) ==
  /\ app.fallback # NoFallback
  /\ IF last_ctpio_failed
       THEN /\ efct_tx_check(app.fallback)
            /\ efct_tx_complete(dma_id, app.fallback)
            /\ last_ctpio_failed' = FALSE
            /\ UNCHANGED bug
       ELSE /\ efct_ef_vi_ctpio_fallback(dma_id)
            /\ UNCHANGED <<ct_added, added, last_ctpio_failed>>
  /\ app' = [app EXCEPT !.fallback = NoFallback]
  /\ postedLog' = Append(postedLog, dma_id)
  /\ UNCHANGED <<removed, previous, ct_removed, warm, evq_ptr,
                 unsol_credit_seq, sync_major, unsol_reg, retLog>>
  /\ UNCHANGED nicVars

(* efct_vi_start_transmit_warm / efct_vi_stop_transmit_warm, whose       *)
(* EF_VI_ASSERTs on the current flag are the guards.                      *)
StartTransmitWarm ==
  /\ ~warm /\ app.fallback = NoFallback /\ warm' = TRUE
  /\ UNCHANGED <<added, removed, previous, ct_added, ct_removed, ring,
                 last_ctpio_failed, evq_ptr, unsol_credit_seq, sync_major, bug,
                 unsol_reg, app, postedLog, retLog>>
  /\ UNCHANGED nicVars

StopTransmitWarm ==
  /\ warm /\ warm' = FALSE
  /\ UNCHANGED <<added, removed, previous, ct_added, ct_removed, ring,
                 last_ctpio_failed, evq_ptr, unsol_credit_seq, sync_major, bug,
                 unsol_reg, app, postedLog, retLog>>
  /\ UNCHANGED nicVars

-----------------------------------------------------------------------------
(* The event ring.  Entry ptr % EvqSize holds a valid event for the       *)
(* reader at ptr when its phase bit is (ptr \div EvqSize) % 2, the bit    *)
(* efct_tx_get_event takes from evq_ptr & (evq_mask + 1).                 *)
Phase(ptr) == (ptr \div EvqSize) % 2

NoEvent == [type |-> "NONE"]

efct_tx_get_event(ptr) ==
  IF evq[ptr % EvqSize].phase = Phase(ptr) THEN evq[ptr % EvqSize].ev
  ELSE NoEvent

(* The VI's state that efct_poll_tx changes, as one record so that the   *)
(* handlers compose as functions on it.                                   *)
TxState == [previous |-> previous, ct_removed |-> ct_removed,
            removed |-> removed, evq_ptr |-> evq_ptr,
            unsol_credit_seq |-> unsol_credit_seq, sync_major |-> sync_major,
            bug |-> bug, unsol_reg |-> unsol_reg, nic |-> nic, evs |-> <<>>]

(* efct_grant_unsol_credit writes the masked sequence to the credit      *)
(* register; on a write with clear_overflow the NIC restarts its count   *)
(* of unsolicited events and may send them again.                        *)
efct_grant_unsol_credit(s, clear_overflow, credit_seq) ==
  [s EXCEPT !.unsol_reg = [seq |-> credit_seq % UnsolMod,
                           clear |-> clear_overflow],
            !.nic = IF clear_overflow
                      THEN [@ EXCEPT !.unsol = 0, !.overflow = FALSE]
                      ELSE @]

(* The do-while of efct_tx_handle_event: retire descriptors up to and    *)
(* including seq, compared in the event's SeqBits bits.                  *)
RECURSIVE RetireTo(_, _)
RetireTo(s, seq) ==
  IF s.previous % TxSeqMod = (seq + 1) % TxSeqMod THEN s
  ELSE IF s.previous = added
    THEN [s EXCEPT !.bug = @ \cup {"retire_past_added"}]
  ELSE RetireTo([s EXCEPT !.ct_removed = @ + ring[s.previous % RingSize].len,
                          !.previous = @ + 1], seq)

(* Mutant: the seconds of the event are compared without the wrap. *)
TxTimestampSec_nowrap(s, ev) ==
  s.sync_major + (IF ev.part = (s.sync_major % 256) + 1 THEN 1 ELSE 0)

(* ts_sec of a TX_WITH_TIMESTAMP event: the seconds of the last TIME_SYNC,*)
(* plus one when the event's partial seconds are the next second.         *)
TxTimestampSec(s, ev) ==
  s.sync_major + (IF ev.part = ((s.sync_major % 256) + 1) % 256 THEN 1 ELSE 0)

(* Mutant: a plain TX event reports the last retired descriptor rather  *)
(* than the one after it.                                                  *)
efct_tx_handle_event_desc_lag(s, ev) ==
  LET s1 == RetireTo(s, ev.seq)
  IN  IF ev.ts = 1
        THEN [s1 EXCEPT
                !.evs = Append(@, [type |-> "TX_WITH_TIMESTAMP",
                                   id |-> ring[(s1.previous - 1) % RingSize].id,
                                   sec |-> TxTimestampSec(s1, ev),
                                   true_sec |-> ev.sec]),
                !.removed = @ + 1]
        ELSE [s1 EXCEPT !.evs = Append(@, [type |-> "TX", desc_id |-> s1.previous - 1])]

(* efct_tx_handle_event.  A timestamped event delivers the id of the last *)
(* retired descriptor and counts as its removal; a plain one hands the    *)
(* application desc_id = previous for ef_vi_transmit_unbundle.            *)
efct_tx_handle_event(s, ev) ==
  LET s1 == RetireTo(s, ev.seq)
  IN  IF ev.ts = 1
        THEN [s1 EXCEPT
                !.evs = Append(@, [type |-> "TX_WITH_TIMESTAMP",
                                   id |-> ring[(s1.previous - 1) % RingSize].id,
                                   sec |-> TxTimestampSec(s1, ev),
                                   true_sec |-> ev.sec]),
                !.removed = @ + 1]
        ELSE [s1 EXCEPT !.evs = Append(@, [type |-> "TX", desc_id |-> s1.previous])]

(* Mutant: a TIME_SYNC grant also clears the overflow state. *)
efct_tx_handle_control_event_sync_clears(s, ev) ==
  CASE ev.sub = "ERROR" ->
         [s EXCEPT !.previous = @ + 1,
                   !.evs = Append(@, [type |-> "TX_ERROR", desc_id |-> s.previous + 1])]
    [] ev.sub = "FLUSH" -> s
    [] ev.sub = "TIME_SYNC" ->
         efct_grant_unsol_credit([s EXCEPT !.sync_major = ev.time,
                                           !.unsol_credit_seq = @ + 1],
                                 TRUE, s.unsol_credit_seq + 1)
    [] ev.sub = "UNSOL_OVERFLOW" ->
         efct_grant_unsol_credit([s EXCEPT !.unsol_credit_seq = UnsolCap - 1],
                                 TRUE, UnsolCap - 1)

(* efct_tx_handle_control_event with efct_tx_handle_error_event. *)
efct_tx_handle_control_event(s, ev) ==
  CASE ev.sub = "ERROR" ->
         [s EXCEPT !.previous = @ + 1,
                   !.evs = Append(@, [type |-> "TX_ERROR", desc_id |-> s.previous + 1])]
    [] ev.sub = "FLUSH" -> s
    [] ev.sub = "TIME_SYNC" ->
         efct_grant_unsol_credit([s EXCEPT !.sync_major = ev.time,
                                           !.unsol_credit_seq = @ + 1],
                                 FALSE, s.unsol_credit_seq + 1)
    [] ev.sub = "UNSOL_OVERFLOW" ->
         efct_grant_unsol_credit([s EXCEPT !.unsol_credit_seq = UnsolCap - 1],
                                 TRUE, UnsolCap - 1)

(* The while loop of efct_poll_tx: stop at the first entry whose phase   *)
(* does not match, and return right after one TX event.                  *)
RECURSIVE TxLoop(_, _)
TxLoop(s, evs_len) ==
  LET ev == efct_tx_get_event(s.evq_ptr)
      s1 == [s EXCEPT !.evq_ptr = @ + 1]
  IN  IF Len(s.evs) >= evs_len \/ ev = NoEvent THEN s
      ELSE IF ev.type = "TX" THEN efct_tx_handle_event(s1, ev)
      ELSE TxLoop(efct_tx_handle_control_event(s1, ev), evs_len)

(* efct_poll_tx: the overflow BUG_ON on the entry before evq_ptr, then   *)
(* the loop.  evq_ptr - 8 is unsigned in the code and the ring is a power *)
(* of two dividing 2^32, so the entry and phase before evq_ptr are those *)
(* of evq_ptr - 1 two laps on.                                            *)
efct_poll_tx(evs_len) ==
  LET s == TxState
  IN  TxLoop([s EXCEPT !.bug = @ \cup
                (IF efct_tx_get_event(evq_ptr + 2 * EvqSize - 1) = NoEvent
                   THEN {"evq_overflow"} ELSE {})], evs_len)

-----------------------------------------------------------------------------
(* The application's side of polling.                                     *)

(* efct_poll_tx.  The application polls only when it has handled the     *)
(* events of the last poll, and not between a CTPIO send that went out    *)
(* and its fallback.                                                      *)
PollTx(evs_len) ==
  /\ app.evs = <<>>
  /\ app.fallback = NoFallback \/ last_ctpio_failed
  /\ LET s == efct_poll_tx(evs_len)
     IN  /\ previous' = s.previous /\ ct_removed' = s.ct_removed
         /\ removed' = s.removed /\ evq_ptr' = s.evq_ptr
         /\ unsol_credit_seq' = s.unsol_credit_seq
         /\ sync_major' = s.sync_major /\ bug' = s.bug
         /\ unsol_reg' = s.unsol_reg /\ nic' = s.nic
         /\ app' = [app EXCEPT !.evs = s.evs]
  /\ UNCHANGED <<added, ct_added, ring, last_ctpio_failed, warm, evq, clock,
                 postedLog, retLog>>

(* Mutant: the unbundle stops one descriptor short of desc_id. *)
UnbundleIds_short(desc_id) ==
  SelectSeq([i \in 1 .. desc_id - removed - 1 |->
               ring[(removed + i - 1) % RingSize].id],
            LAMBDA id : id # ID_MASK)

(* ef_vi_transmit_unbundle (ef_vi.h): the ids of the descriptors from    *)
(* removed up to desc_id, leaving out the ignored id, and removed moves   *)
(* to desc_id.                                                            *)
UnbundleIds(desc_id) ==
  SelectSeq([i \in 1 .. desc_id - removed |->
               ring[(removed + i - 1) % RingSize].id],
            LAMBDA id : id # ID_MASK)

(* The application handles the next event of the last poll: unbundles a  *)
(* TX event, takes the id of a TX_WITH_TIMESTAMP, ignores a TX_ERROR.     *)
HandleTxEvent ==
  /\ app.evs # <<>>
  /\ LET e == Head(app.evs)
     IN  CASE e.type = "TX" ->
                /\ retLog' = retLog \o UnbundleIds(e.desc_id)
                /\ removed' = e.desc_id
           [] e.type = "TX_WITH_TIMESTAMP" ->
                /\ retLog' = IF e.id # ID_MASK THEN Append(retLog, e.id)
                                                ELSE retLog
                /\ UNCHANGED removed
           [] e.type = "TX_ERROR" -> UNCHANGED <<retLog, removed>>
  /\ app' = [app EXCEPT !.evs = Tail(@)]
  /\ UNCHANGED <<added, previous, ct_added, ct_removed, ring, last_ctpio_failed,
                 warm, evq_ptr, unsol_credit_seq, sync_major, bug, evq, nic,
                 unsol_reg, clock, postedLog>>

-----------------------------------------------------------------------------
(* The NIC.  Every event goes into the next entry of the event ring with *)
(* the phase of its lap; the NIC does not wait for the reader.            *)
NicWrite(e) ==
  evq' = [evq EXCEPT ![nic.written % EvqSize] =
            [phase |-> Phase(nic.written), ev |-> e]]

NicOnly == UNCHANGED <<added, removed, previous, ct_added, ct_removed, ring,
                       last_ctpio_failed, warm, evq_ptr, unsol_credit_seq,
                       sync_major, bug, unsol_reg, app, postedLog, retLog>>

(* The NIC sends the next k packets of the FIFO and reports them in one  *)
(* completion event carrying the sequence of the last.  With timestamps  *)
(* on it reports each packet alone, timestamped once it has a time sync. *)
NicComplete ==
  /\ ~nic.err /\ nic.done < added
  /\ \E k \in 1 .. (IF TxTimestamps THEN 1 ELSE added - nic.done),
        ts \in (IF TxTimestamps /\ clock.synced # NoSync THEN {0, 1} ELSE {0}) :
       /\ NicWrite([type |-> "TX", seq |-> (nic.done + k - 1) % TxSeqMod,
                    ts |-> ts, sec |-> clock.now, part |-> clock.now % 256])
       /\ nic' = [nic EXCEPT !.written = @ + 1, !.done = @ + k]
  /\ UNCHANGED clock
  /\ NicOnly

(* Credits the NIC has left for unsolicited events. *)
UnsolCredits == (unsol_reg.seq - nic.unsol) % UnsolMod

(* Once a second the NIC sends a TIME_SYNC with its clock, if it has     *)
(* credit; out of credit it sends one UNSOL_OVERFLOW and waits for the    *)
(* register write that clears it.                                         *)
NicTimeSync ==
  /\ clock.synced # clock.now /\ ~nic.overflow
  /\ IF UnsolCredits > 0
       THEN /\ NicWrite([type |-> "CTRL", sub |-> "TIME_SYNC", time |-> clock.now])
            /\ nic' = [nic EXCEPT !.written = @ + 1, !.unsol = @ + 1]
            /\ clock' = [clock EXCEPT !.synced = clock.now]
       ELSE /\ NicWrite([type |-> "CTRL", sub |-> "UNSOL_OVERFLOW"])
            /\ nic' = [nic EXCEPT !.written = @ + 1, !.overflow = TRUE]
            /\ UNCHANGED clock
  /\ NicOnly

(* The NIC's clock moves to the next second once it has synced this one. *)
NicTick ==
  /\ clock.synced = clock.now /\ clock.now < Sec0 + MaxSecs
  /\ clock' = [clock EXCEPT !.now = @ + 1]
  /\ UNCHANGED <<evq, nic>>
  /\ NicOnly

(* The NIC reports a TX error and then flushes the queue. *)
NicError ==
  /\ NicErrors /\ ~nic.err
  /\ NicWrite([type |-> "CTRL", sub |-> "ERROR"])
  /\ nic' = [nic EXCEPT !.written = @ + 1, !.err = TRUE]
  /\ UNCHANGED clock
  /\ NicOnly

NicFlush ==
  /\ nic.err /\ ~nic.flushed
  /\ NicWrite([type |-> "CTRL", sub |-> "FLUSH"])
  /\ nic' = [nic EXCEPT !.written = @ + 1, !.flushed = TRUE]
  /\ UNCHANGED clock
  /\ NicOnly

-----------------------------------------------------------------------------
(* efct_vi_init and ef_vi's queue setup: empty ring and counters, event   *)
(* ring entries with the phase of the lap before the first, the fixed     *)
(* header without the warm flag, and the credit register granting         *)
(* UnsolCap - 1 unsolicited events, as the UNSOL_OVERFLOW handler does.  *)
Init ==
  /\ added = 0 /\ removed = 0 /\ previous = 0
  /\ ct_added = 0 /\ ct_removed = 0
  /\ ring = [i \in 0 .. RingSize - 1 |-> [len |-> 0, id |-> ID_MASK]]
  /\ last_ctpio_failed = FALSE /\ warm = FALSE
  /\ evq_ptr = 0 /\ unsol_credit_seq = UnsolCap - 1 /\ sync_major = 0
  /\ bug = {}
  /\ evq = [k \in 0 .. EvqSize - 1 |-> [phase |-> 1, ev |-> [type |-> "INIT"]]]
  /\ nic = [written |-> 0, done |-> 0, unsol |-> 0, overflow |-> FALSE,
            err |-> FALSE, flushed |-> FALSE]
  /\ unsol_reg = [seq |-> (UnsolCap - 1) % UnsolMod, clear |-> TRUE]
  /\ clock = [now |-> Sec0, synced |-> NoSync]
  /\ app = [evs |-> <<>>, fallback |-> NoFallback]
  /\ postedLog = <<>> /\ retLog = <<>>

MaxEvs == 2

Next ==
  \/ \E len \in Lens, id \in DmaIds : Transmit(len, id)
  \/ \E len \in Lens : TransmitCtpio(len)
  \/ \E id \in DmaIds : CtpioFallback(id)
  \/ StartTransmitWarm
  \/ StopTransmitWarm
  \/ \E n \in 1 .. MaxEvs : PollTx(n)
  \/ HandleTxEvent
  \/ NicComplete
  \/ NicTimeSync
  \/ NicTick
  \/ NicError
  \/ NicFlush

(* The application keeps polling, handles what a poll returned and calls *)
(* the fallback of a CTPIO send; the NIC completes what it was given and *)
(* keeps its clock synced.                                               *)
Fairness ==
  /\ WF_vars(\E n \in 1 .. MaxEvs : PollTx(n))
  /\ WF_vars(HandleTxEvent)
  /\ WF_vars(\E id \in DmaIds : CtpioFallback(id))
  /\ WF_vars(NicComplete)
  /\ WF_vars(NicTimeSync)

Spec == Init /\ [][Next]_vars /\ Fairness

-----------------------------------------------------------------------------
(* Properties.                                                             *)

TxEvent == [type : {"TX"}, seq : 0 .. TxSeqMod - 1, ts : {0, 1},
            sec : Nat, part : 0 .. 255]

(* The counters stay ordered, and the descriptor ring never holds more   *)
(* packets than it has slots (no slot is reused before unbundle).        *)
TypeOK ==
  /\ removed \in Nat /\ added \in Nat /\ previous \in Nat
  /\ added - removed \in 0 .. RingSize
  /\ ct_added \in Nat /\ ct_removed \in Nat
  /\ ring \in [0 .. RingSize - 1 -> [len : Nat, id : DmaIds \cup {POSTED_ID, ID_MASK}]]
  /\ last_ctpio_failed \in BOOLEAN /\ warm \in BOOLEAN
  /\ evq_ptr \in 0 .. nic.written
  /\ bug \subseteq {"fallback_empty", "fallback_id", "retire_past_added",
                    "evq_overflow"}

(* The bytes the VI has put into the CT FIFO and not seen retired are a  *)
(* whole number of 64-byte units and stay below the hardware's            *)
(* tx_fifo_bytes: efct_tx_check admits on the payload length against     *)
(* ct_fifo_bytes, and the header and padding fit in the margin            *)
(* efct_design_parameters left.                                           *)
CtFifoWithinHardware ==
  /\ ct_removed <= ct_added
  /\ ct_added % EFCT_TX_ALIGNMENT = 0
  /\ ct_added - ct_removed < TxFifoBytes

(* The specification's CT-FIFO bound: ct_added - ct_removed never        *)
(* exceeds ct_fifo_bytes.                                                 *)
CtFifoBound == ct_added - ct_removed <= CtFifoBytes

(* A TX_WITH_TIMESTAMP event carries the second at which the NIC sent    *)
(* the packet, across the wrap of the 8-bit partial seconds.             *)
TxTimestampCorrect ==
  \A i \in DOMAIN app.evs :
     app.evs[i].type = "TX_WITH_TIMESTAMP" => app.evs[i].sec = app.evs[i].true_sec

(* The NIC never laps the reader in the event ring, so the overflow      *)
(* BUG_ON of efct_poll_tx cannot fire and no event is lost: completions  *)
(* are bounded by the ring, unsolicited events by the credit scheme.     *)
NoEvqOverflow == nic.written - evq_ptr < EvqSize

(* None of the VI's BUG_ONs fires: the CTPIO fallback finds its           *)
(* placeholder, and a completion never retires past added.               *)
NoTxBug == bug = {}

(* Every packet the application sent is eventually given back to it.    *)
AllTxCompleted == <>[](Len(retLog) = Len(postedLog))

-----------------------------------------------------------------------------
(* Refinement.  The history of ids sent and given back is the state of   *)
(* the abstract transmit queue of TxQueue, whose capacity is the ring.    *)
(* A TX_WITH_TIMESTAMP event carries its id and has counted as a removal *)
(* (qs->removed++) from the poll that built it, so the ids of such events *)
(* the application holds are already given back; the descriptors a TX   *)
(* event covers are given back by ef_vi_transmit_unbundle.               *)
PolledTsIds ==
  LET tsIds == SelectSeq(app.evs, LAMBDA e : e.type = "TX_WITH_TIMESTAMP"
                                              /\ e.id # ID_MASK)
  IN  [i \in DOMAIN tsIds |-> tsIds[i].id]

TxQ == INSTANCE TxQueue WITH Ids <- DmaIds, Capacity <- RingSize,
                             sent <- postedLog,
                             returned <- retLog \o PolledTsIds

(* Every step of the VI, the NIC and the application is a step of the    *)
(* abstract queue or leaves its history alone: a send (ef_vi_transmit or  *)
(* a CTPIO fallback) adds one id only while fewer than RingSize ids are   *)
(* outstanding, and handling a TX or TX_WITH_TIMESTAMP event gives back   *)
(* the next ids in sending order, never one twice and never one unsent.  *)
TxQueueSafety == TxQ!SafetySpec

(* The same, with the abstract queue's promise that completions keep     *)
(* coming while ids are outstanding, under the fairness of polling and    *)
(* of the NIC.                                                             *)
TxQueueRefinement == TxQ!Spec

=============================================================================
