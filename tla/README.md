# TLA+ models of the EFCT virtual interface (`efct_vi.c`)

This directory models `src/src/lib/ciul/efct_vi.c`, the ef_vi back end for
EFCT (X3-class) NICs. The models are written in TLA+ and checked with TLC.
`PROJECT.json` lists the components, the runs, the mutants, the map from
every modelled definition to its source lines, the findings and the hazards.

## The system

`efct_vi.c` is the user-space (and kernel) half of a zero-copy datapath. It
shares memory with three other parties:

* **the NIC**
  * On receive, it fills *superbufs* (large buffers of fixed-stride packet
    slots). In each slot it writes a metadata header. That header describes
    the packet in the *previous* slot, so slot 0 describes the last packet
    of the previous superbuf. A sentinel bit, flipped on each reuse of a
    superbuf, marks a header as written.
  * On transmit, it drains the CTPIO FIFO and writes completion and control
    events into an event ring under a phase-bit protocol.
* **the resource manager** behind `vi->efct_rxqs.ops`. It posts superbufs to
  the NIC and hands them to the VI through `ops->next`, numbered by a
  sequence number. Gaps in the numbers mean the NIC dropped packets for
  lack of a descriptor ("nodesc"). It takes superbufs back through
  `ops->free` and refreshes mappings through `ops->refresh`.
* **the application**. It polls (`efct_poll_rx`, `efct_poll_tx`), releases
  packets (`efct_vi_rxpkt_release`) and sends packets (`transmit`,
  `transmitv`, CTPIO with fallback, warm-up sends). It also unbundles TX
  completions.

## Modules

| Module | Models | Source |
| --- | --- | --- |
| `EfctPktId` | The pkt_id codec: packet/superbuf/rxq fields with their real widths, the decoders, the two descriptor lookups, the id `rx_rollover` builds, and rxq pointers with the bit-31 sentinel. | efct_vi.c 40-156, 699 |
| `EfctRxHeader` | The header fields that drive classification, `CHECK_FIELDS`, `header_status_flags`, the slow/fast-path test of `efct_poll_rx`, `receive_set_discards` and the default discard mask. | 14-16, 649-661, 744-868, 1344-1350 |
| `EfctRx` | One rxq with the NIC, the resource manager, the application and the config writer as agents (see below), and the RX queries `efct_vi_get_wakeup_params`, `efct_vi_rxpkt_get_timestamp` and `efct_vi_rx_future_peek`. | 158-198, 685-898, 1063-1068, 1151-1186, 1213-1272 |
| `EfctTx` | The TX ring, the CT FIFO accounting, CTPIO and fallback, warm sends, the TX event ring, the event handlers, TX timestamps and unsolicited credit, and the NIC. | 268-627, 900-991, 1109-1112, 1274-1296, 1333-1360 |
| `EfctTxStream` | The bytes `transmit` and `transmitv` write to the CTPIO aperture: `efct_tx_init`, `efct_tx_tail_byte`, `efct_tx_word` with the offset mask, `efct_tx_block` (tail completion, native words, new tail) as RECURSIVE operators, and the tail flush and zero padding of `efct_tx_complete`. 64-bit values are byte sequences; native stores and `CI_BSWAP_BE64` are byte reversals of a little-endian host. The header's bit layout is an opaque token. | 260-348, 456-496 |
| `EfctSbFree` | The per-rxq superbuf free list: the heads `sb_desc_free_head` (set to -1 by `efct_vi_init`), the `sbid_next` links in the descriptor array all rxqs share, `efct_rx_sb_free_push` and `efct_rx_sb_free_next`. The resource manager, outside this file, returns superbufs it holds and takes the top one. | 94-110, 1354-1355 |
| `SbFreeStack` | The abstract free list: a stack of distinct superbufs per rxq. `EfctSbFree` is shown to implement it, with the list read from each head by following the links as the refinement mapping. | the free-list contract |
| `TxQueue` | The abstract transmit queue: ids sent and given back, at most a ring's worth outstanding, returned in order, every one eventually. `EfctTx` is shown to implement it. | the ef_vi transmit API |
| `EfctPoll` | The poll multiplexer `efct_ef_eventq_poll` over the rxqs set in `active_qs`, lowest first, each polled with the room the ones before left, then `efct_poll_tx` (at most one TX event); the control of `efct_poll_rx` that decides how many events a queue yields (rollover, `ops->available`, failed refresh, clamp to the superbuf); and `efct_ef_eventq_check_event` with the user-space `efct_rxq_check_event`. The NIC, the resource manager and the application are agents. | 158-211, 382-385, 782-826, 964-979, 993-1008, 1063-1068, 1202-1205 |
| `MCEfctUnits`, `MCEfctPoll`, `MCEfctRxDiscard`, `MCEfctRx`, `MCEfctTx` | TLC harnesses: bounded inputs, header sets, and table references. `MCEfctUnits` checks the codecs, the streaming, the discard table and the multiplexer in one run, as a disjoint union: a state belongs to one of the four parts, chosen in `Init`, and the variables of the other parts stay idle. | |

### RX engine (`EfctRx`)

The state of the VI is:

* `rxq_ptr` with `next` (sequence, sentinel, pkt_id), `prev` and `end`;
* the superbuf descriptors (`refcnt` as a `uint16_t`, `superbuf_pkts`,
  `final_timestamp`);
* the cached `config_generation`.

The VI's actions:

* **`PollRx(evs_len)`** is the whole of `efct_poll_rx`, including:
  * `rx_rollover` with its three paths: first superbuf (also after a
    hardware rollover), nodesc gap, and normal;
  * the refresh, whose failure is chosen by the resource manager, and
    whose generation is captured before the call;
  * the loop over headers, with the hardware-rollover branch (both ways of
    consuming the unused refcounts), discard and RX_REF events, and the
    `evs_len` clamp.
* **`RxpktRelease(p)`** is `efct_vi_rxpkt_release`, including `ops->free`
  when the refcount reaches zero.
* **`Sleep`** is a blocking application: when `efct_rxq_check_event` finds
  nothing it arms a wakeup at the position `efct_vi_get_wakeup_params`
  returns, and stops polling until the wakeup fires.

The read-only queries are operators over this state:
`efct_vi_rxpkt_get_timestamp(p)` (the header after `p`, or the descriptor's
`final_timestamp` for the last packet of a superbuf) and
`efct_vi_rx_future_peek` (the rollover and config checks, then `prev`).
A header's timestamp is the arrival number of the packet it describes, so
that a value left from an earlier use of a superbuf is told apart. The
constant `Stamps` turns this on only in the run whose property reads it.

The environment's actions:

* `NicStartSuperbuf` takes a posted superbuf and flips its sentinel, or
  drops (nodesc).
* `NicWriteHeader` writes the next header, possibly a rollover header.
* `BumpConfigGeneration` changes the rxq's configuration.
* `KernelWakeup` is the resource manager's wakeup. It fires once the NIC
  has written a header at or past the armed (sequence, slot).

The poll is one atomic step. The loop consumes, in order, a prefix of what
the NIC has written. So a NIC write landing between two iterations looks the
same as an atomic poll with a smaller `evs_len`, and all `evs_len` values
are explored.

### TX path (`EfctTx`)

The state of the VI is:

* the counters `added`, `removed`, `previous`, `ct_added` and `ct_removed`;
* the descriptor ring;
* `last_ctpio_failed` and the warm flag;
* `evq_ptr`, `unsol_credit_seq` and `sync_timestamp_major`;
* `bug`, the set of `BUG_ON`s that would have fired.

The actions:

* `Transmit` covers `transmit` and `transmitv`.
* `TransmitCtpio` puts the `POSTED_ID` placeholder in the ring.
* `CtpioFallback` replaces the placeholder, or sends a real packet after
  `-EAGAIN`.
* `StartTransmitWarm` and `StopTransmitWarm`.
* `PollTx` is the whole `efct_poll_tx`:
  * the overflow `BUG_ON`;
  * the phase-bit reads;
  * the TX, ERROR, FLUSH, TIME_SYNC and UNSOL_OVERFLOW handlers;
  * retirement by sequence number in `EFCT_TX_EVENT_SEQUENCE_WIDTH` bits;
  * the 8-bit partial-second wrap of timestamps;
  * the return after one TX event.
* `HandleTxEvent` is the application unbundling one event (see below).
* The NIC actions write completions (batched, or one per packet with
  timestamps), time syncs under the credit scheme, an ERROR followed by a
  FLUSH, and ticks of its clock.

**Refinement.** `EfctTx` instantiates `TxQueue` with
`sent <- postedLog` and `returned <- retLog \o PolledTsIds`. `postedLog` and
`retLog` are history variables: the ids the application sent and got back.
A TX_WITH_TIMESTAMP event copies its id and counts as a removal
(`qs->removed++`) during the poll, before the application handles it. So
the ids of such events still in the application's hands are already given
back, and that is what `PolledTsIds` adds. Checking the mapping first
without it found exactly this: a send reused the slot while the id was
still in the event array, which is legal because the id had already been
copied. `TxQ!SafetySpec` and `TxQ!Spec` are checked as the properties
`TxQueueSafety` and `TxQueueRefinement`.

`ef_vi_transmit_space_bytes` and `ef_vi_transmit_unbundle` live in `ef_vi.h`
and `ef_vi.c`, outside `src/`. They are modelled from the specification and
marked `spec_modelled` in the map.

## Runs

| Run | Config | Result | What it shows |
| --- | --- | --- | --- |
| units | `MCEfctUnits.cfg` | pass | Streaming: the aperture holds each packet exactly as the NIC must read it: the native header word, the payload bytes in address order across any iovec split, zeros to 64 bytes. It does so across the aperture wrap, in as many words as `ct_added` is charged, with no `BUG_ON` (`ApertureHoldsPacket`). The pkt_id codec round-trips at every field boundary, and `efct_rx_desc_for_sb` and `efct_rx_desc` select the same descriptor. Discards: for every header and every mask of error flags reachable by `receive_set_discards`, the event and flags equal the specification's table. Multiplexer: the events of all queues together never exceed `evs_len` (`PollWithinArray`); when `efct_ef_eventq_check_event` reports nothing, no poll would change anything (`CheckEventComplete`); with finite traffic every waiting queue is eventually served (`EveryQueueServed`). Free list: whatever the order of pushes and takes on two rxqs, the lists read from the heads are the abstract stacks (`SbFreeRefinement`). |
| rx_discard_class_other | `MCEfctRxDiscardClassOther.cfg` | violation | With a `*_CLASS_OTHER` flag in the mask, a header with clean status fields is delivered, not discarded (finding 2). |
| rx_engine | `MCEfctRx.cfg` | pass | Across rollovers, nodesc drops, hardware rollovers, failed refreshes and superbuf reuse, the safety and liveness properties below all hold. |
| rx_discard_events | `MCEfctRxDiscardMix.cfg` | pass | With clean and FCS-errored packets mixed, each event's discard verdict is that of its own packet's header, not of the header in its slot (`RxDiscardsMatchMetadata`). Every held packet also reads back its own timestamp, through the `final_timestamp` stash and superbuf reuse (`RxTimestampOwn`). |
| rx_seq_wrap | `MCEfctRxSeqWrap.cfg` | violation | At the wrap of the superbuf sequence number a packet is lost (finding 1). |
| rx_wakeup | `MCEfctRxWakeup.cfg` | pass | An application blocked at the position `efct_vi_get_wakeup_params` gives is woken whenever packet work arrives (`WakeupFires`). |
| rx_future_peek_assert | `MCEfctRxPeek.cfg` | violation | The range assertion of `efct_vi_rx_future_peek` fails after a normal rollover to a lower superbuf index (finding 4). |
| tx_fifo_ring | `MCEfctTx.cfg` | pass | Under batched completions, CTPIO sends and fallbacks, failed admissions and warm sends, the properties below hold. |
| tx_timestamps | `MCEfctTxTs.cfg` | pass | With timestamped and plain completions, TX errors and the 255→0 wrap of the partial seconds, request ids come back in order, timestamps carry the right second, and every step is a step of `TxQueue` (`TxQueueSafety`). |
| tx_evq_credit | `MCEfctTxEvq.cfg` | pass | An event ring one entry larger than the ring's completions plus the unsolicited credit is never overrun, through TIME_SYNC grants and UNSOL_OVERFLOW resets. |
| tx_ct_fifo_bound | `MCEfctTxFifo.cfg` | violation | The CT FIFO fill exceeds `ct_fifo_bytes` (finding 3). |
| poll_starvation | `MCEfctPollStarve.cfg` | violation | Under sustained traffic on rxq 0, rxq 1 is never given an event (finding 5). |

The properties of the rx_engine run:

* refcounts are conserved (`RefcntConservation`);
* nothing is used after it is freed (`NoUseAfterFree`);
* events come out in order (`RxInOrder`);
* no wakeup is lost, that is `efct_rxq_check_event` agrees with what a
  poll would do (`NoLostWakeup`);
* every packet is eventually delivered (`AllDelivered`).

The properties of the tx_fifo_ring run:

* the ring never holds more than it has slots (`TypeOK`);
* the FIFO fill stays aligned and below the hardware FIFO
  (`CtFifoWithinHardware`);
* no `BUG_ON` fires (`NoTxBug`);
* every send completes (`AllTxCompleted`);
* the model implements `TxQueue`, fairness included (`TxQueueRefinement`).

Every property of a passing run has a mutant in `PROJECT.json`. A mutant is
a plausible coding error in the definition the property is about (a missing
mask, an off-by-one, a dropped reset, a wrong slot, an early return), and
TLC finds the property violated once the mutant is substituted.

## Findings

1. **Sequence wrap loses a packet** (efct_vi.c:708).
   * `sbseq != (rxq_ptr->next >> 32) + 1` compares a 32-bit value with a
     64-bit sum.
   * When the sequence from `ops->next` wraps from `2^32-1` to 0, the
     nodesc path is taken although nothing was dropped. `prev` is released
     without an event, so the last packet of the previous superbuf is never
     delivered.
   * The run uses `SeqBits = 2`, so the wrap happens within the bound. The
     arithmetic is the code's at any width.
2. **CLASS_OTHER discard flags are ignored** (efct_vi.c:833).
   * `receive_set_discards` accepts `L2/L3/L4_CLASS_OTHER` and
     `header_status_flags` computes them.
   * But the coarse `CHECK_FIELDS` test only covers the status fields and
     ROLLOVER. A header whose only set flag is a CLASS_OTHER one never
     reaches the discard branch.
3. **The CT FIFO can exceed `ct_fifo_bytes`** (efct_vi.c:276, 363).
   * Admission checks `space >= len`, but each packet is charged
     `roundup(len + 8, 64)`.
   * The fill therefore reaches up to `ct_fifo_bytes + 64` (192 against 128
     in the run).
   * It stays below `tx_fifo_bytes`, as `CtFifoWithinHardware` confirms. The
     margin `efct_design_parameters` subtracts is what keeps the hardware
     safe, not the bound the specification states.

4. **The future-peek assertion fails** (efct_vi.c:1173).
   * After a normal rollover, `rx_rollover` leaves `prev` at the last packet
     of the old superbuf (its metadata is in slot 0 of the new one), and
     sets `end` to the new superbuf's id plus `superbuf_pkts`.
   * `efct_vi_rx_future_peek` skips only queues needing a rollover or a
     refresh. When `ops->next` handed out a superbuf of lower index, it
     reaches `EF_VI_ASSERT(pkt_id < rxq_ptr->end)` with `prev >= end`.
   * TLC finds this in 7 steps: superbuf 1, then superbuf 0. Release builds
     go on to read `prev`'s frame, which the VI still holds, so only the
     debug assertion is wrong.
5. **The multiplexer is not fair** (efct_vi.c:1003).
   * The specification's component table calls `efct_ef_eventq_poll` a
     "fair iteration across active RXQs plus TX".
   * The code polls the rxqs lowest first, each with what the ones before
     left of `evs_len`, and starts from rxq 0 on every call. When rxq 0
     always has at least `evs_len` packets waiting, rxq 1 and the TX queue
     get a budget of 0 on every poll.
   * TLC finds the lasso with 2 rxqs, superbufs of 2 packets and
     `evs_len` 1 or 2. Under finite traffic (the units run) every queue is
     served.

## Bounds and why they are enough

**MCEfctUnits**
* The four parts are independent, so the specification is their disjoint
  union. A state holds one of them; the others keep their initial values.
* pkt_id: field values 0, 1 and the largest of each field, plus the
  neighbours of the bit boundaries, for every rxq.
* Streaming: an aperture of 16 words (128 bytes). Iovec lengths are 0, 1,
  7, 9 and 57, up to three per `transmitv`, and sending stops at 192 bytes
  of `ct_added`. This covers empty iovecs, and tails of 1 to 7 bytes that
  are completed by the next iovec or span several. It covers packets of
  64 and 128 bytes, and a 128-byte packet that starts half way and wraps.
  The application sends a packet only when its padded length fits the
  aperture, so a packet never overwrites its own words; `efct_tx_check`
  admits on the payload length (finding 3). Payload bytes are labelled by
  packet and position, so a misplaced byte is seen.
* Multiplexer: rxqs 0 and 1 and the TX queue; superbufs of 2 packets; at
  most 2 unread packets per rxq and 1 TX event; `evs_len` 1 or 2, so one
  queue can use the whole array; 4 arrivals and one configuration change,
  whose refresh may fail on any poll. The run does not check deadlock: the
  application may stop sending, and the arrivals end.
* Free list: rxqs 0 and 7 and superbufs 0, 1 and 2047 each, so the
  descriptors of the two rxqs lie at both ends of the shared array and
  every order of three pushes and takes is reached, with stale links
  left in taken descriptors.
* `MCEfctPollStarve.cfg` has the same bounds with sustained arrivals (the
  arrival count is not kept), which is what starvation needs.

**MCEfctRx**
* 3 superbufs of 2 packets, so a superbuf is reused while others are held.
* Up to 4 superbuf starts or drops, which
  covers a first rollover, a normal rollover, a nodesc gap, a hardware
  rollover in either branch, and reuse with the sentinel flipped.
* `evs_len` 1 or 2, so a poll can stop anywhere.
* One configuration change, whose refresh may fail.
* 8-bit sequence numbers, except in the wrap run and the peek run.
* The wakeup run has 4 starts or drops, enough to arm before a superbuf
  end, across a nodesc drop and across a hardware rollover.
* The mixed-header run (discards and timestamps) has 2 superbufs of 2
  packets and 4 starts. Both superbufs and descriptors are reused while
  `final_timestamp` values from the earlier use remain. 3 packets per
  superbuf, or 5 starts, take TLC past several minutes.

**MCEfctTx**
* A ring of 2 and payload lengths 56 and 57. 56 + 8 fills one 64-byte unit
  and 57 + 8 needs two, which exercises the padding.
* `tx_fifo_bytes` 200, so `ct_fifo_bytes` is 128 and admission fails while
  the ring is not full.
* Sequence numbers of 2 bits, so they wrap within 4 sends.
* Credit capacity 2 with a 2-bit credit register, so `UNSOL_OVERFLOW` and
  its reset happen.
* The timestamp run starts the clock at second 255, so the partial seconds
  wrap.
* The event-ring run uses a ring of 1 and an event queue of 4. That is the
  smallest power of two above one completion plus `UnsolCap` unsolicited
  events. The queue needs a spare entry because the overflow `BUG_ON`
  fires already when the queue is full. With a ring of 2 and a queue of 4
  it fires.

## Fairness

* **RX:** weak fairness on polling and on releasing each held packet. An
  application that uses ef_vi keeps polling, and the code relies on released
  references to free superbufs.
* **TX:** weak fairness on polling, on handling returned events, on calling
  the fallback of a successful CTPIO send (the API requires it), and on the
  NIC completing what it was given and sending its time syncs.
* **RX wakeup (`WakeupSpec`):** also weak fairness on the resource
  manager delivering an armed wakeup, and on the NIC writing the first
  header of a superbuf it has started. The NIC starts a superbuf only for a
  packet that has arrived.
* **Multiplexer:** weak fairness on the application's poll. A poll is
  always enabled and flips a parity variable, so it is never a stuttering
  step, and `WF` is written as `[]<><<Poll>>_vars`, which TLC checks
  without evaluating `ENABLED` of the recursive poll.
* No fairness is assumed for sends, configuration changes, drops, errors or
  clock ticks.
* The wakeup run does not check deadlock. A blocked application with no
  more traffic is a state the real system stays in.

## Assumptions about the environment

**RX**
* The resource manager re-arms every slot of a superbuf before it reposts
  it (hazard at efct_vi.c:175).
* `ops->next` returns superbufs in sequence order. Skipped sequence numbers
  stand for nodesc drops.
* The kernel's wakeup fires once the NIC writes at or past the armed
  (sequence, slot).
* The frame of a slot lands together with the header the NIC writes in it.
  The header's timestamp status is always set.

**TX, NIC**
* With timestamps on, the NIC reports each packet in its own event, with a
  timestamp once it has synced. Otherwise it may batch completions.
* After an ERROR it sends no completions, then a FLUSH.
* It uses its unsolicited credits as `(granted - used) % (mask + 1)`. A
  clear-overflow write resets its count.

**TX, application**
* It does not send while a fallback is due.
* It does not poll between a successful CTPIO send and its fallback.
* It handles the events of one poll before polling again.
* It sends only CTPIO packets while warm.

## Not modelled

* **Several rxqs in the full RX engine**: `EfctRx` has one rxq. The
  multiplexer model `EfctPoll` has several, with the data of each
  abstracted to the count of packets waiting.
* **The kernel build of `efct_rxq_check_event` and of the failed refresh**
  (`__KERNEL__` branches): the model is of the user-space library.
* **Control events in `efct_poll_tx`**: `EfctTx` models them; `EfctPoll`
  counts TX completions only.
* **The resource manager's use of the free list**: when it pushes and
  takes is outside this file. `EfctSbFree` lets it push any superbuf it
  holds and take the top one at any time; it is not composed with
  `EfctRx`, whose `ops->free` is what leads to a push.
* **Setup** (`efct_design_parameters`, `efct_post_filter_add`,
  `efct_vi_initialise_ops`): parameter checks and derived constants with
  no state to explore; the derived values are the constants of the TX
  and RX models.
* **Some read-only queries**:
  * `efct_vi_next_rx_rq_id` returns `prev` or `~0`.
  * `efct_vi_rxpkt_get` computes an address.
  * `efct_vi_rx_future_poll` is `efct_poll_rx` on `future_qid`, which with
    one rxq is `PollRx`.
  * The `active_qs` loop of the peek.
* **`final_ts_status` and the time-sync flags**: the model takes the
  status as always set.
* **The bit layout of `efct_tx_header`**: the field positions and widths
  (`EFCT_TX_HEADER_*`) are in hardware headers outside `src/`. The header
  word is an opaque token.
* **The cut-through threshold of `transmitv_ctpio`**: the encoding guards
  the addition against 32-bit overflow near 2^32, beyond TLC's integers,
  and `EFCT_TX_CT_DISABLE` is defined outside `src/`.
* **Stubs** returning `-EOPNOTSUPP`.

## Plan for further work

1. A poison word per slot, separate from the header, for the peek's
   reading of a frame that is still being written.
