------------------------------ MODULE EfctPoll ------------------------------
(***************************************************************************)
(* The poll multiplexer of efct_vi.c composed with the pollers it calls:   *)
(* efct_ef_eventq_poll runs efct_poll_rx on every rxq set in *active_qs,   *)
(* lowest first, each with the room left in the caller's array, then      *)
(* efct_poll_tx with what remains; efct_ef_eventq_check_event must report *)
(* every state in which such a poll would do something.                    *)
(*                                                                         *)
(* Each rxq keeps the control of efct_poll_rx that decides how many       *)
(* events a poll yields: the rollover when next has reached end (which    *)
(* fails when ops->available has no superbuf), the config refresh (which  *)
(* may fail, and user space caches the generation anyway), and the clamp  *)
(* of evs_len to the rest of the superbuf.  Its data is abstracted to the *)
(* slot of next in the current superbuf and the number of packets the NIC *)
(* has written beyond it; the EfctRx model has the rest of the rxq.  The  *)
(* TX queue is the number of TX events in the event ring, of which a poll *)
(* reports at most one (efct_poll_tx); EfctTx has the rest.                *)
(***************************************************************************)
EXTENDS Integers, FiniteSets, FiniteSetsExt

CONSTANTS
  Active,       \* the rxqs set in *active_qs
  SbPkts,       \* packets per superbuf, rxq_ptr->end - start
  AvailCap,     \* the NIC holds at most this many unread packets per rxq
  EvsLens,      \* evs_len values the application polls with
  TxQ,          \* vi->vi_txq.mask != 0 (and vi->evq_mask != 0)
  MaxTxEvs,     \* TX events the event ring holds unread
  Sustained,    \* the NIC keeps delivering without end
  MaxArrivals,  \* otherwise, the NIC delivers at most this many in all
  MaxCfg        \* configuration changes of the resource manager

ASSUME Active \subseteq 0 .. 63 /\ SbPkts \in Nat \ {0}
ASSUME EvsLens \subseteq Nat \ {0}

TXQ == -1   \* the TX queue, a poller index no rxq has
Pollers == Active \cup (IF TxQ THEN {TXQ} ELSE {})

VARIABLES
  rxq,      \* per rxq: [next |-> slot of rxq_ptr->next, avail |-> packets the
            \* NIC wrote beyond it, cached |-> rxq->config_generation]
  live,     \* per rxq: *rxq->live.config_generation
  txevs,    \* TX events in the event ring not yet polled
  arrived,  \* history: packets and completions the NIC delivered
  cfgs,     \* history: configuration changes made
  got,      \* events the last efct_ef_eventq_poll returned, per poller
  polls     \* history: the parity of the number of polls

vars == <<rxq, live, txevs, arrived, cfgs, got, polls>>

Init ==
  \* after efct_vi_start_rxq, end = 0: the first poll must roll over
  /\ rxq = [q \in Active |-> [next |-> SbPkts, avail |-> 0, cached |-> 0]]
  /\ live = [q \in Active |-> 0]
  /\ txevs = 0 /\ arrived = 0 /\ cfgs = 0
  /\ got = [p \in Pollers |-> 0] /\ polls = 0

-----------------------------------------------------------------------------
(* efct_rxq_need_rollover, efct_rxq_need_config, and a valid next header. *)
NeedRollover(r) == r.next >= SbPkts
NeedConfig(r, q) == r.cached # live[q]
HeaderValid(r) == r.avail > 0

(* ops->available: the resource manager has a filled superbuf to give. *)
Available(r) == r.avail > 0

(* Mutant: a failed refresh leaves the cached generation stale, as the  *)
(* kernel build does, so the refresh is retried on every poll.           *)
efct_poll_rx_stale_gen(r, q, budget, fail) ==
  LET r1 == IF NeedRollover(r) THEN [r EXCEPT !.next = 0] ELSE r
      r2 == [r1 EXCEPT !.cached = live[q]]
      n  == Min({budget, SbPkts - r2.next, r2.avail})
  IN  CASE NeedRollover(r) /\ ~Available(r) -> [r |-> r, n |-> 0]
        [] NeedConfig(r1, q) /\ fail          -> [r |-> r1, n |-> 0]
        [] OTHER -> [r |-> [r2 EXCEPT !.next = @ + n, !.avail = @ - n], n |-> n]

(* efct_poll_rx(vi, q, evs, budget): the rxq after the call and the number *)
(* of events; fail is whether ops->refresh fails, should it be called.     *)
efct_poll_rx(r, q, budget, fail) ==
  LET r1 == IF NeedRollover(r) THEN [r EXCEPT !.next = 0] ELSE r
      r2 == [r1 EXCEPT !.cached = live[q]]
      n  == Min({budget, SbPkts - r2.next, r2.avail})
  IN  CASE NeedRollover(r) /\ ~Available(r) -> [r |-> r, n |-> 0]
        [] NeedConfig(r1, q) /\ fail          -> [r |-> r2, n |-> 0]
        [] OTHER -> [r |-> [r2 EXCEPT !.next = @ + n, !.avail = @ - n], n |-> n]

(* The loop of efct_ef_eventq_poll over the set bits of qs, lowest first  *)
(* (__builtin_ffsll), each rxq polled with evs_len - n.                   *)
(* Mutant: every rxq is polled with the whole of evs_len. *)
RECURSIVE PollRxqs_fullbudget(_, _, _, _, _)
PollRxqs_fullbudget(qs, rs, g, len, fail) ==
  IF qs = {} THEN [rxq |-> rs, got |-> g]
  ELSE LET i   == Min(qs)
           res == efct_poll_rx(rs[i], i, len, fail[i])
       IN  PollRxqs_fullbudget(qs \ {i}, [rs EXCEPT ![i] = res.r],
                               [g EXCEPT ![i] = res.n], len, fail)

RECURSIVE PollRxqs(_, _, _, _, _)
PollRxqs(qs, rs, g, len, fail) ==
  IF qs = {} THEN [rxq |-> rs, got |-> g]
  ELSE LET i   == Min(qs)
           n   == FoldSet(LAMBDA p, acc : g[p] + acc, 0, Active)
           res == efct_poll_rx(rs[i], i, len - n, fail[i])
       IN  PollRxqs(qs \ {i}, [rs EXCEPT ![i] = res.r], [g EXCEPT ![i] = res.n], len, fail)

(* efct_poll_tx: TX events while there is room, and no more than one. *)
efct_poll_tx(budget) == IF budget > 0 /\ txevs > 0 THEN 1 ELSE 0

(* efct_ef_eventq_poll(vi, evs, len) with the refresh outcomes fail. *)
EventqPollResult(len, fail) ==
  LET rx == PollRxqs(Active, rxq, [p \in Pollers |-> 0], len, fail)
      n  == FoldSet(LAMBDA p, acc : rx.got[p] + acc, 0, Active)
      t  == IF TxQ THEN efct_poll_tx(len - n) ELSE 0
  IN  [rxq |-> rx.rxq, txevs |-> txevs - t,
       got |-> IF TxQ THEN [rx.got EXCEPT ![TXQ] = t] ELSE rx.got]

EventqPoll(len, fail) ==
  /\ \E res \in {EventqPollResult(len, fail)} :
        rxq' = res.rxq /\ txevs' = res.txevs /\ got' = res.got
  /\ polls' = 1 - polls
  /\ UNCHANGED <<live, arrived, cfgs>>

Poll == \E len \in EvsLens, fail \in [Active -> BOOLEAN] : EventqPoll(len, fail)

(* Mutant: efct_rxq_check_event forgets a pending config refresh. *)
efct_rxq_check_event_noconfig(q) ==
  IF NeedRollover(rxq[q]) THEN Available(rxq[q]) ELSE HeaderValid(rxq[q])

(* efct_rxq_check_event (user space): after a rollover is needed, only   *)
(* whether one can be done; otherwise a refresh or a valid next header.  *)
efct_rxq_check_event(q) ==
  IF NeedRollover(rxq[q]) THEN Available(rxq[q])
  ELSE NeedConfig(rxq[q], q) \/ HeaderValid(rxq[q])

(* efct_rx_check_event: any active rxq (vi->vi_rxq.mask is set). *)
efct_rx_check_event == \E q \in Active : efct_rxq_check_event(q)

(* efct_tx_check_event: a TX event of the right phase at evq_ptr. *)
efct_tx_check_event == TxQ /\ txevs > 0

efct_ef_eventq_check_event == efct_tx_check_event \/ efct_rx_check_event

-----------------------------------------------------------------------------
(* The environment.                                                        *)

CanArrive == Sustained \/ arrived < MaxArrivals
Arrivals == IF Sustained THEN arrived ELSE arrived + 1

(* The NIC writes a packet to rxq q, starting a superbuf when needed. *)
RxArrive(q) ==
  /\ CanArrive /\ rxq[q].avail < AvailCap
  /\ rxq' = [rxq EXCEPT ![q].avail = @ + 1]
  /\ arrived' = Arrivals
  /\ UNCHANGED <<live, txevs, cfgs, got, polls>>

(* The NIC writes a TX completion to the event ring. *)
TxArrive ==
  /\ TxQ /\ CanArrive /\ txevs < MaxTxEvs
  /\ txevs' = txevs + 1 /\ arrived' = Arrivals
  /\ UNCHANGED <<rxq, live, cfgs, got, polls>>

(* The resource manager changes an rxq's configuration. *)
ConfigChange(q) ==
  /\ cfgs < MaxCfg
  /\ live' = [live EXCEPT ![q] = @ + 1] /\ cfgs' = cfgs + 1
  /\ UNCHANGED <<rxq, txevs, arrived, got, polls>>

Next ==
  \/ Poll
  \/ \E q \in Active : RxArrive(q) \/ ConfigChange(q)
  \/ TxArrive

(* The application keeps polling (weak fairness of Poll); the NIC and the *)
(* resource manager owe nothing.  Poll is always enabled and never a     *)
(* stuttering step, as it flips polls, so WF_vars(Poll) is the same as   *)
(* the form below, which TLC checks without evaluating ENABLED.          *)
Spec == Init /\ [][Next]_vars /\ []<><<Poll>>_vars

-----------------------------------------------------------------------------
(* Properties.                                                             *)

TypeOK ==
  /\ rxq \in [Active -> [next : 0 .. SbPkts, avail : 0 .. AvailCap, cached : 0 .. MaxCfg]]
  /\ live \in [Active -> 0 .. MaxCfg]
  /\ txevs \in 0 .. MaxTxEvs
  /\ got \in [Pollers -> Nat] /\ polls \in {0, 1}

(* efct_ef_eventq_poll never writes past the caller's array: the events  *)
(* of all rxqs and of the TX queue, each poller given the room the ones   *)
(* before it left, add up to at most evs_len, whatever evs_len was.       *)
PollWithinArray ==
  \A len \in EvsLens, fail \in [Active -> BOOLEAN] :
     LET g == EventqPollResult(len, fail).got
     IN  FoldSet(LAMBDA p, acc : g[p] + acc, 0, Pollers) <= len

(* "This must match the checks made in efct_poll_rx to ensure none are   *)
(* missed": when efct_ef_eventq_check_event says there is nothing, a poll *)
(* with any evs_len and any refresh outcome yields no event and changes   *)
(* no state, so an application that sleeps on check_event misses nothing. *)
CheckEventComplete ==
  ~efct_ef_eventq_check_event =>
     \A len \in EvsLens, fail \in [Active -> BOOLEAN] :
        LET res == EventqPollResult(len, fail)
        IN  res.rxq = rxq /\ res.txevs = txevs

(* The multiplexer is a "fair iteration across active RXQs plus TX"    *)
(* (the component table of the specification): every active rxq with a  *)
(* packet waiting, and the TX queue with an event waiting, is eventually  *)
(* given an event in a poll.                                              *)
EveryQueueServed ==
  /\ \A q \in Active : rxq[q].avail > 0 ~> got[q] > 0
  /\ TxQ => (txevs > 0 ~> got[TXQ] > 0)

=============================================================================
