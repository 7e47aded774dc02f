------------------------------ MODULE TxQueue ------------------------------
(***************************************************************************)
(* What an ef_vi transmit queue promises its user, with the descriptor    *)
(* ring, the CT FIFO, the event ring and the NIC abstracted away.          *)
(*                                                                         *)
(* The application hands the queue request ids (ef_vi_transmit and its    *)
(* CTPIO fallback); the queue holds at most Capacity of them that have    *)
(* not come back; completions give ids back to the application in the     *)
(* order they were sent, one batch at a time (the ids one TX event        *)
(* unbundles, or the one id of a TX_WITH_TIMESTAMP event), and every id    *)
(* sent eventually comes back.                                             *)
(***************************************************************************)
EXTENDS Integers, Sequences

CONSTANTS
  Ids,       \* the request ids the application uses
  Capacity   \* descriptor ring slots of the queue

VARIABLES
  sent,      \* the ids handed to the queue, in order
  returned   \* the ids given back to the application, in order

qvars == <<sent, returned>>

(* The ids sent and not yet given back. *)
Outstanding == Len(sent) - Len(returned)

Init == sent = <<>> /\ returned = <<>>

(* The queue takes an id while it has room. *)
Send(id) ==
  /\ Outstanding < Capacity
  /\ sent' = Append(sent, id)
  /\ UNCHANGED returned

(* A completion gives back the next k outstanding ids, oldest first. *)
Return ==
  \E k \in 1 .. Outstanding :
     /\ returned' = returned \o SubSeq(sent, Len(returned) + 1, Len(returned) + k)
     /\ UNCHANGED sent

Next == (\E id \in Ids : Send(id)) \/ Return

SafetySpec == Init /\ [][Next]_qvars

(* Completions keep coming while ids are outstanding. *)
Spec == SafetySpec /\ WF_qvars(Return)

=============================================================================
