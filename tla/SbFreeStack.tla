----------------------------- MODULE SbFreeStack -----------------------------
(***************************************************************************)
(* What the per-rxq superbuf free list promises: a stack of local superbuf *)
(* indices per rxq, in which a superbuf appears at most once.  A superbuf *)
(* returned to the VI is pushed on top; the resource manager takes the     *)
(* top one to reuse it.  EfctSbFree, the intrusive list threaded through   *)
(* the superbuf descriptors, is shown to implement it.                     *)
(***************************************************************************)
EXTENDS Sequences, SequencesExt

CONSTANTS
  Qs,   \* rxq indices
  Sbs   \* local superbuf indices

VARIABLE stack   \* per rxq: the free superbufs, top first

Init == stack = [q \in Qs |-> <<>>]

(* A superbuf not already free is pushed on its rxq's stack. *)
Push(q, sb) ==
  /\ sb \notin ToSet(stack[q])
  /\ stack' = [stack EXCEPT ![q] = <<sb>> \o @]

(* The top superbuf of a non-empty stack is taken. *)
Pop(q) ==
  /\ stack[q] # <<>>
  /\ stack' = [stack EXCEPT ![q] = Tail(@)]

Next == \E q \in Qs : Pop(q) \/ \E sb \in Sbs : Push(q, sb)

Spec == Init /\ [][Next]_stack

=============================================================================
