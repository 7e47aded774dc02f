----------------------------- MODULE EfctSbFree -----------------------------
(***************************************************************************)
(* The superbuf free list of efct_vi.c: per rxq an intrusive stack whose   *)
(* head is ep_state->rxq.sb_desc_free_head[qid] (-1 when empty) and whose  *)
(* links are the sbid_next fields of the superbuf descriptors, found with  *)
(* efct_rx_desc_for_sb in the one flat array all rxqs share.               *)
(*                                                                         *)
(* The VI's code pushes (efct_rx_sb_free_push) and reads a link            *)
(* (efct_rx_sb_free_next); the resource manager, outside this file, takes  *)
(* the top superbuf by setting the head to its link.  A superbuf is either *)
(* on its rxq's list or held (by the resource manager, the NIC or the VI); *)
(* only a held superbuf is returned, once, as ops->free is called once per *)
(* superbuf (EfctRx!RefcntConservation).                                   *)
(***************************************************************************)
EXTENDS Integers, Sequences, FiniteSets

CONSTANTS
  Qs,      \* rxq indices
  Sbs,     \* local superbuf indices
  NoLink   \* a descriptor's sbid_next before anything wrote it

LOCAL Codec == INSTANCE EfctPktId

(* efct_rx_desc_for_sb over the rxqs and superbufs of the model. *)
DescFor == [p \in Qs \X Sbs |-> Codec!efct_rx_desc_for_sb(p[1], p[2])]

Descs == {DescFor[p] : p \in Qs \X Sbs}

VARIABLES
  head,       \* sb_desc_free_head[qid]
  sbid_next,  \* descriptor index -> its sbid_next field
  held        \* per rxq: the superbufs not on the free list

fvars == <<head, sbid_next, held>>

(* efct_vi_init: every head is -1; the descriptors are not initialised.  *)
(* The resource manager holds every superbuf.                             *)
Init ==
  /\ head = [q \in Qs |-> -1]
  /\ sbid_next = [d \in Descs |-> NoLink]
  /\ held = [q \in Qs |-> Sbs]

(* Mutant: the head is set before the link is written, so the new entry *)
(* links to itself.                                                       *)
efct_rx_sb_free_push_swapped(q, sb) ==
  /\ head' = [head EXCEPT ![q] = sb]
  /\ sbid_next' = [sbid_next EXCEPT ![DescFor[q, sb]] = head'[q]]

(* efct_rx_sb_free_push: the descriptor links to the old head, then the  *)
(* head is the superbuf.                                                  *)
efct_rx_sb_free_push(q, sb) ==
  /\ sbid_next' = [sbid_next EXCEPT ![DescFor[q, sb]] = head[q]]
  /\ head' = [head EXCEPT ![q] = sb]

(* efct_rx_sb_free_next: the link of superbuf sb of rxq q. *)
efct_rx_sb_free_next(q, sb) == sbid_next[DescFor[q, sb]]

(* A superbuf the VI gave back with ops->free is pushed. *)
FreePush(q, sb) ==
  /\ sb \in held[q]
  /\ efct_rx_sb_free_push(q, sb)
  /\ held' = [held EXCEPT ![q] = @ \ {sb}]

(* The resource manager takes the top superbuf to post it to the NIC.    *)
Take(q) ==
  /\ head[q] # -1
  /\ head' = [head EXCEPT ![q] = efct_rx_sb_free_next(q, head[q])]
  /\ held' = [held EXCEPT ![q] = @ \cup {head[q]}]
  /\ UNCHANGED sbid_next

Next == \E q \in Qs : Take(q) \/ \E sb \in Sbs : FreePush(q, sb)

Spec == Init /\ [][Next]_fvars

-----------------------------------------------------------------------------
(* The list of rxq q read from its head by following the links: at most  *)
(* one entry more than there are superbufs, so a cycle shows as a repeat; *)
(* a link that is not a superbuf index ends the walk.                     *)
RECURSIVE Walk(_, _, _)
Walk(q, sb, fuel) ==
  CASE sb = -1        -> <<>>
    [] sb \notin Sbs  -> <<sb>>
    [] fuel = 0       -> <<sb>>
    [] OTHER          -> <<sb>> \o Walk(q, efct_rx_sb_free_next(q, sb), fuel - 1)

FreeList(q) == Walk(q, head[q], Cardinality(Sbs))

TypeOK ==
  /\ head \in [Qs -> Sbs \cup {-1}]
  /\ sbid_next \in [Descs -> Sbs \cup {-1, NoLink}]
  /\ held \in [Qs -> SUBSET Sbs]

(* The intrusive lists implement SbFreeStack: the list read from each     *)
(* head is the abstract stack of free superbufs of that rxq.             *)
FreeLists == [q \in Qs |-> FreeList(q)]

Stack == INSTANCE SbFreeStack WITH stack <- FreeLists

=============================================================================
