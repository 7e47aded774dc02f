------------------------------ MODULE MCEfctTx ------------------------------
EXTENDS EfctTx

(* The TX model needs no definitions of its own for TLC: every bound is  *)
(* a constant the .cfg files set.                                       *)
=============================================================================
