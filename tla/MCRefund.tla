------------------------------ MODULE MCRefund ------------------------------
(***************************************************************************)
(* Instances of Refund for TLC.                                            *)
(***************************************************************************)
EXTENDS Refund, TLC

Symmetry == Permutations(Variants) \cup Permutations(Keys)
=============================================================================
