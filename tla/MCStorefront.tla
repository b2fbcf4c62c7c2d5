---------------------------- MODULE MCStorefront ----------------------------
(***************************************************************************)
(* Instances of Storefront for TLC.                                        *)
(***************************************************************************)
EXTENDS Storefront, TLC

Symmetry == Permutations(Rows) \cup Permutations(Reservations) \cup Permutations(Orders)
=============================================================================
