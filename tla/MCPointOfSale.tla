--------------------------- MODULE MCPointOfSale ---------------------------
(***************************************************************************)
(* The till on a small instance.                                           *)
(***************************************************************************)
EXTENDS PointOfSale, TLC

\* Sales and sessions are told apart by nothing but their state.
Symmetry == Permutations(Sessions) \cup Permutations(Sales)
=============================================================================
