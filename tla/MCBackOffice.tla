---------------------------- MODULE MCBackOffice ----------------------------
(***************************************************************************)
(* Instances of BackOffice for TLC: rows, transfers, receipts and clerks   *)
(* are interchangeable model values.                                       *)
(***************************************************************************)
EXTENDS BackOffice, TLC

Symmetry ==
  Permutations(Rows) \cup Permutations(Transfers) \cup Permutations(Lines)
    \cup Permutations(Receipts) \cup Permutations(Clerks)
=============================================================================
