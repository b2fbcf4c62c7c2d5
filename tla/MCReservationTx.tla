--------------------------- MODULE MCReservationTx ---------------------------
(***************************************************************************)
(* Instances of ReservationTx for TLC.  Where every session may sweep, the *)
(* sessions are interchangeable too.                                       *)
(***************************************************************************)
EXTENDS ReservationTx, TLC

Symmetry == Permutations(Rows) \cup Permutations(Reservations)

SweepSymmetry == Symmetry \cup Permutations(Sessions)
=============================================================================
