-------------------------------- MODULE Sums --------------------------------
(***************************************************************************)
(* Sums of amounts that are not negative: of cents over the rows of a      *)
(* table, as COALESCE(SUM(amount), 0) takes them in the database.  A sum   *)
(* is the number of pieces that the amounts consist of, which lets proofs  *)
(* count them instead of following a recursion.                            *)
(***************************************************************************)
EXTENDS Integers, FiniteSets

\* A piece <<x, i>> for the i-th unit of x's amount.
Pieces(S, amount) == UNION {{x} \X (1 .. amount[x]) : x \in S}

Sum(S, amount) == Cardinality(Pieces(S, amount))
=============================================================================
