-------------------------------- MODULE Refund --------------------------------
(***************************************************************************)
(* The money of the returns of one paid order (orderService.refundOrder):  *)
(* partial returns by variant, their amounts in whole cents, and requests  *)
(* that are repeated under an Idempotency-Key.                             *)
(*                                                                         *)
(* Each call locks the order row first, so each is one action.  What a     *)
(* return does to the stock and to the order's status is RefundOrder of    *)
(* Storefront.tla; here the order is one that was completed and charged.   *)
(***************************************************************************)
EXTENDS Integers, Sums

CONSTANTS
  Variants,     \* the variants on the order
  MaxSold,      \* the largest quantity of one (a bound)
  MaxCents,     \* the largest total of its lines, tax included (a bound)
  MaxShipping,  \* the largest shipping fee (a bound)
  Keys,         \* Idempotency-Keys
  NoKey         \* a request without one

ASSUME MaxSoldAssumption     == MaxSold \in Nat \ {0}
ASSUME MaxCentsAssumption    == MaxCents \in Nat
ASSUME MaxShippingAssumption == MaxShipping \in Nat
ASSUME NoKeyAssumption       == NoKey \notin Keys

ASSUME VariantsAssumption    == IsFiniteSet(Variants)
ASSUME KeysAssumption        == IsFiniteSet(Keys)

VARIABLES
  sold,          \* order_items.quantity, summed by variant
  lineTotal,     \* order_items.total_amount, summed by variant
  total,         \* orders.total_amount, which is the amount captured
  returned,      \* pos_return_items.quantity, summed by variant
  lineRefunded,  \* pos_return_items.refund_amount, summed by variant
  refunded,      \* the sum of the order's POSTED REFUND rows
  orderPayment,  \* orders.payment_status
  answered,      \* what the REFUND row of each key returned
  unkeyed        \* history: what requests without a key returned

orderVars  == <<sold, lineTotal, total>>
refundVars == <<orderVars, returned, lineRefunded, refunded, orderPayment, answered, unkeyed>>

-----------------------------------------------------------------------------
Amounts == [Variants -> 0 .. MaxSold]
Nothing == [v \in Variants |-> 0]

Plus(f, g) == [v \in Variants |-> f[v] + g[v]]

\* The quantity of a variant that may still be returned; with a faulty variant,
\* for RefundTypeOK, that forgets earlier returns.
RemainingAtFirst(v) == sold[v]

Remaining(v) == sold[v] - returned[v]

Listed(request) == {v \in Variants : request[v] > 0}

\* localDivideRoundHalfUp; with a faulty variant, for FairShares.
RoundUp(n, d) == (n + d - 1) \div d

RoundHalfUp(n, d) == (n + d \div 2) \div d

\* The refund of a return line, in proportion to the variant's lines.
Cents(request) == [v \in Variants |-> RoundHalfUp(lineTotal[v] * request[v], sold[v])]

Calculated(request) == Sum(Listed(request), Cents(request))

\* Whether nothing remains on the order after the return; with a faulty variant,
\* for RefundedToTheCent, that looks only at the variants of the request.
TakesTheRestOfItsLines(request) == \A v \in Listed(request) : request[v] = Remaining(v)

TakesTheRest(request) == \A v \in Variants : request[v] = Remaining(v)

\* The last return is of all that was not refunded yet.
Amount(request) ==
  IF TakesTheRest(request) THEN total - refunded ELSE Calculated(request)

\* The refund of each line: the last one gets the residual of the last return.
\* With a faulty variant, for LedgersAgree, that leaves the residual out.
LinesWithoutResidual(request, last) ==
  [v \in Variants |-> IF v \in Listed(request) THEN Cents(request)[v] ELSE 0]

LineCents(request, last) ==
  [v \in Variants |->
     IF v \notin Listed(request) THEN 0
     ELSE Cents(request)[v]
            + (IF v = last THEN Amount(request) - Calculated(request) ELSE 0)]

\* A request whose key has a REFUND row already is answered with the order as
\* it is, or refused as a conflict; with a faulty variant, for KeyRefundsOnce.
AnyKey(k) == k \in Keys \cup {NoKey}

FreshKey(k) == k = NoKey \/ (k \in Keys /\ answered[k] = Nothing)

RefundInit ==
  /\ sold      \in [Variants -> 1 .. MaxSold]
  /\ lineTotal \in [Variants -> 0 .. MaxCents]
  /\ \E shipping \in 0 .. MaxShipping : total = Sum(Variants, lineTotal) + shipping
  /\ total \in Nat
  /\ returned     = Nothing
  /\ lineRefunded = Nothing
  /\ refunded     = 0
  /\ orderPayment = "Paid"
  /\ answered     = [k \in Keys |-> Nothing]
  /\ unkeyed      = Nothing

\* refundOrder, for the quantities that the request lists or, if it lists none,
\* for all that remains.
Return(request, k) ==
  /\ FreshKey(k)
  /\ Listed(request) # {}
  /\ \A v \in Variants : request[v] <= Remaining(v)
  /\ refunded < total
  /\ \A v \in Listed(request) : Cents(request)[v] > 0
  /\ TakesTheRest(request) => Calculated(request) <= total - refunded
  /\ Amount(request) \in 1 .. total - refunded
  /\ returned' = Plus(returned, request)
  /\ \E last \in Listed(request) : lineRefunded' = Plus(lineRefunded, LineCents(request, last))
  /\ refunded' = refunded + Amount(request)
  /\ orderPayment' = IF TakesTheRest(request) THEN "Refunded" ELSE "Partially Refunded"
  /\ answered' = [x \in Keys |-> IF x = k THEN request ELSE answered[x]]
  /\ unkeyed'  = IF k = NoKey THEN Plus(unkeyed, request) ELSE unkeyed
  /\ UNCHANGED orderVars

RefundNext == \E request \in Amounts, k \in Keys \cup {NoKey} : Return(request, k)

RefundSpec == RefundInit /\ [][RefundNext]_refundVars

-----------------------------------------------------------------------------
RefundTypeOK ==
  /\ sold      \in [Variants -> 1 .. MaxSold]
  /\ lineTotal \in [Variants -> 0 .. MaxCents]
  /\ total     \in Nat
  /\ returned  \in Amounts
  /\ lineRefunded \in [Variants -> Nat]
  /\ refunded     \in Nat
  /\ orderPayment \in {"Paid", "Partially Refunded", "Refunded"}
  /\ answered     \in [Keys -> Amounts]
  /\ unkeyed      \in Amounts

\* However an order is split into returns and whatever they round to, never
\* more than was captured is refunded, and an order counts as refunded exactly
\* when all of it came back and every cent, shipping included, was refunded.
RefundedToTheCent ==
  /\ refunded <= total
  /\ orderPayment = "Refunded" <=> returned = sold
  /\ orderPayment = "Refunded" => refunded = total

\* The return lines and the payment ledger, written by separate statements of
\* the code, tell the same refund.
LedgersAgree == Sum(Variants, lineRefunded) = refunded

\* Until the last return, a customer who returns a variant bit by bit is within
\* half a cent for each unit of its share of the lines' total.
FairShares ==
  orderPayment # "Refunded" =>
    \A v \in Variants :
      LET error == sold[v] * lineRefunded[v] - lineTotal[v] * returned[v]
      IN  2 * error \in -sold[v] * returned[v] .. sold[v] * returned[v]

\* A key refunds once: what came back is what requests without a key returned
\* and what each key's one REFUND row stands for, however often it is repeated.
KeyRefundsOnce ==
  \A v \in Variants :
    returned[v] = unkeyed[v] + Sum(Keys, [k \in Keys |-> answered[k][v]])
=============================================================================
