------------------------------ MODULE Storefront ------------------------------
(***************************************************************************)
(* Storefront orders over the stock of Inventory: checkout, payment,       *)
(* cancellation, fulfilment and returns (orderService.ts), and what the    *)
(* expiry of a reservation does to the order it belongs to.                *)
(*                                                                         *)
(* Every operation is one transaction that locks its order row first, so   *)
(* each is one action.  The money of an order is counted in whole charges; *)
(* a return takes back whole order items.                                  *)
(***************************************************************************)
EXTENDS Inventory, Sums

CONSTANTS
  Orders,     \* orders, one for each checkout idempotency key
  NoOrder,    \* the reference of a reservation that is for no order
  ListLimit,  \* how many reservations one listing returns (50 in the code)
  MaxRepeats  \* how many lines of a cart may name one variant (a bound)

ASSUME NoOrderAssumption   == NoOrder \notin Orders
ASSUME ListLimitAssumption == ListLimit \in Nat \ {0}
ASSUME RepeatsAssumption   == MaxRepeats \in Nat \ {0}

VARIABLES
  orderStatus,   \* orders.status
  orderPayment,  \* orders.payment_status
  payment,       \* payments.status of the order's one payment row
  charges,       \* its POSTED CHARGE rows in payment_transactions
  voids,         \* its POSTED VOID rows
  lines,         \* the reservations its checkout made, one per variant
  items,         \* the order items, each of its quantity, behind a reservation
  returned,      \* how many of them have been returned
  reference      \* the order a reservation refers to

moneyVars == <<orderPayment, payment, charges, voids>>
orderVars == <<orderStatus, moneyVars, lines, items, returned, reference>>
storeVars == <<vars, orderVars>>

-----------------------------------------------------------------------------
Placed == {o \in Orders : orderStatus[o] # "none"}

ActiveFor(o) == {r \in WithStatus("ACTIVE") : reference[r] = o}

\* The reservations that an order's cancellation or fulfilment, or a client, has
\* let go of (and not the clock).
LetGo(o) ==
  {r \in Reservations : reference[r] = o /\ status[r] \in {"RELEASED", "FULFILLED"}}

\* listReservations without a limit of its own: at most ListLimit rows.  Those
\* of one checkout were created at the same instant, so any of them may be cut.
Listed(o) ==
  {S \in SUBSET ActiveFor(o) :
     \/ S = ActiveFor(o) /\ Cardinality(S) <= ListLimit
     \/ Cardinality(S) = ListLimit}

StoreInit ==
  /\ Init
  /\ orderStatus  = [o \in Orders |-> "none"]
  /\ orderPayment = [o \in Orders |-> "Pending"]
  /\ payment      = [o \in Orders |-> "Pending"]
  /\ charges      = [o \in Orders |-> 0]
  /\ voids        = [o \in Orders |-> 0]
  /\ lines        = [o \in Orders |-> {}]
  /\ items        = [r \in Reservations |-> 0]
  /\ returned     = [r \in Reservations |-> 0]
  /\ reference    = [r \in Reservations |-> NoOrder]

-----------------------------------------------------------------------------
\* placeStorefrontOrder: the idempotency claim, the order, its payment row and
\* its reservations commit together.  The line check looks at one item at a time
\* and only at on_hand and reserved; the reservation's own check sees quarantined
\* stock too.  Cart lines of one variant have one reservation key: the second
\* creation finds the first's reservation and is answered with it (or, with
\* another quantity, is a conflict that takes the checkout back), so that every
\* such line is an item of the order, and one of them is reserved.  A replay of
\* the checkout finds the claim and changes nothing.
PlaceOrder(o, S, rows, amounts, repeats) ==
  /\ orderStatus[o] = "none"
  /\ S # {}
  /\ \A r, x \in S : rows[r] = rows[x] => r = x
  /\ \A r \in S : onHand[rows[r]] - reserved[rows[r]] >= amounts[r]
  /\ Hold(S, rows, amounts, "never")
  /\ orderStatus' = [orderStatus EXCEPT ![o] = "Stock Reserved"]
  /\ lines'       = [lines EXCEPT ![o] = S]
  /\ items'       = [r \in Reservations |-> IF r \in S THEN repeats[r] ELSE items[r]]
  /\ reference'   = [r \in Reservations |-> IF r \in S THEN o ELSE reference[r]]
  /\ UNCHANGED <<moneyVars, returned>>

\* The orders that a payment request is for, and the POSTED CHARGE rows after a
\* confirmation; with a faulty variant of each, for OrdersMoveForward (a closed
\* order too) and for ChargedOnce (a charge on every call).
AnyPlaced(o) == o \in Placed

AwaitsPayment(o) == orderStatus[o] \in {"Stock Reserved", "Payment Confirmed"}

OneChargeMore(posted) == posted + 1

ChargesAfter(posted) == IF posted = 0 THEN 1 ELSE posted

\* confirmStorefrontPayment: a charge is posted unless one is there already.
ConfirmPayment(o) ==
  /\ AwaitsPayment(o)
  /\ payment[o] \in {"Pending", "Failed"}
  /\ orderPayment[o] \in {"Pending", "Failed"}
  /\ payment'      = [payment EXCEPT ![o] = "Completed"]
  /\ charges'      = [charges EXCEPT ![o] = ChargesAfter(@)]
  /\ orderPayment' = [orderPayment EXCEPT ![o] = "Paid"]
  /\ orderStatus'  = [orderStatus EXCEPT ![o] = "Payment Confirmed"]
  /\ UNCHANGED <<vars, voids, lines, items, returned, reference>>

\* failStorefrontPayment
FailPayment(o) ==
  /\ AwaitsPayment(o)
  /\ orderPayment[o] # "Paid"
  /\ payment'      = [payment EXCEPT ![o] = "Failed"]
  /\ orderPayment' = [orderPayment EXCEPT ![o] = "Failed"]
  /\ UNCHANGED <<vars, orderStatus, charges, voids, lines, items, returned, reference>>

\* What a void makes of an order's payment status, and a faulty variant, for
\* StoreTypeOK: the status of the payment row, which an order does not have.
SameAsPaymentRow == "Voided"

AfterVoid == "Failed"

\* voidStorefrontPayment: the order keeps its status and its stock.  A second
\* void of the same payment row returns without doing anything.
VoidPayment(o) ==
  /\ AwaitsPayment(o)
  /\ orderPayment[o] = "Paid"
  /\ voids[o] = 0
  /\ voids'        = [voids EXCEPT ![o] = 1]
  /\ payment'      = [payment EXCEPT ![o] = "Voided"]
  /\ orderPayment' = [orderPayment EXCEPT ![o] = AfterVoid]
  /\ UNCHANGED <<vars, orderStatus, charges, lines, items, returned, reference>>

\* A faulty variant, for PromiseSpec: the reservations are marked RELEASED and
\* the stock they hold stays reserved.
CancelKeepingStock(o) ==
  /\ orderStatus[o] \in {"Stock Reserved", "Payment Confirmed", "Refunded"}
  /\ orderPayment[o] \notin {"Paid", "Partially Refunded"}
  /\ \E S \in Listed(o) : status' = SetStatus(S, "RELEASED")
  /\ orderStatus' = [orderStatus EXCEPT ![o] = "Cancelled"]
  /\ UNCHANGED <<balanceVars, ledgerVars, holdVars, expiry, overridden,
                 moneyVars, lines, items, returned, reference>>

\* cancelStorefrontOrder: an order that was refunded may be cancelled too.
CancelOrder(o) ==
  /\ orderStatus[o] \in {"Stock Reserved", "Payment Confirmed", "Refunded"}
  /\ orderPayment[o] \notin {"Paid", "Partially Refunded"}
  /\ \E S \in Listed(o) : GiveBack(S, "RELEASED")
  /\ orderStatus' = [orderStatus EXCEPT ![o] = "Cancelled"]
  /\ UNCHANGED <<moneyVars, lines, items, returned, reference>>

\* fulfillStorefrontOrder
FulfillOrder(o) ==
  /\ orderStatus[o] \in {"Stock Reserved", "Payment Confirmed", "Refunded"}
  /\ orderPayment[o] = "Paid"
  /\ \E S \in Listed(o) : S # {} /\ Fulfill(S)
  /\ orderStatus' = [orderStatus EXCEPT ![o] = "Completed"]
  /\ UNCHANGED <<moneyVars, lines, items, returned, reference>>

\* refundOrder, taking back takes[r] of the items behind r: what it may take is
\* what the order's items add up to, whatever became of their reservations.  The
\* goods go back on hand, and the order is refunded when nothing of it is left.
RefundOrder(o, takes) ==
  LET back == [r \in lines[o] |-> takes[r] * quantity[r]]
      all  == \A r \in lines[o] : returned[r] + takes[r] = items[r]
  IN  /\ orderStatus[o] \in {"Completed", "Refunded"}
      /\ orderPayment[o] \in {"Paid", "Partially Refunded", "Refunded"}
      /\ \E r \in lines[o] : takes[r] > 0
      /\ \A r \in lines[o] : returned[r] + takes[r] <= items[r]
      /\ charges[o] = 1
      /\ Post([row \in Rows |-> Sum({r \in lines[o] : rowOf[r] = row}, back)])
      /\ returned' = [r \in Reservations |->
                        returned[r] + IF r \in lines[o] THEN takes[r] ELSE 0]
      /\ payment'  = [payment EXCEPT ![o] = IF all THEN "Refunded" ELSE @]
      /\ orderPayment' =
           [orderPayment EXCEPT ![o] = IF all THEN "Refunded" ELSE "Partially Refunded"]
      /\ orderStatus' = [orderStatus EXCEPT ![o] = IF all THEN "Refunded" ELSE @]
      /\ UNCHANGED <<charges, voids, lines, items, reference>>

-----------------------------------------------------------------------------
\* POST /reservations: the client may name any order, open or closed.
AttachReservation(r, row, q, expires, o) ==
  /\ CreateReservation(r, row, q, expires)
  /\ reference' = [reference EXCEPT ![r] = o]
  /\ UNCHANGED <<orderStatus, moneyVars, lines, items, returned>>

\* Whether the expiry of r closes the order o; with two faulty variants: the
\* order's status does not matter, for PaidOrderStands, or its other lines do
\* not, for ClosedOrderSettled.
LastLine(o, r) == ActiveFor(o) = {r}

StillUnpaid(o, r) == orderStatus[o] = "Stock Reserved"

ClosesOrder(o, r) == orderStatus[o] = "Stock Reserved" /\ ActiveFor(o) = {r}

\* expireStaleReservations: with the last ACTIVE reservation of an order that
\* is still waiting for payment, the order is cancelled.
ExpireForOrder(r) ==
  /\ ExpireReservation(r)
  /\ orderStatus' = [o \in Orders |-> IF o = reference[r] /\ ClosesOrder(o, r)
                                      THEN "Cancelled" ELSE orderStatus[o]]
  /\ UNCHANGED <<moneyVars, lines, items, returned, reference>>

\* The inventory routes that settle one reservation leave its order alone.
SettleOne(r) ==
  /\ ReleaseReservation(r) \/ CancelReservation(r) \/ FulfillReservation(r)
  /\ UNCHANGED orderVars

OrderNext ==
  \E o \in Orders :
    \/ \E S \in SUBSET WithStatus("NONE") :
         \E rows \in [S -> Rows], amounts \in [S -> Quantities],
            repeats \in [S -> 1 .. MaxRepeats] :
           PlaceOrder(o, S, rows, amounts, repeats)
    \/ ConfirmPayment(o)
    \/ FailPayment(o)
    \/ VoidPayment(o)
    \/ CancelOrder(o)
    \/ FulfillOrder(o)
    \/ \E takes \in [lines[o] -> 0 .. MaxRepeats] : RefundOrder(o, takes)

HoldNext ==
  \E r \in Reservations :
    \/ \E row \in Rows, q \in Quantities, expires \in {"never", "ahead"},
         o \in Placed \cup {NoOrder} : AttachReservation(r, row, q, expires, o)
    \/ SettleOne(r)
    \/ ExpireForOrder(r)
    \/ ExpiryPasses(r) /\ UNCHANGED orderVars

StoreNext ==
  \/ OrderNext
  \/ HoldNext
  \/ StockNext /\ UNCHANGED orderVars

StoreSpec == StoreInit /\ [][StoreNext]_storeVars

-----------------------------------------------------------------------------
StoreTypeOK ==
  /\ orderStatus  \in [Orders -> {"none", "Stock Reserved", "Payment Confirmed",
                                  "Completed", "Cancelled", "Refunded"}]
  /\ orderPayment \in [Orders -> {"Pending", "Paid", "Failed",
                                  "Partially Refunded", "Refunded"}]
  /\ payment      \in [Orders -> {"Pending", "Completed", "Failed", "Voided",
                                  "Refunded"}]
  /\ charges      \in [Orders -> Nat]
  /\ voids        \in [Orders -> Nat]
  /\ lines        \in [Orders -> SUBSET Reservations]
  /\ items        \in [Reservations -> 0 .. MaxRepeats]
  /\ returned     \in [Reservations -> 0 .. MaxRepeats]
  /\ reference    \in [Reservations -> Orders \cup {NoOrder}]

\* A paid order is never cancelled under its customer, neither by the merchant
\* nor by the expiry worker that runs beside the payment confirmation, and it
\* does not go on waiting for a payment.
PaidOrderStands ==
  \A o \in Orders :
    orderPayment[o] = "Paid" => orderStatus[o] \in {"Payment Confirmed", "Completed"}

\* However often a payment fails, is confirmed again or is voided in between,
\* one charge is posted, and no order counts as paid or refunded without it.
ChargedOnce ==
  \A o \in Orders :
    /\ charges[o] <= 1
    /\ orderPayment[o] \in {"Paid", "Partially Refunded", "Refunded"} => charges[o] = 1

\* Once an order is closed, none of the stock its checkout reserved is still
\* held, unless as many of its reservations as one listing returns were released
\* or fulfilled: cancelling and fulfilling list them once (a cart may have more
\* lines than that), whatever other reservations refer to the order, and the
\* expiry of a line closes the order only if it is the last.  The code's comments
\* promise more: to "release all ACTIVE reservations", and that "every active
\* reservation becomes fulfilled".
ClosedOrderSettled ==
  \A o \in Orders :
    orderStatus[o] \in {"Completed", "Cancelled", "Refunded"} =>
      \/ lines[o] \cap WithStatus("ACTIVE") = {}
      \/ Cardinality(LetGo(o)) >= ListLimit

\* What comes back from a customer had left the stock: no more of a line is
\* returned than its fulfilled reservation took.
ReturnsWereSold ==
  \A r \in Reservations :
    returned[r] * quantity[r] <= IF status[r] = "FULFILLED" THEN quantity[r] ELSE 0

\* The steps of an order's status, and nothing else of what is settled about
\* it is rewritten: its lines are those of the checkout with their items, and
\* what was returned of them stays returned and is never more than was ordered.
KeepsMoving(o) ==
  /\ orderStatus[o] # "none" =>
       /\ lines'[o] = lines[o]
       /\ \A r \in lines[o] :
            items'[r] = items[r] /\ returned'[r] \in returned[r] .. items[r]
  /\ \/ orderStatus'[o] = orderStatus[o]
     \/ <<orderStatus[o], orderStatus'[o]>> \in
          {<<"none", "Stock Reserved">>,
           <<"Stock Reserved", "Payment Confirmed">>,
           <<"Stock Reserved", "Cancelled">>,
           <<"Payment Confirmed", "Cancelled">>,
           <<"Payment Confirmed", "Completed">>,
           <<"Completed", "Refunded">>,
           <<"Refunded", "Cancelled">>}

\* An order goes through those steps only: no late confirmation, expiry or
\* repeated request reopens a closed order or completes an unpaid one.
OrdersMoveForward == [][\A o \in Orders : KeepsMoving(o)]_storeVars
=============================================================================
