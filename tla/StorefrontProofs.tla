--------------------------- MODULE StorefrontProofs ---------------------------
(***************************************************************************)
(* Proofs about Storefront for any orders, rows and quantities.  The       *)
(* orders only ever touch the stock through the transactions of Inventory, *)
(* so what is proved of those holds under checkout, cancellation,          *)
(* fulfilment and returns as well.                                         *)
(***************************************************************************)
EXTENDS Storefront, InventoryProofs, SumsProofs

\* The reservations of an order's lines refer to the order.  This is how
\* cancelling and fulfilling find them, and why no other order settles them.
LinesOwned ==
  \A o \in Orders : \A r \in lines[o] : reference[r] = o /\ status[r] # "NONE"

OrderInvariant == StoreTypeOK /\ PaidOrderStands /\ ChargedOnce /\ LinesOwned

\* No more items come back than were ordered.
ReturnsWithinItems ==
  \A r \in Reservations :
    returned[r] <= items[r] /\ (status[r] = "NONE" => returned[r] = 0)

StoreInvariant == StockInvariant /\ OrderInvariant /\ ReturnsWithinItems

\* A bounded count is a number.
LEMMA Repeated ==
  ASSUME NEW f \in [Reservations -> 0 .. MaxRepeats], NEW r \in Reservations
  PROVE  f[r] \in Nat
<1>1. f[r] \in 0 .. MaxRepeats
  OBVIOUS
<1>2. QED
  BY <1>1, RepeatsAssumption

\* The items of an order and those returned are numbers.
LEMMA ItemCounts ==
  ASSUME StoreInvariant, NEW r \in Reservations
  PROVE  items[r] \in Nat /\ returned[r] \in Nat
<1>1. /\ items \in [Reservations -> 0 .. MaxRepeats]
      /\ returned \in [Reservations -> 0 .. MaxRepeats]
  BY DEF StoreInvariant, OrderInvariant, StoreTypeOK
<1>2. QED
  BY <1>1, Repeated

-----------------------------------------------------------------------------
(* Every step of the storefront is a transaction of Inventory, or leaves   *)
(* the stock alone.                                                        *)

\* What a listing returns are ACTIVE reservations of the order.
LEMMA ListedActive ==
  ASSUME NEW o, NEW S \in Listed(o)
  PROVE  S \in SUBSET Reservations /\ S \subseteq ActiveFor(o)
BY DEF Listed, ActiveFor, WithStatus

\* The items that a return takes back of each line are a number of units, and so
\* is what comes back to a row.
LEMMA BackIsUnits ==
  ASSUME StoreInvariant, NEW o \in Orders,
         NEW takes \in [lines[o] -> 0 .. MaxRepeats],
         NEW back, back = [r \in lines[o] |-> takes[r] * quantity[r]],
         NEW T \in SUBSET lines[o]
  PROVE  Sum(T, back) \in Nat
<1>1. lines[o] \in SUBSET Reservations
  BY DEF StoreInvariant, OrderInvariant, StoreTypeOK
<1>2. IsFiniteSet(T)
  BY <1>1, ReservationsAssumption, FS_Subset
<1>3. ASSUME NEW r \in T PROVE back[r] \in Nat
  <2>1. r \in Reservations
    BY <1>1
  <2>2. quantity[r] \in Nat
    BY <2>1, MaxQuantityAssumption DEF StoreInvariant, StockInvariant, TypeOK
  <2>3. takes[r] \in Nat
    BY RepeatsAssumption
  <2>4. \A a, b \in Nat : a * b \in Nat
    OBVIOUS
  <2>5. QED
    BY <2>2, <2>3, <2>4
<1>4. QED
  BY <1>2, <1>3, SumType

\* The quantities that a return puts back are quantities Post accepts.
LEMMA RefundPosts ==
  ASSUME StoreInvariant, NEW o \in Orders,
         NEW takes \in [lines[o] -> 0 .. MaxRepeats], RefundOrder(o, takes)
  PROVE  PromiseNext
<1> DEFINE back == [r \in lines[o] |-> takes[r] * quantity[r]]
           change == [row \in Rows |-> Sum({r \in lines[o] : rowOf[r] = row}, back)]
<1>1. \A row \in Rows : change[row] \in Nat
  BY BackIsUnits
<1>2. Post(change)
  BY DEF RefundOrder
<1>3. change = [row \in Rows |-> change[row]]
  OBVIOUS
<1> HIDE DEF change
<1>4. \A row \in Rows : change[row] \in 0 .. 2 * ColumnMax
  <2> SUFFICES ASSUME NEW row \in Rows
               PROVE  change[row] \in 0 .. 2 * ColumnMax
    OBVIOUS
  <2>1. CASE change[row] = 0
    BY <2>1, ColumnMaxAssumption
  <2>2. CASE change[row] > 0
    <3>1. onHand[row] + change[row] \in Column
      BY <1>2, <2>2 DEF Post, MovementAccepted
    <3>2. onHand[row] \in Column
      BY DEF StoreInvariant, StockInvariant, TypeOK
    <3>3. QED
      BY <1>1, <3>1, <3>2, ColumnMaxAssumption DEF Column
  <2>3. QED
    BY <1>1, <2>1, <2>2
<1>5. change \in [Rows -> -2 * ColumnMax .. 2 * ColumnMax]
  BY <1>3, <1>4, ColumnMaxAssumption
<1>6. QED
  BY <1>2, <1>5 DEF PromiseNext

\* The operations on orders.
LEMMA OrderStepIsPromise ==
  ASSUME StoreInvariant, OrderNext
  PROVE  [PromiseNext]_vars
<1> PICK o \in Orders :
      \/ \E S \in SUBSET WithStatus("NONE") :
           \E rows \in [S -> Rows], amounts \in [S -> Quantities],
              repeats \in [S -> 1 .. MaxRepeats] :
             PlaceOrder(o, S, rows, amounts, repeats)
      \/ ConfirmPayment(o)
      \/ FailPayment(o)
      \/ VoidPayment(o)
      \/ CancelOrder(o)
      \/ FulfillOrder(o)
      \/ \E takes \in [lines[o] -> 0 .. MaxRepeats] : RefundOrder(o, takes)
  BY DEF OrderNext
<1>1. ASSUME NEW S \in SUBSET WithStatus("NONE"), NEW rows \in [S -> Rows],
             NEW amounts \in [S -> Quantities],
             NEW repeats \in [S -> 1 .. MaxRepeats],
             PlaceOrder(o, S, rows, amounts, repeats)
      PROVE  PromiseNext
  <2>1. S \in SUBSET Reservations
    BY DEF WithStatus
  <2>2. QED
    BY <1>1, <2>1 DEF PlaceOrder, PromiseNext
<1>2. CASE ConfirmPayment(o) \/ FailPayment(o) \/ VoidPayment(o)
  BY <1>2 DEF ConfirmPayment, FailPayment, VoidPayment
<1>3. CASE CancelOrder(o)
  <2>1. PICK S \in Listed(o) : GiveBack(S, "RELEASED")
    BY <1>3 DEF CancelOrder
  <2>2. QED
    BY <2>1, ListedActive DEF PromiseNext, Settled
<1>4. CASE FulfillOrder(o)
  <2>1. PICK S \in Listed(o) : Fulfill(S)
    BY <1>4 DEF FulfillOrder
  <2>2. QED
    BY <2>1, ListedActive DEF PromiseNext
<1>5. ASSUME NEW takes \in [lines[o] -> 0 .. MaxRepeats], RefundOrder(o, takes)
      PROVE  PromiseNext
  BY <1>5, RefundPosts
<1>6. QED
  BY <1>1, <1>2, <1>3, <1>4, <1>5

\* The operations on single reservations, the worker's among them.
LEMMA HoldStepIsPromise ==
  ASSUME HoldNext
  PROVE  PromiseNext
<1> PICK r \in Reservations :
      \/ \E row \in Rows, q \in Quantities, expires \in {"never", "ahead"},
           o \in Placed \cup {NoOrder} : AttachReservation(r, row, q, expires, o)
      \/ SettleOne(r)
      \/ ExpireForOrder(r)
      \/ ExpiryPasses(r) /\ UNCHANGED orderVars
  BY DEF HoldNext
<1>1. ASSUME NEW row \in Rows, NEW q \in Quantities,
             NEW expires \in {"never", "ahead"}, CreateReservation(r, row, q, expires)
      PROVE  Next
  BY <1>1 DEF Next, ReservationNext
<1>2. CASE SettleOne(r)
  BY <1>2, NextIsPromise DEF SettleOne, Next, ReservationNext
<1>3. CASE ExpireForOrder(r)
  BY <1>3, NextIsPromise DEF ExpireForOrder, Next, ReservationNext
<1>4. CASE ExpiryPasses(r)
  BY <1>4 DEF PromiseNext
<1>5. QED
  BY <1>1, <1>2, <1>3, <1>4, NextIsPromise DEF AttachReservation

\* Together: the refinement of one step.
LEMMA StoreStepIsPromise ==
  ASSUME StoreInvariant, [StoreNext]_storeVars
  PROVE  [PromiseNext]_vars
<1>1. CASE OrderNext
  BY <1>1, OrderStepIsPromise
<1>2. CASE HoldNext
  BY <1>2, HoldStepIsPromise
<1>3. CASE StockNext
  BY <1>3 DEF PromiseNext
<1>4. CASE UNCHANGED storeVars
  BY <1>4 DEF storeVars
<1>5. QED
  BY <1>1, <1>2, <1>3, <1>4 DEF StoreNext

-----------------------------------------------------------------------------
(* The inductive invariant.                                                *)

\* It holds before the first order.
LEMMA StoreInitInvariant == StoreInit => StoreInvariant
<1> SUFFICES ASSUME StoreInit PROVE StoreInvariant
  OBVIOUS
<1>1. StockInvariant
  BY InitStock DEF StoreInit
<1>2. StoreTypeOK /\ PaidOrderStands /\ ChargedOnce /\ LinesOwned
  <2>1. 0 \in 0 .. MaxRepeats
    BY RepeatsAssumption
  <2>2. StoreTypeOK
    BY <2>1 DEF StoreInit, StoreTypeOK
  <2>3. PaidOrderStands /\ ChargedOnce /\ LinesOwned
    BY DEF StoreInit, PaidOrderStands, ChargedOnce, LinesOwned
  <2>4. QED
    BY <2>2, <2>3
<1>3. ReturnsWithinItems
  BY DEF StoreInit, ReturnsWithinItems
<1>4. QED
  BY <1>1, <1>2, <1>3 DEF StoreInvariant, OrderInvariant

\* A step that leaves the lines and the references of existing reservations
\* alone leaves the lines owned by their orders.
LEMMA LinesKept ==
  ASSUME StoreInvariant, [PromiseNext]_vars, UNCHANGED lines,
         \A r \in Reservations : status[r] # "NONE" => reference'[r] = reference[r]
  PROVE  LinesOwned'
<1> SUFFICES ASSUME NEW o \in Orders, NEW r \in lines[o]
             PROVE  reference'[r] = o /\ status'[r] # "NONE"
  BY DEF LinesOwned
<1>1. r \in Reservations
  BY DEF StoreInvariant, OrderInvariant, StoreTypeOK
<1>2. reference[r] = o /\ status[r] # "NONE"
  BY DEF StoreInvariant, OrderInvariant, LinesOwned
<1>3. KeepsSettlement(r)
  BY <1>1, StepKeepsSettlement DEF StoreInvariant, StockInvariant
<1>4. QED
  BY <1>1, <1>2, <1>3 DEF KeepsSettlement, Settled

\* Checkout: the new lines refer to the new order, and none was a line before.
LEMMA PlaceOrderStep ==
  ASSUME StoreInvariant, NEW o \in Orders, NEW S \in SUBSET WithStatus("NONE"),
         NEW rows \in [S -> Rows], NEW amounts \in [S -> Quantities],
         NEW repeats \in [S -> 1 .. MaxRepeats],
         PlaceOrder(o, S, rows, amounts, repeats)
  PROVE  OrderInvariant'
<1> USE DEF StoreInvariant, OrderInvariant
<1>1. S \in SUBSET Reservations
  BY DEF WithStatus
<1>2. StoreTypeOK'
  <2>1. items' \in [Reservations -> 0 .. MaxRepeats]
    <3>1. \A r \in S : repeats[r] \in 0 .. MaxRepeats
      BY RepeatsAssumption
    <3>2. \A r \in Reservations : items[r] \in 0 .. MaxRepeats
      BY DEF StoreTypeOK
    <3>3. QED
      BY <3>1, <3>2 DEF PlaceOrder
  <2>2. /\ orderStatus' \in [Orders -> {"none", "Stock Reserved", "Payment Confirmed",
                                        "Completed", "Cancelled", "Refunded"}]
        /\ lines' \in [Orders -> SUBSET Reservations]
        /\ reference' \in [Reservations -> Orders \cup {NoOrder}]
    BY <1>1 DEF PlaceOrder, StoreTypeOK
  <2>3. QED
    BY <2>1, <2>2 DEF PlaceOrder, StoreTypeOK, moneyVars
<1>3. PaidOrderStands'
  BY DEF PlaceOrder, PaidOrderStands, StoreTypeOK, moneyVars
<1>4. ChargedOnce'
  BY DEF PlaceOrder, ChargedOnce, moneyVars
<1>5. ASSUME NEW x \in Orders, NEW r \in lines'[x]
      PROVE  reference'[r] = x /\ status'[r] # "NONE"
  <2>1. CASE x = o
    <3>1. r \in S /\ r \in Reservations
      BY <1>1, <1>5, <2>1 DEF PlaceOrder, StoreTypeOK
    <3>2. QED
      BY <2>1, <3>1 DEF PlaceOrder, Hold, SetStatus
  <2>2. CASE x # o
    <3>1. r \in lines[x] /\ r \in Reservations
      BY <1>5, <2>2 DEF PlaceOrder, StoreTypeOK
    <3>2. reference[r] = x /\ status[r] # "NONE"
      BY <3>1 DEF LinesOwned
    <3>3. r \notin S
      BY <3>2 DEF WithStatus
    <3>4. QED
      BY <3>1, <3>2, <3>3 DEF PlaceOrder, Hold, SetStatus
  <2>3. QED
    BY <2>1, <2>2
<1>6. LinesOwned'
  BY <1>5 DEF LinesOwned
<1>7. QED
  BY <1>2, <1>3, <1>4, <1>6

\* The payment of an order: its stock is not touched.
LEMMA PaymentStep ==
  ASSUME StoreInvariant, NEW o \in Orders,
         ConfirmPayment(o) \/ FailPayment(o) \/ VoidPayment(o)
  PROVE  OrderInvariant'
<1> USE DEF StoreInvariant, OrderInvariant
<1>1. LinesOwned'
  BY DEF ConfirmPayment, AwaitsPayment, FailPayment, VoidPayment, LinesOwned, vars
<1>2. CASE ConfirmPayment(o)
  <2>1. StoreTypeOK'
    BY <1>2 DEF ConfirmPayment, AwaitsPayment, ChargesAfter, StoreTypeOK, vars
  <2>2. PaidOrderStands'
    BY <1>2 DEF ConfirmPayment, AwaitsPayment, StoreTypeOK, PaidOrderStands
  <2>3. ChargedOnce'
    <3>1. charges[o] \in Nat /\ charges[o] <= 1
      BY DEF StoreTypeOK, ChargedOnce
    <3>2. charges[o] = 0 \/ charges[o] = 1
      BY <3>1
    <3>3. charges' = [charges EXCEPT ![o] = 1]
      BY <1>2, <3>2 DEF ConfirmPayment, ChargesAfter
    <3>4. orderPayment' = [orderPayment EXCEPT ![o] = "Paid"]
      BY <1>2 DEF ConfirmPayment
    <3>5. SUFFICES ASSUME NEW x \in Orders
                   PROVE  /\ charges'[x] <= 1
                          /\ orderPayment'[x] \in {"Paid", "Partially Refunded", "Refunded"}
                               => charges'[x] = 1
      BY DEF ChargedOnce
    <3>6. CASE x = o
      <4>1. charges'[x] = 1
        BY <3>3, <3>6 DEF StoreTypeOK
      <4>2. QED
        BY <4>1
    <3>7. CASE x # o
      BY <3>3, <3>4, <3>7 DEF StoreTypeOK, ChargedOnce
    <3>8. QED
      BY <3>6, <3>7
  <2>4. QED
    BY <1>1, <2>1, <2>2, <2>3
<1>3. CASE FailPayment(o)
  <2>1. StoreTypeOK'
    BY <1>3 DEF FailPayment, AwaitsPayment, StoreTypeOK, vars
  <2>2. PaidOrderStands' /\ ChargedOnce'
    BY <1>3
       DEF FailPayment, AwaitsPayment, StoreTypeOK, PaidOrderStands, ChargedOnce
  <2>3. QED
    BY <1>1, <2>1, <2>2
<1>4. CASE VoidPayment(o)
  <2>1. StoreTypeOK'
    BY <1>4 DEF VoidPayment, AwaitsPayment, AfterVoid, StoreTypeOK, vars
  <2>2. PaidOrderStands' /\ ChargedOnce'
    BY <1>4
       DEF VoidPayment, AwaitsPayment, AfterVoid, StoreTypeOK, PaidOrderStands, ChargedOnce
  <2>3. QED
    BY <1>1, <2>1, <2>2
<1>5. QED
  BY <1>2, <1>3, <1>4

\* What one line gets back.
LEMMA ReturnGrows ==
  ASSUME StoreInvariant, NEW o \in Orders,
         NEW takes \in [lines[o] -> 0 .. MaxRepeats], RefundOrder(o, takes),
         NEW r \in Reservations
  PROVE  /\ returned'[r] \in Int /\ returned'[r] >= returned[r]
         /\ r \in lines[o] => returned'[r] <= items[r]
         /\ r \notin lines[o] => returned'[r] = returned[r]
<1>1. returned[r] \in Nat /\ items[r] \in Nat
  BY ItemCounts
<1>2. CASE r \in lines[o]
  <2>1. takes[r] \in Nat
    BY <1>2, RepeatsAssumption
  <2>2. returned'[r] = returned[r] + takes[r]
    BY <1>2 DEF RefundOrder
  <2>3. returned[r] + takes[r] <= items[r]
    BY <1>2 DEF RefundOrder
  <2>4. QED
    BY <1>1, <1>2, <2>1, <2>2, <2>3
<1>3. CASE r \notin lines[o]
  <2>1. returned'[r] = returned[r] + 0
    BY <1>3 DEF RefundOrder
  <2>2. QED
    BY <1>1, <1>3, <2>1
<1>4. QED
  BY <1>2, <1>3

\* Cancelling, fulfilling and returning: only an unpaid order is cancelled.
LEMMA ClosingStep ==
  ASSUME StoreInvariant, [PromiseNext]_vars, NEW o \in Orders,
         \/ CancelOrder(o)
         \/ FulfillOrder(o)
         \/ \E takes \in [lines[o] -> 0 .. MaxRepeats] : RefundOrder(o, takes)
  PROVE  OrderInvariant'
<1> USE DEF StoreInvariant, OrderInvariant
<1>1. UNCHANGED <<lines, reference>>
  BY DEF CancelOrder, FulfillOrder, RefundOrder
<1>2. LinesOwned'
  BY <1>1, LinesKept
<1>3. CASE CancelOrder(o)
  <2>1. StoreTypeOK'
    BY <1>3 DEF CancelOrder, StoreTypeOK, moneyVars
  <2>2. PaidOrderStands' /\ ChargedOnce'
    BY <1>3
       DEF CancelOrder, StoreTypeOK, PaidOrderStands, ChargedOnce, moneyVars
  <2>3. QED
    BY <1>2, <2>1, <2>2
<1>4. CASE FulfillOrder(o)
  <2>1. StoreTypeOK'
    BY <1>4 DEF FulfillOrder, StoreTypeOK, moneyVars
  <2>2. PaidOrderStands' /\ ChargedOnce'
    BY <1>4
       DEF FulfillOrder, StoreTypeOK, PaidOrderStands, ChargedOnce, moneyVars
  <2>3. QED
    BY <1>2, <2>1, <2>2
<1>5. ASSUME NEW takes \in [lines[o] -> 0 .. MaxRepeats], RefundOrder(o, takes)
      PROVE  OrderInvariant'
  <2>1. StoreTypeOK'
    <3>1. \A r \in Reservations : returned'[r] \in 0 .. MaxRepeats
      <4> SUFFICES ASSUME NEW r \in Reservations PROVE returned'[r] \in 0 .. MaxRepeats
        OBVIOUS
      <4>1. returned[r] \in 0 .. MaxRepeats /\ items[r] \in 0 .. MaxRepeats
        BY DEF StoreTypeOK
      <4>2. QED
        BY <1>5, <4>1, ReturnGrows, RepeatsAssumption
    <3>2. returned' \in [Reservations -> 0 .. MaxRepeats]
      BY <1>5, <3>1 DEF RefundOrder
    <3>3. QED
      BY <1>5, <3>2 DEF RefundOrder, StoreTypeOK
  <2>2. PaidOrderStands'
    BY <1>5 DEF RefundOrder, StoreTypeOK, PaidOrderStands
  <2>3. ChargedOnce'
    BY <1>5 DEF RefundOrder, StoreTypeOK, ChargedOnce
  <2>4. QED
    BY <1>2, <2>1, <2>2, <2>3
<1>6. QED
  BY <1>3, <1>4, <1>5

\* The routes for single reservations and the worker: only an order that still
\* waits for its payment is cancelled with its last reservation.
LEMMA HoldStepInvariant ==
  ASSUME StoreInvariant, HoldNext
  PROVE  OrderInvariant'
<1> USE DEF StoreInvariant, OrderInvariant
<1>1. [PromiseNext]_vars
  BY HoldStepIsPromise
<1> PICK r \in Reservations :
      \/ \E row \in Rows, q \in Quantities, expires \in {"never", "ahead"},
           o \in Placed \cup {NoOrder} : AttachReservation(r, row, q, expires, o)
      \/ SettleOne(r)
      \/ ExpireForOrder(r)
      \/ ExpiryPasses(r) /\ UNCHANGED orderVars
  BY DEF HoldNext
<1>2. ASSUME NEW row, NEW q, NEW expires, NEW o \in Placed \cup {NoOrder},
             AttachReservation(r, row, q, expires, o)
      PROVE  OrderInvariant'
  <2>1. status[r] = "NONE"
    BY <1>2 DEF AttachReservation, CreateReservation, Hold, WithStatus
  <2>2. UNCHANGED lines /\ reference' = [reference EXCEPT ![r] = o]
    BY <1>2 DEF AttachReservation
  <2>3. \A x \in Reservations : status[x] # "NONE" => reference'[x] = reference[x]
    BY <2>1, <2>2 DEF StoreTypeOK
  <2>4. LinesOwned'
    BY <1>1, <2>2, <2>3, LinesKept
  <2>5. StoreTypeOK'
    BY <1>2 DEF AttachReservation, StoreTypeOK, moneyVars, Placed
  <2>6. PaidOrderStands' /\ ChargedOnce'
    BY <1>2 DEF AttachReservation, PaidOrderStands, ChargedOnce, moneyVars
  <2>7. QED
    BY <2>4, <2>5, <2>6
<1>3. CASE SettleOne(r) \/ UNCHANGED orderVars
  <2>1. UNCHANGED orderVars
    BY <1>3 DEF SettleOne
  <2>2. LinesOwned'
    BY <1>1, <2>1, LinesKept DEF orderVars
  <2>3. StoreTypeOK' /\ PaidOrderStands' /\ ChargedOnce'
    BY <2>1 DEF orderVars, moneyVars, StoreTypeOK, PaidOrderStands, ChargedOnce
  <2>4. QED
    BY <2>2, <2>3
<1>4. CASE ExpireForOrder(r)
  <2>1. UNCHANGED <<moneyVars, lines, items, returned, reference>>
    BY <1>4 DEF ExpireForOrder, ClosesOrder
  <2>2. LinesOwned'
    BY <1>1, <2>1, LinesKept
  <2>3. \A x \in Orders :
          \/ orderStatus'[x] = orderStatus[x]
          \/ orderStatus[x] = "Stock Reserved" /\ orderStatus'[x] = "Cancelled"
    BY <1>4 DEF ExpireForOrder, ClosesOrder
  <2>4. StoreTypeOK'
    BY <1>4 DEF ExpireForOrder, ClosesOrder, StoreTypeOK, moneyVars
  <2>5. PaidOrderStands' /\ ChargedOnce'
    BY <2>1, <2>3 DEF moneyVars, PaidOrderStands, ChargedOnce
  <2>6. QED
    BY <2>2, <2>4, <2>5
<1>5. QED
  BY <1>2, <1>3, <1>4

\* What a reservation that was made refers to, and the items behind it, stay.
LEMMA ReferencesKept ==
  ASSUME StoreInvariant, [StoreNext]_storeVars,
         NEW r \in Reservations, status[r] # "NONE"
  PROVE  reference'[r] = reference[r] /\ items'[r] = items[r]
<1> USE DEF StoreInvariant, OrderInvariant
<1>1. CASE OrderNext
  <2> PICK o \in Orders :
        \/ \E S \in SUBSET WithStatus("NONE") :
             \E rows \in [S -> Rows], amounts \in [S -> Quantities],
                repeats \in [S -> 1 .. MaxRepeats] :
               PlaceOrder(o, S, rows, amounts, repeats)
        \/ ConfirmPayment(o)
        \/ FailPayment(o)
        \/ VoidPayment(o)
        \/ CancelOrder(o)
        \/ FulfillOrder(o)
        \/ \E takes \in [lines[o] -> 0 .. MaxRepeats] : RefundOrder(o, takes)
    BY <1>1 DEF OrderNext
  <2>1. ASSUME NEW S \in SUBSET WithStatus("NONE"), NEW rows, NEW amounts,
               NEW repeats, PlaceOrder(o, S, rows, amounts, repeats)
        PROVE  reference'[r] = reference[r] /\ items'[r] = items[r]
    BY <2>1 DEF PlaceOrder, WithStatus
  <2>2. QED
    BY <2>1 DEF ConfirmPayment, FailPayment, VoidPayment, CancelOrder, FulfillOrder,
       RefundOrder
<1>2. CASE HoldNext
  <2> PICK x \in Reservations :
        \/ \E row \in Rows, q \in Quantities, expires \in {"never", "ahead"},
             o \in Placed \cup {NoOrder} : AttachReservation(x, row, q, expires, o)
        \/ SettleOne(x)
        \/ ExpireForOrder(x)
        \/ ExpiryPasses(x) /\ UNCHANGED orderVars
    BY <1>2 DEF HoldNext
  <2>1. ASSUME NEW row, NEW q, NEW expires, NEW o, AttachReservation(x, row, q, expires, o)
        PROVE  reference'[r] = reference[r] /\ items'[r] = items[r]
    <3>1. status[x] = "NONE"
      BY <2>1 DEF AttachReservation, CreateReservation, Hold, WithStatus
    <3>2. QED
      BY <2>1, <3>1 DEF AttachReservation, StoreTypeOK
  <2>2. QED
    BY <2>1 DEF SettleOne, ExpireForOrder, orderVars
<1>3. CASE UNCHANGED orderVars
  BY <1>3 DEF orderVars
<1>4. QED
  BY <1>1, <1>2, <1>3 DEF StoreNext, storeVars

\* Only a return changes what was returned, and only of its order's lines.
LEMMA ReturnsMade ==
  ASSUME StoreInvariant, [StoreNext]_storeVars
  PROVE  \/ UNCHANGED returned
         \/ \E o \in Orders : \E takes \in [lines[o] -> 0 .. MaxRepeats] :
              RefundOrder(o, takes)
<1>1. CASE OrderNext
  BY <1>1 DEF OrderNext, PlaceOrder, ConfirmPayment, FailPayment, VoidPayment,
     CancelOrder, FulfillOrder
<1>2. CASE HoldNext
  BY <1>2 DEF HoldNext, AttachReservation, SettleOne, ExpireForOrder, orderVars
<1>3. CASE UNCHANGED orderVars
  BY <1>3 DEF orderVars
<1>4. QED
  BY <1>1, <1>2, <1>3 DEF StoreNext, storeVars

\* The items behind a reservation are a number.
LEMMA ItemsTyped ==
  ASSUME StoreInvariant, [StoreNext]_storeVars, NEW r \in Reservations
  PROVE  items'[r] \in Nat
<1>1. CASE UNCHANGED items
  BY <1>1, ItemCounts
<1>2. ASSUME NEW o \in Orders, NEW S \in SUBSET WithStatus("NONE"),
             NEW rows \in [S -> Rows], NEW amounts \in [S -> Quantities],
             NEW repeats \in [S -> 1 .. MaxRepeats],
             PlaceOrder(o, S, rows, amounts, repeats)
      PROVE  items'[r] \in Nat
  <2>1. items' \in [Reservations -> 0 .. MaxRepeats]
    BY <1>2, PlaceOrderStep DEF OrderInvariant, StoreTypeOK
  <2>2. QED
    BY <2>1, Repeated
<1>3. CASE OrderNext
  BY <1>1, <1>2, <1>3 DEF OrderNext, ConfirmPayment, FailPayment, VoidPayment,
     CancelOrder, FulfillOrder, RefundOrder
<1>4. CASE HoldNext
  BY <1>1, <1>4 DEF HoldNext, AttachReservation, SettleOne, ExpireForOrder, orderVars
<1>5. CASE UNCHANGED orderVars
  BY <1>1, <1>5 DEF orderVars
<1>6. QED
  BY <1>3, <1>4, <1>5 DEF StoreNext, storeVars

\* So no more comes back than was ordered.
LEMMA ReturnsStep ==
  ASSUME StoreInvariant, [StoreNext]_storeVars
  PROVE  ReturnsWithinItems'
<1> SUFFICES ASSUME NEW r \in Reservations
             PROVE  /\ returned'[r] <= items'[r]
                    /\ status'[r] = "NONE" => returned'[r] = 0
  BY DEF ReturnsWithinItems
<1>1. /\ returned[r] <= items[r] /\ (status[r] = "NONE" => returned[r] = 0)
      /\ returned[r] \in Nat /\ items[r] \in Nat
  BY ItemCounts DEF StoreInvariant, ReturnsWithinItems
<1>2. CASE status[r] = "NONE"
  <2>1. returned'[r] = 0
    <3>1. CASE UNCHANGED returned
      BY <1>1, <1>2, <3>1
    <3>2. ASSUME NEW o \in Orders, NEW takes \in [lines[o] -> 0 .. MaxRepeats],
                 RefundOrder(o, takes)
          PROVE  returned'[r] = 0
      <4>1. r \notin lines[o]
        BY <1>2 DEF StoreInvariant, OrderInvariant, LinesOwned
      <4>2. QED
        BY <1>1, <1>2, <3>2, <4>1, ReturnGrows
    <3>3. QED
      BY <3>1, <3>2, ReturnsMade
  <2>2. items'[r] >= 0
    BY ItemsTyped
  <2>3. QED
    BY <2>1, <2>2
<1>3. CASE status[r] # "NONE"
  <2>1. KeepsSettlement(r)
    BY StoreStepIsPromise, StepKeepsSettlement DEF StoreInvariant, StockInvariant
  <2>2. status'[r] # "NONE"
    BY <1>3, <2>1 DEF KeepsSettlement, Settled
  <2>3. items'[r] = items[r]
    BY <1>3, ReferencesKept
  <2>4. returned'[r] <= items[r]
    <3>1. CASE UNCHANGED returned
      BY <1>1, <3>1
    <3>2. ASSUME NEW o \in Orders, NEW takes \in [lines[o] -> 0 .. MaxRepeats],
                 RefundOrder(o, takes)
          PROVE  returned'[r] <= items[r]
      BY <1>1, <3>2, ReturnGrows
    <3>3. QED
      BY <3>1, <3>2, ReturnsMade
  <2>5. QED
    BY <2>2, <2>3, <2>4
<1>4. QED
  BY <1>2, <1>3

\* Every step of the storefront preserves the invariant.
LEMMA StoreStep ==
  ASSUME StoreInvariant, [StoreNext]_storeVars
  PROVE  StoreInvariant'
<1>1. [PromiseNext]_vars
  BY StoreStepIsPromise
<1>2. StockInvariant' /\ ReturnsWithinItems'
  BY <1>1, PromiseStep, ReturnsStep DEF StoreInvariant
<1>3. CASE OrderNext
  <2> PICK o \in Orders :
        \/ \E S \in SUBSET WithStatus("NONE") :
             \E rows \in [S -> Rows], amounts \in [S -> Quantities],
                repeats \in [S -> 1 .. MaxRepeats] :
               PlaceOrder(o, S, rows, amounts, repeats)
        \/ ConfirmPayment(o)
        \/ FailPayment(o)
        \/ VoidPayment(o)
        \/ CancelOrder(o)
        \/ FulfillOrder(o)
        \/ \E takes \in [lines[o] -> 0 .. MaxRepeats] : RefundOrder(o, takes)
    BY <1>3 DEF OrderNext
  <2>1. OrderInvariant'
    BY <1>1, PlaceOrderStep, PaymentStep, ClosingStep
  <2>2. QED
    BY <1>2, <2>1 DEF StoreInvariant
<1>4. CASE HoldNext
  BY <1>2, <1>4, HoldStepInvariant DEF StoreInvariant
<1>5. CASE UNCHANGED orderVars
  <2>1. LinesOwned'
    BY <1>1, <1>5, LinesKept DEF orderVars
  <2>2. StoreTypeOK' /\ PaidOrderStands' /\ ChargedOnce'
    BY <1>5 DEF orderVars, moneyVars, StoreInvariant, OrderInvariant,
       StoreTypeOK, PaidOrderStands, ChargedOnce
  <2>3. QED
    BY <1>2, <2>1, <2>2 DEF StoreInvariant, OrderInvariant
<1>6. QED
  BY <1>3, <1>4, <1>5 DEF StoreNext, storeVars

\* The inductive invariant holds throughout.
THEOREM StoreIsSafe == StoreSpec => []StoreInvariant
<1>1. StoreInvariant /\ [StoreNext]_storeVars => StoreInvariant'
  BY StoreStep
<1>2. QED
  BY StoreInitInvariant, <1>1, PTL DEF StoreSpec

\* The orders implement Inventory's promise: whatever checkout, payment,
\* cancellation, fulfilment, returns and expiry do, each of their transactions
\* is one the stock allows.
THEOREM StoreKeepsPromise == StoreSpec => PromiseSpec
<1>1. StoreInit => Init
  BY DEF StoreInit
<1>2. StoreInvariant /\ [StoreNext]_storeVars => [PromiseNext]_vars
  BY StoreStepIsPromise
<1>3. QED
  BY StoreIsSafe, <1>1, <1>2, PTL DEF StoreSpec, PromiseSpec

\* So checkout does not oversell a row either.
THEOREM StoreNeverOversells == StoreSpec => []NeverOversold
<1>1. StoreInvariant => NeverOversold
  BY DEF StoreInvariant, StockInvariant
<1>2. QED
  BY StoreIsSafe, <1>1, PTL

\* The reserved column is what the ACTIVE reservations hold, those of orders
\* among them.
THEOREM StoreReservedExact == StoreSpec => []ReservedIsHeld
<1>1. StoreInvariant => ReservedIsHeld
  BY DEF StoreInvariant, StockInvariant
<1>2. QED
  BY StoreIsSafe, <1>1, PTL

\* Order and payment statuses keep their types.
THEOREM StoreTypeCorrect == StoreSpec => []StoreTypeOK
<1>1. StoreInvariant => StoreTypeOK
  BY DEF StoreInvariant, OrderInvariant
<1>2. QED
  BY StoreIsSafe, <1>1, PTL

\* A paid order is not cancelled and does not wait for payment.
THEOREM PaidOrdersStand == StoreSpec => []PaidOrderStands
<1>1. StoreInvariant => PaidOrderStands
  BY DEF StoreInvariant, OrderInvariant
<1>2. QED
  BY StoreIsSafe, <1>1, PTL

\* An order is charged at most once, and counts as paid only when it is.
THEOREM OrdersChargedOnce == StoreSpec => []ChargedOnce
<1>1. StoreInvariant => ChargedOnce
  BY DEF StoreInvariant, OrderInvariant
<1>2. QED
  BY StoreIsSafe, <1>1, PTL

-----------------------------------------------------------------------------
(* What stays held for a closed order: nothing, unless a whole listing of   *)
(* its reservations was let go.                                            *)

\* A listing leaves a reservation of the order out only if it is full.
LEMMA ListingIsFull ==
  ASSUME NEW o, NEW S \in Listed(o), S # ActiveFor(o)
  PROVE  Cardinality(S) = ListLimit
BY DEF Listed

\* What was let go for an order is never taken back.
LEMMA LetGoGrows ==
  ASSUME StoreInvariant, [StoreNext]_storeVars, NEW o \in Orders,
         Cardinality(LetGo(o)) >= ListLimit
  PROVE  Cardinality(LetGo(o)') >= ListLimit
<1>1. [PromiseNext]_vars
  BY StoreStepIsPromise
<1>2. LetGo(o)' \in SUBSET Reservations
  BY DEF LetGo
<1>3. ASSUME NEW r \in LetGo(o) PROVE r \in LetGo(o)'
  <2>1. r \in Reservations /\ reference[r] = o /\ status[r] \in {"RELEASED", "FULFILLED"}
    BY <1>3 DEF LetGo
  <2>2. KeepsSettlement(r)
    BY <1>1, <2>1, StepKeepsSettlement DEF StoreInvariant, StockInvariant
  <2>3. status'[r] = status[r]
    BY <2>1, <2>2 DEF KeepsSettlement, Settled
  <2>4. reference'[r] = reference[r]
    BY <2>1, ReferencesKept
  <2>5. QED
    BY <2>1, <2>3, <2>4 DEF LetGo
<1>4. IsFiniteSet(LetGo(o)')
  BY <1>2, ReservationsAssumption, FS_Subset
<1>5. LetGo(o) \in SUBSET LetGo(o)'
  BY <1>3
<1>6. /\ Cardinality(LetGo(o)) <= Cardinality(LetGo(o)')
      /\ Cardinality(LetGo(o)) \in Nat /\ Cardinality(LetGo(o)') \in Nat
  BY <1>4, <1>5, FS_Subset, FS_CardinalityType
<1>7. QED
  BY <1>6, ListLimitAssumption

\* A cancellation or fulfilment that listed ListLimit reservations let them go.
LEMMA FullListingLetGo ==
  ASSUME StoreInvariant, NEW o \in Orders, NEW S \in Listed(o), S # ActiveFor(o),
         GiveBack(S, "RELEASED") \/ Fulfill(S), UNCHANGED reference
  PROVE  Cardinality(LetGo(o)') >= ListLimit
<1>1. S \in SUBSET Reservations /\ S \subseteq ActiveFor(o)
  BY ListedActive
<1>2. \A r \in S : status'[r] \in {"RELEASED", "FULFILLED"}
  BY <1>1 DEF GiveBack, Unreserve, Fulfill, Sell, SetStatus
<1>3. S \in SUBSET LetGo(o)'
  BY <1>1, <1>2 DEF LetGo, ActiveFor
<1>4. LetGo(o)' \in SUBSET Reservations
  BY DEF LetGo
<1>5. IsFiniteSet(LetGo(o)')
  BY <1>4, ReservationsAssumption, FS_Subset
<1>6. /\ Cardinality(S) <= Cardinality(LetGo(o)')
      /\ Cardinality(S) \in Nat /\ Cardinality(LetGo(o)') \in Nat
  BY <1>3, <1>5, FS_Subset, FS_CardinalityType
<1>7. QED
  BY <1>6, ListingIsFull, ListLimitAssumption

\* Checkout alone gives an order its lines, and it does not close an order.
LEMMA ClosedKeepsLines ==
  ASSUME StoreInvariant, [StoreNext]_storeVars, NEW o \in Orders,
         orderStatus'[o] \in {"Completed", "Cancelled", "Refunded"}
  PROVE  lines'[o] = lines[o]
<1> USE DEF StoreInvariant, OrderInvariant
<1>1. ASSUME NEW p \in Orders, NEW S, NEW rows, NEW amounts, NEW repeats,
             PlaceOrder(p, S, rows, amounts, repeats)
      PROVE  lines'[o] = lines[o]
  BY <1>1 DEF PlaceOrder, StoreTypeOK
<1>2. CASE OrderNext
  BY <1>1, <1>2 DEF OrderNext, ConfirmPayment, FailPayment, VoidPayment, CancelOrder,
     FulfillOrder, RefundOrder
<1>3. CASE HoldNext
  BY <1>3 DEF HoldNext, AttachReservation, SettleOne, ExpireForOrder, orderVars
<1>4. CASE UNCHANGED orderVars
  BY <1>4 DEF orderVars
<1>5. QED
  BY <1>2, <1>3, <1>4 DEF StoreNext, storeVars

\* Closing an order settles all of its lines, or lets go a whole listing; none of
\* them, once settled, comes back, and no line is added to it.
LEMMA ClosedStep ==
  ASSUME StoreInvariant, ClosedOrderSettled, [StoreNext]_storeVars
  PROVE  ClosedOrderSettled'
<1> DEFINE Closed(o) == orderStatus[o] \in {"Completed", "Cancelled", "Refunded"}
<1> SUFFICES ASSUME NEW o \in Orders, Closed(o)', NEW r \in lines'[o],
                    ~ (Cardinality(LetGo(o)') >= ListLimit)
             PROVE  status'[r] # "ACTIVE"
  BY DEF ClosedOrderSettled, WithStatus
<1> USE DEF StoreInvariant, OrderInvariant
<1>1. [PromiseNext]_vars
  BY StoreStepIsPromise
<1>2. lines'[o] = lines[o]
  BY ClosedKeepsLines
<1>3. r \in lines[o] /\ r \in Reservations
  BY <1>2 DEF StoreTypeOK
<1>4. reference[r] = o /\ status[r] # "NONE"
  BY <1>3 DEF LinesOwned
<1>5. KeepsSettlement(r)
  BY <1>1, <1>3, StepKeepsSettlement DEF StockInvariant
<1>6. CASE status[r] # "ACTIVE"
  BY <1>4, <1>5, <1>6 DEF KeepsSettlement, Settled
<1>7. ASSUME status[r] = "ACTIVE" PROVE ~ Closed(o)
  BY <1>3, <1>7, LetGoGrows DEF ClosedOrderSettled, WithStatus
<1>8. ASSUME status[r] = "ACTIVE", CancelOrder(o) \/ FulfillOrder(o)
      PROVE  status'[r] # "ACTIVE"
  <2>1. r \in ActiveFor(o)
    BY <1>3, <1>4, <1>8 DEF ActiveFor, WithStatus
  <2>2. PICK S \in Listed(o) : GiveBack(S, "RELEASED") \/ Fulfill(S)
    BY <1>8 DEF CancelOrder, FulfillOrder
  <2>3. r \in S
    <3>1. UNCHANGED reference
      BY <1>8 DEF CancelOrder, FulfillOrder
    <3>2. S = ActiveFor(o)
      BY <2>2, <3>1, FullListingLetGo
    <3>3. QED
      BY <2>1, <3>2
  <2>4. QED
    BY <1>3, <2>2, <2>3 DEF GiveBack, Unreserve, Fulfill, Sell, SetStatus
<1>9. ASSUME status[r] = "ACTIVE", NEW x \in Reservations, ExpireForOrder(x)
      PROVE  status'[r] # "ACTIVE"
  <2>1. orderStatus'[o] # orderStatus[o]
    BY <1>7, <1>9
  <2>2. ActiveFor(o) = {x}
    BY <1>9, <2>1 DEF ExpireForOrder, ClosesOrder
  <2>3. r = x
    BY <1>3, <1>4, <1>9, <2>2 DEF ActiveFor, WithStatus
  <2>4. QED
    BY <1>3, <1>9, <2>3
       DEF ExpireForOrder, ExpireReservation, GiveBack, Unreserve, SetStatus
<1>10. ASSUME status[r] = "ACTIVE", orderStatus'[o] = orderStatus[o]
       PROVE  FALSE
  BY <1>7, <1>10
<1>11. \/ orderStatus'[o] = orderStatus[o]
       \/ Closed(o)
       \/ CancelOrder(o) \/ FulfillOrder(o)
       \/ \E x \in Reservations : ExpireForOrder(x)
  <2>1. CASE OrderNext
    <3> PICK p \in Orders :
          \/ \E S \in SUBSET WithStatus("NONE") :
               \E rows \in [S -> Rows], amounts \in [S -> Quantities],
                  repeats \in [S -> 1 .. MaxRepeats] :
                 PlaceOrder(p, S, rows, amounts, repeats)
          \/ ConfirmPayment(p)
          \/ FailPayment(p)
          \/ VoidPayment(p)
          \/ CancelOrder(p)
          \/ FulfillOrder(p)
          \/ \E takes \in [lines[p] -> 0 .. MaxRepeats] : RefundOrder(p, takes)
      BY <2>1 DEF OrderNext
    <3>1. CASE p # o
      BY <3>1 DEF PlaceOrder, ConfirmPayment, FailPayment, VoidPayment,
         CancelOrder, FulfillOrder, RefundOrder, StoreTypeOK
    <3>2. CASE p = o
      BY <3>2
         DEF PlaceOrder, ConfirmPayment, AwaitsPayment, FailPayment, VoidPayment,
         RefundOrder, StoreTypeOK
    <3>3. QED
      BY <3>1, <3>2
  <2>2. CASE HoldNext
    BY <2>2 DEF HoldNext, AttachReservation, SettleOne, orderVars
  <2>3. CASE UNCHANGED orderVars
    BY <2>3 DEF orderVars
  <2>4. QED
    BY <2>1, <2>2, <2>3 DEF StoreNext, storeVars
<1>12. QED
  BY <1>6, <1>7, <1>8, <1>9, <1>10, <1>11

\* Whatever the lengths of carts and listings: a closed order holds none of its
\* checkout's stock, unless a whole listing of its reservations was let go.
THEOREM ClosedOrdersSettled == StoreSpec => []ClosedOrderSettled
<1>1. StoreInit => ClosedOrderSettled
  BY DEF StoreInit, ClosedOrderSettled
<1>2. /\ StoreInvariant /\ ClosedOrderSettled /\ [StoreNext]_storeVars
      => ClosedOrderSettled'
  BY ClosedStep
<1>3. QED
  BY StoreIsSafe, <1>1, <1>2, PTL DEF StoreSpec

-----------------------------------------------------------------------------
(* The steps of an order.                                                  *)

\* The items of an order's lines stay, and what came back of them only grows.
LEMMA ItemsMoveForward ==
  ASSUME StoreInvariant, [StoreNext]_storeVars, NEW o \in Orders
  PROVE  \A r \in lines[o] :
           items'[r] = items[r] /\ returned'[r] \in returned[r] .. items[r]
<1> SUFFICES ASSUME NEW r \in lines[o]
             PROVE  items'[r] = items[r] /\ returned'[r] \in returned[r] .. items[r]
  OBVIOUS
<1>1. r \in Reservations /\ status[r] # "NONE"
  BY DEF StoreInvariant, OrderInvariant, StoreTypeOK, LinesOwned
<1>2. items'[r] = items[r]
  BY <1>1, ReferencesKept
<1>3. returned[r] \in Nat /\ items[r] \in Nat
  BY <1>1, ItemCounts
<1>4. returned'[r] <= items'[r]
  BY <1>1, ReturnsStep DEF ReturnsWithinItems
<1>5. returned'[r] \in Int /\ returned'[r] >= returned[r]
  <2>1. CASE UNCHANGED returned
    BY <1>3, <2>1
  <2>2. QED
    BY <1>1, <2>1, ReturnGrows, ReturnsMade
<1>6. QED
  BY <1>2, <1>3, <1>4, <1>5

\* A step that leaves the orders alone keeps them moving.
LEMMA OrdersUntouched ==
  ASSUME StoreInvariant, [StoreNext]_storeVars,
         NEW o \in Orders, UNCHANGED <<orderStatus, lines>>
  PROVE  KeepsMoving(o)
BY ItemsMoveForward DEF KeepsMoving

\* Each operation takes the order one step, from a status its guard allows.
LEMMA StepMovesForward ==
  ASSUME StoreInvariant, [StoreNext]_storeVars, NEW o \in Orders
  PROVE  KeepsMoving(o)
<1> USE DEF StoreInvariant, OrderInvariant
<1>1. CASE OrderNext
  <2> PICK p \in Orders :
        \/ \E S \in SUBSET WithStatus("NONE") :
             \E rows \in [S -> Rows], amounts \in [S -> Quantities],
                repeats \in [S -> 1 .. MaxRepeats] :
               PlaceOrder(p, S, rows, amounts, repeats)
        \/ ConfirmPayment(p)
        \/ FailPayment(p)
        \/ VoidPayment(p)
        \/ CancelOrder(p)
        \/ FulfillOrder(p)
        \/ \E takes \in [lines[p] -> 0 .. MaxRepeats] : RefundOrder(p, takes)
    BY <1>1 DEF OrderNext
  <2>1. ASSUME NEW S \in SUBSET WithStatus("NONE"), NEW rows, NEW amounts,
             NEW repeats, PlaceOrder(p, S, rows, amounts, repeats)
        PROVE  KeepsMoving(o)
    BY <2>1, ItemsMoveForward DEF PlaceOrder, StoreTypeOK, KeepsMoving
  <2>2. CASE ConfirmPayment(p)
    BY <2>2, ItemsMoveForward DEF ConfirmPayment, AwaitsPayment, StoreTypeOK, KeepsMoving
  <2>3. CASE FailPayment(p) \/ VoidPayment(p)
    BY <2>3, OrdersUntouched DEF FailPayment, VoidPayment
  <2>4. CASE CancelOrder(p)
    BY <2>4, ItemsMoveForward DEF CancelOrder, StoreTypeOK, KeepsMoving
  <2>5. CASE FulfillOrder(p)
    BY <2>5, ItemsMoveForward DEF FulfillOrder, StoreTypeOK, PaidOrderStands, KeepsMoving
  <2>6. ASSUME NEW takes \in [lines[p] -> 0 .. MaxRepeats], RefundOrder(p, takes)
        PROVE  KeepsMoving(o)
    BY <2>6, ItemsMoveForward DEF RefundOrder, StoreTypeOK, KeepsMoving
  <2>7. QED
    BY <2>1, <2>2, <2>3, <2>4, <2>5, <2>6
<1>2. CASE HoldNext
  <2> PICK r \in Reservations :
        \/ \E row \in Rows, q \in Quantities, expires \in {"never", "ahead"},
             x \in Placed \cup {NoOrder} : AttachReservation(r, row, q, expires, x)
        \/ SettleOne(r)
        \/ ExpireForOrder(r)
        \/ ExpiryPasses(r) /\ UNCHANGED orderVars
    BY <1>2 DEF HoldNext
  <2>1. CASE ExpireForOrder(r)
    BY <2>1, ItemsMoveForward DEF ExpireForOrder, ClosesOrder, StoreTypeOK, KeepsMoving
  <2>2. CASE UNCHANGED <<orderStatus, lines>>
    BY <2>2, OrdersUntouched
  <2>3. QED
    BY <2>1, <2>2 DEF AttachReservation, SettleOne, orderVars
<1>3. CASE UNCHANGED orderVars
  BY <1>3, OrdersUntouched DEF orderVars
<1>4. QED
  BY <1>1, <1>2, <1>3 DEF StoreNext, storeVars

\* Orders are never reopened, and their lines and returns are not forgotten.
THEOREM OrdersAreMonotonic == StoreSpec => OrdersMoveForward
<1>1. StoreInvariant /\ [StoreNext]_storeVars
        => [\A o \in Orders : KeepsMoving(o)]_storeVars
  BY StepMovesForward
<1>2. QED
  BY StoreIsSafe, <1>1, PTL DEF StoreSpec, OrdersMoveForward
=============================================================================
