-------------------------- MODULE PointOfSaleProofs --------------------------
(***************************************************************************)
(* Proofs about PointOfSale for any rows, sessions, sales, totals and      *)
(* quantities: the stock, the sessions' statuses, the settlement of        *)
(* returns and what the drawer holds.                                      *)
(***************************************************************************)
EXTENDS PointOfSale, InventoryProofs, SumsProofs

-----------------------------------------------------------------------------
(* The inductive invariant.                                                *)

TillTypes ==
  /\ session      \in [Sessions -> {"NONE", "CHECKED", "OPEN", "CLOSED"}]
  /\ sale         \in [Sales -> {"NONE", "Completed", "Refunded", "Cancelled"}]
  /\ payment      \in [Sales -> {"NONE", "Completed", "Refunded"}]
  /\ saleRow      \in [Sales -> Rows \cup {NoRow}]
  /\ sold         \in [Sales -> 0 .. MaxQuantity]
  /\ total        \in [Sales -> Nat]
  /\ returned     \in [Sales -> 0 .. MaxQuantity]
  /\ refunded     \in [Sales -> Nat]
  /\ cashRefunded \in [Sales -> Nat]
  /\ webRefunded  \in [Sales -> Nat]

\* Nothing is brought back before the sale, and a sale is of something.
SaleComesFirst ==
  \A k \in Sales :
    /\ sale[k] = "NONE" =>
         /\ sold[k] = 0 /\ returned[k] = 0 /\ refunded[k] = 0 /\ cashRefunded[k] = 0
         /\ webRefunded[k] = 0
    /\ sale[k] # "NONE" => sold[k] > 0 /\ payment[k] # "NONE"

\* ReturnsSettleSale of one sale.
SaleSettled(k) ==
  /\ returned[k] <= sold[k]
  /\ webRefunded[k] <= cashRefunded[k]
  /\ cashRefunded[k] <= refunded[k]
  /\ refunded[k] <= total[k]
  /\ payment[k] = "Refunded" <=> returned[k] = sold[k] /\ sold[k] > 0
  /\ payment[k] = "Refunded" <=> sale[k] \in {"Refunded", "Cancelled"}
  /\ payment[k] = "Refunded" => refunded[k] = total[k]

TillInvariant ==
  StockInvariant /\ TillTypes /\ SaleComesFirst /\ OneOpenSession /\ ReturnsSettleSale

-----------------------------------------------------------------------------
(* The steps.                                                              *)

\* A movement on one row is a step that the promise allows.
LEMMA PostOneRow ==
  ASSUME TypeOK, NEW row, NEW q \in Int, Post([r \in Rows |-> IF r = row THEN q ELSE 0])
  PROVE  PromiseNext
<1> DEFINE change == [r \in Rows |-> IF r = row THEN q ELSE 0]
<1>1. ASSUME NEW r \in Rows
      PROVE  change[r] \in -2 * ColumnMax .. 2 * ColumnMax
  <2>1. change[r] \in Int
    OBVIOUS
  <2>2. change[r] # 0 => onHand[r] + change[r] \in Column
    BY DEF Post, MovementAccepted
  <2> HIDE DEF change
  <2>3. QED
    BY <2>1, <2>2, ColumnMaxAssumption DEF TypeOK, Column
<1>2. change \in [Rows -> -2 * ColumnMax .. 2 * ColumnMax]
  BY <1>1
<1> HIDE DEF change
<1>3. Post(change)
  BY DEF change
<1>4. QED
  BY <1>2, <1>3 DEF PromiseNext

\* What the sessions' operations change: one session, which is open afterwards
\* only if it was already or if no other is.
LEMMA SessionStep ==
  ASSUME TillInvariant, NEW s \in Sessions, SessionNext(s)
  PROVE  /\ UNCHANGED <<vars, saleVars, returnVars>>
         /\ TillTypes' /\ OneOpenSession'
<1> USE DEF TillInvariant, TillTypes
<1>1. CASE CheckActive(s)
  BY <1>1 DEF CheckActive, OneOpenSession, saleVars, returnVars
<1>2. ASSUME NEW cash \in Floats, InsertSession(s, cash)
      PROVE  /\ UNCHANGED <<vars, saleVars, returnVars>>
             /\ TillTypes' /\ OneOpenSession'
  BY <1>2 DEF InsertSession, Admitted, OneOpenSession, saleVars, returnVars
<1>3. ASSUME NEW cash \in -MaxMoved .. MaxMoved, RecordCashMovement(s, cash)
      PROVE  /\ UNCHANGED <<vars, saleVars, returnVars>>
             /\ TillTypes' /\ OneOpenSession'
  BY <1>3 DEF RecordCashMovement, OneOpenSession, saleVars, returnVars
<1>4. CASE CloseSession(s)
  BY <1>4 DEF CloseSession, OneOpenSession, saleVars, returnVars
<1>5. QED
  BY <1>1, <1>2, <1>3, <1>4 DEF SessionNext

\* A sale is rung up.
LEMMA CheckoutStep ==
  ASSUME TillInvariant, NEW k \in Sales, NEW s \in Sessions, NEW row \in Rows,
         NEW q \in Quantities, NEW cents \in Totals, NEW method \in Methods,
         Checkout(k, s, row, q, cents, method)
  PROVE  TillInvariant' /\ [PromiseNext]_vars
<1>1. /\ sale[k] = "NONE" /\ q \in 1 .. MaxQuantity /\ cents \in Nat
      /\ sale'    = [sale EXCEPT ![k] = "Completed"]
      /\ payment' = [payment EXCEPT ![k] = "Completed"]
      /\ saleRow' = [saleRow EXCEPT ![k] = row]
      /\ sold'    = [sold EXCEPT ![k] = q]
      /\ total'   = [total EXCEPT ![k] = cents]
      /\ UNCHANGED <<session, returned, refunded, cashRefunded, webRefunded>>
  BY MoneyAssumption DEF Checkout, Fresh, Ring, returnVars, Quantities
<1>2. StockInvariant /\ TypeOK /\ TillTypes
  BY DEF TillInvariant, StockInvariant
<1>3. PromiseNext
  <2>1. Post([r \in Rows |-> IF r = row THEN -q ELSE 0]) /\ -q \in Int
    BY <1>1 DEF Checkout, Ring
  <2>2. QED
    BY <1>2, <2>1, PostOneRow
<1>4. TillTypes'
  BY <1>1, <1>2, MaxQuantityAssumption DEF TillTypes
<1>5. returned[k] = 0 /\ refunded[k] = 0 /\ cashRefunded[k] = 0 /\ webRefunded[k] = 0
  BY <1>1 DEF TillInvariant, SaleComesFirst
<1>6. SaleComesFirst'
  BY <1>1, <1>2, <1>5 DEF TillInvariant, TillTypes, SaleComesFirst
<1>7. OneOpenSession'
  BY <1>1 DEF TillInvariant, OneOpenSession
<1>8. ReturnsSettleSale'
  <2> SUFFICES ASSUME NEW j \in Sales
               PROVE  SaleSettled(j)'
    BY DEF ReturnsSettleSale, SaleSettled
  <2>1. CASE j = k
    BY <1>1, <1>2, <1>5, <2>1 DEF TillTypes, SaleSettled
  <2>2. CASE j # k
    BY <1>1, <1>2, <2>2 DEF TillTypes, TillInvariant, ReturnsSettleSale, SaleSettled
  <2>3. QED
    BY <2>1, <2>2
<1>9. QED
  BY <1>2, <1>3, <1>4, <1>6, <1>7, <1>8, PromiseStep DEF TillInvariant

\* Part of a sale is brought back, or what is left of it, by either route.
LEMMA ReturnStep ==
  ASSUME TillInvariant, NEW k \in Sales, NEW q \in Quantities, NEW method \in Methods,
         sale[k] \in {"Completed", "Refunded"}, GiveMoneyBack(k, q, method),
         RefundOf(k, q) > 0 \/ Calculated(k, q) > 0,
         \/ webRefunded' = webRefunded
         \/ /\ method = "Cash"
            /\ webRefunded' = [webRefunded EXCEPT ![k] = @ + RefundOf(k, q)]
  PROVE  TillInvariant' /\ [PromiseNext]_vars
<1> DEFINE refund == RefundOf(k, q)
           last   == LastReturn(k, q)
           closes == last /\ refunded[k] + refund = total[k]
<1>1. /\ q \in 1 .. MaxQuantity
      /\ q <= sold[k] - returned[k]
      /\ refund > 0 \/ Calculated(k, q) > 0
      /\ Calculated(k, q) <= total[k] - refunded[k]
      /\ returned' = [returned EXCEPT ![k] = @ + q]
      /\ refunded' = [refunded EXCEPT ![k] = @ + refund]
      /\ cashRefunded' = IF method = "Cash" THEN [cashRefunded EXCEPT ![k] = @ + refund]
                                            ELSE cashRefunded
      /\ sale'    = [sale EXCEPT ![k] = IF closes THEN "Refunded" ELSE @]
      /\ payment' = [payment EXCEPT ![k] = IF closes THEN "Refunded" ELSE @]
      /\ \/ webRefunded' = webRefunded
         \/ method = "Cash" /\ webRefunded' = [webRefunded EXCEPT ![k] = @ + refund]
      /\ UNCHANGED <<session, saleRow, sold, total>>
  BY DEF GiveMoneyBack, Returnable, Quantities
<1>2. StockInvariant /\ TypeOK /\ TillTypes
  BY DEF TillInvariant, StockInvariant
<1>3. /\ sold[k] \in Nat /\ returned[k] \in Nat /\ total[k] \in Nat /\ refunded[k] \in Nat
      /\ cashRefunded[k] \in Nat /\ webRefunded[k] \in Nat /\ sold[k] <= MaxQuantity
      /\ sold[k] > 0 /\ SaleSettled(k)
      /\ sale[k] = "Completed" /\ payment[k] = "Completed"
      /\ saleRow[k] \in Rows \cup {NoRow}
  <2>1. sold[k] > 0 /\ SaleSettled(k)
    BY DEF TillInvariant, SaleComesFirst, ReturnsSettleSale, SaleSettled
  <2>2. /\ sold[k] \in Nat /\ returned[k] \in Nat /\ total[k] \in Nat /\ refunded[k] \in Nat
        /\ cashRefunded[k] \in Nat /\ webRefunded[k] \in Nat /\ sold[k] <= MaxQuantity
        /\ saleRow[k] \in Rows \cup {NoRow}
    BY <1>2, MaxQuantityAssumption DEF TillTypes
  <2>3. returned[k] # sold[k]
    BY <1>1, <2>2
  <2>4. payment[k] # "Refunded" /\ sale[k] = "Completed"
    BY <2>1, <2>3 DEF SaleSettled
  <2>5. payment[k] # "NONE"
    BY DEF TillInvariant, SaleComesFirst
  <2>6. QED
    BY <1>2, <2>1, <2>2, <2>4, <2>5 DEF TillTypes
<1>4. last <=> returned[k] + q = sold[k]
  BY DEF LastReturn
<1>5. /\ refund \in Nat /\ refunded[k] + refund <= total[k]
      /\ last => refunded[k] + refund = total[k]
  <2>1. Calculated(k, q) \in Int
    <3>1. 2 * total[k] * q + sold[k] \in Int /\ 2 * sold[k] \in Nat \ {0}
      BY <1>1, <1>3
    <3>2. \A m \in Int, n \in Nat \ {0} : m \div n \in Int
      OBVIOUS
    <3>3. QED
      BY <3>1, <3>2 DEF Calculated
  <2>2. refunded[k] <= total[k]
    BY <1>3 DEF SaleSettled
  <2>3. CASE last
    <3>1. refund = total[k] - refunded[k]
      BY <2>3 DEF RefundOf
    <3>2. QED
      BY <1>3, <2>2, <3>1
  <2>4. CASE ~last
    <3>1. refund = Calculated(k, q)
      BY <2>4 DEF RefundOf
    <3> HIDE DEF refund
    <3>2. QED
      BY <1>1, <1>3, <2>1, <2>4, <3>1
  <2>5. QED
    BY <2>3, <2>4
<1> HIDE DEF refund, last
<1>6. closes <=> last
  BY <1>5
<1> HIDE DEF closes
<1>7. /\ returned'[k] = returned[k] + q /\ refunded'[k] = refunded[k] + refund
      /\ cashRefunded'[k] = cashRefunded[k] + IF method = "Cash" THEN refund ELSE 0
      /\ webRefunded'[k] = webRefunded[k] \/ ( /\ method = "Cash"
                                              /\ webRefunded'[k] = webRefunded[k] + refund )
      /\ sale'[k] = IF last THEN "Refunded" ELSE "Completed"
      /\ payment'[k] = IF last THEN "Refunded" ELSE "Completed"
      /\ sold'[k] = sold[k] /\ total'[k] = total[k] /\ saleRow'[k] = saleRow[k]
  BY <1>1, <1>2, <1>3, <1>6 DEF TillTypes
<1>8. \A j \in Sales \ {k} :
        /\ returned'[j] = returned[j] /\ refunded'[j] = refunded[j]
        /\ cashRefunded'[j] = cashRefunded[j] /\ webRefunded'[j] = webRefunded[j]
        /\ sale'[j] = sale[j]
        /\ payment'[j] = payment[j] /\ sold'[j] = sold[j] /\ total'[j] = total[j]
  BY <1>1, <1>2 DEF TillTypes
<1>9. PromiseNext
  <2>1. Post([r \in Rows |-> IF r = saleRow[k] THEN q ELSE 0]) /\ q \in Int
    BY <1>1 DEF GiveMoneyBack
  <2>2. QED
    BY <1>2, <2>1, PostOneRow
<1>10. TillTypes'
  <2>1. /\ session' = session /\ saleRow' = saleRow /\ sold' = sold /\ total' = total
    BY <1>1
  <2>2. sale' \in [Sales -> {"NONE", "Completed", "Refunded", "Cancelled"}]
        /\ payment' \in [Sales -> {"NONE", "Completed", "Refunded"}]
    BY <1>1, <1>2 DEF TillTypes
  <2>3. returned[k] + q \in 0 .. MaxQuantity /\ refunded[k] + refund \in Nat
        /\ cashRefunded[k] + refund \in Nat /\ webRefunded[k] + refund \in Nat
    BY <1>1, <1>3, <1>5, MaxQuantityAssumption
  <2>4. /\ returned' \in [Sales -> 0 .. MaxQuantity]
        /\ refunded' \in [Sales -> Nat]
        /\ cashRefunded' \in [Sales -> Nat]
        /\ webRefunded' \in [Sales -> Nat]
    BY <1>1, <1>2, <2>3 DEF TillTypes
  <2>5. QED
    BY <1>2, <2>1, <2>2, <2>4 DEF TillTypes
<1>11. SaleComesFirst'
  <2>1. sale'[k] # "NONE" /\ sold'[k] > 0 /\ payment'[k] # "NONE"
    BY <1>3, <1>7
  <2>2. QED
    BY <1>8, <2>1 DEF TillInvariant, SaleComesFirst
<1>12. OneOpenSession'
  BY <1>1 DEF TillInvariant, OneOpenSession
<1>13. ReturnsSettleSale'
  <2> SUFFICES ASSUME NEW j \in Sales
               PROVE  SaleSettled(j)'
    BY DEF ReturnsSettleSale, SaleSettled
  <2>1. CASE j = k
    BY <1>1, <1>3, <1>4, <1>5, <1>7, <2>1 DEF SaleSettled
  <2>2. CASE j # k
    BY <1>8, <2>2 DEF TillInvariant, ReturnsSettleSale, SaleSettled
  <2>3. QED
    BY <2>1, <2>2
<1>14. QED
  BY <1>2, <1>9, <1>10, <1>11, <1>12, <1>13, PromiseStep DEF TillInvariant

\* A sale that was paid back is cancelled.
LEMMA CancelStep ==
  ASSUME TillInvariant, NEW k \in Sales, CancelSale(k)
  PROVE  TillInvariant' /\ [PromiseNext]_vars
<1>1. /\ sale[k] = "Refunded" /\ sale' = [sale EXCEPT ![k] = "Cancelled"]
      /\ UNCHANGED <<vars, session, payment, saleRow, sold, total, returned, refunded,
                     cashRefunded, webRefunded>>
  BY DEF CancelSale, drawerVars, returnVars
<1>2. TillTypes' /\ OneOpenSession'
  BY <1>1 DEF TillInvariant, TillTypes, OneOpenSession
<1>3. sale'[k] = "Cancelled" /\ \A j \in Sales \ {k} : sale'[j] = sale[j]
  BY <1>1 DEF TillInvariant, TillTypes
<1>4. SaleComesFirst' /\ ReturnsSettleSale'
  BY <1>1, <1>3 DEF TillInvariant, SaleComesFirst, ReturnsSettleSale
<1>5. QED
  BY <1>1, <1>2, <1>4, PromiseStep DEF TillInvariant

\* What leaves sessions, sales and returns alone keeps their part.
LEMMA TillKept ==
  ASSUME TillInvariant, TillTypes', OneOpenSession', UNCHANGED <<saleVars, returnVars>>
  PROVE  SaleComesFirst' /\ ReturnsSettleSale'
BY DEF TillInvariant, saleVars, returnVars, SaleComesFirst, ReturnsSettleSale

\* Every step of the till keeps the invariant, and is one the stock's promise
\* allows.
LEMMA TillStep ==
  ASSUME TillInvariant, [PosNext]_tillVars
  PROVE  TillInvariant' /\ [PromiseNext]_vars
<1>1. [PromiseNext]_vars => StockInvariant'
  BY PromiseStep DEF TillInvariant
<1>2. ASSUME NEW s \in Sessions, SessionNext(s)
      PROVE  TillInvariant' /\ [PromiseNext]_vars
  BY <1>1, <1>2, SessionStep, TillKept DEF TillInvariant
<1>3. ASSUME NEW k \in Sales, SaleNext(k)
      PROVE  TillInvariant' /\ [PromiseNext]_vars
  <2>1. ASSUME NEW q \in Quantities, NEW method \in Methods, ProcessReturn(k, q, method)
        PROVE  TillInvariant' /\ [PromiseNext]_vars
    BY <2>1, ReturnStep DEF ProcessReturn
  <2>2. ASSUME NEW q \in Quantities, NEW method \in Methods, RefundOrder(k, q, method)
        PROVE  TillInvariant' /\ [PromiseNext]_vars
    BY <2>2, ReturnStep DEF RefundOrder
  <2>3. QED
    BY <1>3, <2>1, <2>2, CheckoutStep, CancelStep DEF SaleNext
<1>4. ASSUME UNCHANGED <<drawerVars, saleVars, returnVars>>
      PROVE  TillTypes' /\ OneOpenSession' /\ SaleComesFirst' /\ ReturnsSettleSale'
  <2>1. TillTypes' /\ OneOpenSession'
    BY <1>4 DEF drawerVars, saleVars, returnVars, TillInvariant, TillTypes, OneOpenSession
  <2>2. QED
    BY <1>4, <2>1, TillKept
<1>5. CASE ShopNext
  <2>1. PICK row \in Rows, change \in {-MaxQuantity, MaxQuantity} : RecordAdjustment(row, change, FALSE)
    BY <1>5 DEF ShopNext
  <2>2. change \in -MaxQuantity .. MaxQuantity
    BY MaxQuantityAssumption
  <2>3. PromiseNext
    BY <2>1, <2>2 DEF PromiseNext, StockNext, StockOn
  <2>4. QED
    BY <1>1, <1>4, <1>5, <2>3 DEF ShopNext, TillInvariant
<1>6. CASE UNCHANGED tillVars
  BY <1>1, <1>4, <1>6 DEF tillVars, TillInvariant
<1>7. QED
  BY <1>2, <1>3, <1>5, <1>6 DEF PosNext

\* However sessions are opened and closed, sales are rung up twice and goods are
\* brought back in parts, the invariant holds.
THEOREM TillIsSafe == PosSpec => []TillInvariant
<1>1. PosInit => TillInvariant
  <2> SUFFICES ASSUME PosInit PROVE TillInvariant
    OBVIOUS
  <2>1. StockInvariant
    BY InitStock DEF PosInit
  <2>2. TillTypes /\ SaleComesFirst /\ OneOpenSession /\ ReturnsSettleSale
    BY MaxQuantityAssumption
       DEF PosInit, TillTypes, SaleComesFirst, OneOpenSession, ReturnsSettleSale
  <2>3. QED
    BY <2>1, <2>2 DEF TillInvariant
<1>2. TillInvariant /\ [PosNext]_tillVars => TillInvariant'
  BY TillStep
<1>3. QED
  BY <1>1, <1>2, PTL DEF PosSpec

\* A terminal has one open drawer.
THEOREM TerminalHasOneDrawer == PosSpec => []OneOpenSession
<1>1. TillInvariant => OneOpenSession
  BY DEF TillInvariant
<1>2. QED
  BY TillIsSafe, <1>1, PTL

\* No sale is paid back beyond what was paid, and one that is wholly brought back
\* is paid back to the cent.
THEOREM SalesSettleToTheCent == PosSpec => []ReturnsSettleSale
<1>1. TillInvariant => ReturnsSettleSale
  BY DEF TillInvariant
<1>2. QED
  BY TillIsSafe, <1>1, PTL

\* The till implements the stock's promise.
THEOREM TillKeepsPromise == PosSpec => PromiseSpec
<1>1. PosInit => Init
  BY DEF PosInit
<1>2. TillInvariant /\ [PosNext]_tillVars => [PromiseNext]_vars
  BY TillStep
<1>3. QED
  BY TillIsSafe, <1>1, <1>2, PTL DEF PosSpec, PromiseSpec

\* So it sells nothing that is promised to someone else.
THEOREM TillNeverOversells == PosSpec => []NeverOversold
<1>1. TillInvariant => NeverOversold
  BY DEF TillInvariant, StockInvariant
<1>2. QED
  BY TillIsSafe, <1>1, PTL

-----------------------------------------------------------------------------
(* The drawer.                                                             *)

DrawerTypes ==
  /\ opening     \in [Sessions -> Floats \cup {0}]
  /\ expected    \in [Sessions -> Int]
  /\ moved       \in [Sessions -> -MaxMoved .. MaxMoved]
  /\ saleSession \in [Sales -> Sessions \cup {NoSession}]
  /\ tender      \in [Sales -> Methods]
  /\ total       \in [Sales -> Cents]

\* A sale is of a session once it is made, and a session has no cash movement
\* and no sale before it is opened.
SessionsComeFirst ==
  /\ \A k \in Sales : sale[k] = "NONE" <=> saleSession[k] = NoSession
  /\ \A s \in Sessions :
       session[s] \in {"NONE", "CHECKED"} =>
         moved[s] = 0 /\ \A k \in Sales : saleSession[k] # s

DrawerInvariant == TillInvariant /\ DrawerTypes /\ SessionsComeFirst /\ DrawerReconciles

\* What DrawerReconciles says that the expected cash of session s is.
Running(s) == Drawer(s) + Sum(SalesOf(s), webRefunded)

\* Any part of a sale's total is an amount that the types allow.
LEMMA CentsAreNumbers ==
  /\ Cents \subseteq Nat
  /\ \A cents \in Cents, n \in Nat : n <= cents => n \in Cents
  /\ Totals \subseteq Cents
<1>1. Totals \subseteq Nat
  BY MoneyAssumption
<1>2. ASSUME NEW cents \in Cents PROVE cents \in Nat /\ \A n \in Nat : n <= cents => n \in Cents
  <2>1. CASE cents = 0
    BY <2>1 DEF Cents
  <2>2. ASSUME NEW most \in Totals, cents \in 0 .. most
        PROVE  cents \in Nat /\ \A n \in Nat : n <= cents => n \in Cents
    BY <1>1, <2>2 DEF Cents
  <2>3. QED
    BY <2>1, <2>2 DEF Cents
<1>3. Totals \subseteq Cents
  BY <1>1 DEF Cents
<1>4. QED
  BY <1>2, <1>3

\* Every session's sums are of finitely many numbers.
LEMMA DrawerSums ==
  ASSUME TillInvariant, DrawerTypes, NEW s
  PROVE  /\ IsFiniteSet(SalesOf(s)) /\ IsFiniteSet(InCash(SalesOf(s)))
         /\ SalesOf(s) \subseteq Sales /\ InCash(SalesOf(s)) \subseteq Sales
         /\ \A k \in Sales :
              total[k] \in Nat /\ cashRefunded[k] \in Nat /\ webRefunded[k] \in Nat
         /\ Sum(InCash(SalesOf(s)), total) \in Nat
         /\ Sum(SalesOf(s), cashRefunded) \in Nat
         /\ Sum(SalesOf(s), webRefunded) \in Nat
<1>1. SalesOf(s) \subseteq Sales /\ InCash(SalesOf(s)) \subseteq Sales
  BY DEF SalesOf, InCash
<1>2. IsFiniteSet(SalesOf(s)) /\ IsFiniteSet(InCash(SalesOf(s)))
  BY <1>1, SalesAssumption, FS_Subset
<1>3. \A k \in Sales :
        total[k] \in Nat /\ cashRefunded[k] \in Nat /\ webRefunded[k] \in Nat
  BY DEF TillInvariant, TillTypes
<1>4. /\ \A k \in InCash(SalesOf(s)) : total[k] \in Nat
      /\ \A k \in SalesOf(s) : cashRefunded[k] \in Nat /\ webRefunded[k] \in Nat
  BY <1>1, <1>3
<1>5. QED
  BY <1>1, <1>2, <1>3, <1>4, SumType

\* What the sales of a session come to when an amount of one of them changes.
LEMMA SumOfSales ==
  ASSUME TillInvariant, DrawerTypes, NEW k \in Sales, NEW t, NEW change \in Int,
         NEW a \in [Sales -> Nat], NEW b \in [Sales -> Nat],
         b[k] = a[k] + change, \A j \in Sales \ {k} : b[j] = a[j]
  PROVE  Sum(SalesOf(t), b) = Sum(SalesOf(t), a) + IF saleSession[k] = t THEN change ELSE 0
<1> DEFINE all == SalesOf(t)
<1>1. IsFiniteSet(all) /\ all \subseteq Sales
  BY DrawerSums
<1>2. k \in all <=> saleSession[k] = t
  BY DEF SalesOf
<1>3. b[k] = a[k] + change /\ \A j \in Sales \ {k} : b[j] = a[j]
  OBVIOUS
<1>4. a[k] \in Nat /\ b[k] \in Nat /\ \A j \in all : a[j] \in Nat /\ b[j] \in Nat
  BY <1>1
<1> HIDE DEF all
<1>5. Sum(all, a) \in Nat
  BY <1>1, <1>4, SumType
<1>6. CASE saleSession[k] = t
  <2>1. \A j \in all \ {k} : a[j] = b[j]
    BY <1>1, <1>3
  <2>2. k \in all /\ \A j \in all : a[j] \in Nat /\ b[j] \in Nat
    BY <1>2, <1>4, <1>6
  <2>3. Sum(all, b) = Sum(all, a) - a[k] + b[k]
    BY <1>1, <2>1, <2>2, SumChange
  <2>4. QED
    BY <1>3, <1>4, <1>5, <1>6, <2>3 DEF all
<1>7. CASE saleSession[k] # t
  <2>1. \A j \in all : a[j] = b[j]
    BY <1>1, <1>2, <1>3, <1>7
  <2>2. Sum(all, b) = Sum(all, a)
    BY <2>1, SumAgrees
  <2>3. QED
    BY <1>5, <1>7, <2>2 DEF all
<1>8. QED
  BY <1>6, <1>7

\* The numbers that make up a drawer besides the sums.
LEMMA DrawerNumbers ==
  ASSUME DrawerTypes, NEW s \in Sessions
  PROVE  opening[s] \in Int /\ moved[s] \in Int /\ expected[s] \in Int
<1>1. opening[s] \in Int
  <2>1. opening[s] \in Floats \/ opening[s] = 0
    BY DEF DrawerTypes
  <2>2. \A cash \in Floats : cash \in Int
    BY MoneyAssumption
  <2>3. QED
    BY <2>1, <2>2
<1>2. moved[s] \in Int
  <2>1. moved[s] \in -MaxMoved .. MaxMoved
    BY DEF DrawerTypes
  <2>2. QED
    BY <2>1
<1>3. expected[s] \in Int
  BY DEF DrawerTypes
<1>4. QED
  BY <1>1, <1>2, <1>3

\* Opening a session, putting cash in or taking it out, and closing it.
LEMMA DrawerOfSession ==
  ASSUME DrawerInvariant, NEW s \in Sessions, SessionNext(s)
  PROVE  DrawerTypes' /\ SessionsComeFirst' /\ DrawerReconciles'
<1>1. DrawerTypes /\ TillTypes /\ MaxMoved \in Nat
  BY MoneyAssumption DEF DrawerInvariant, TillInvariant
<1>2. UNCHANGED <<vars, saleVars, returnVars>>
  BY SessionStep DEF DrawerInvariant
<1>3. /\ UNCHANGED <<sale, saleSession, tender, total, cashRefunded, webRefunded>>
      /\ \A t : SalesOf(t)' = SalesOf(t) /\ InCash(SalesOf(t))' = InCash(SalesOf(t))
  BY <1>2 DEF saleVars, returnVars, SalesOf, InCash
<1>4. ASSUME NEW t, opening'[t] = opening[t], moved'[t] = moved[t]
      PROVE  Running(t)' = Running(t)
  BY <1>3, <1>4 DEF Drawer, Running
<1>5. \A t \in Sessions : session[t] = "OPEN" => expected[t] = Running(t)
  BY DEF DrawerInvariant, DrawerReconciles, Running
<1>6. SessionsComeFirst
  BY DEF DrawerInvariant
<1>7. CASE CheckActive(s)
  <2>1. /\ session[s] = "NONE" /\ session' = [session EXCEPT ![s] = "CHECKED"]
        /\ UNCHANGED <<opening, expected, moved>>
    BY <1>7 DEF CheckActive
  <2>2. DrawerTypes'
    BY <1>1, <1>3, <2>1 DEF DrawerTypes
  <2>3. SessionsComeFirst'
    BY <1>1, <1>3, <1>6, <2>1 DEF SessionsComeFirst, TillTypes
  <2>4. \A t \in Sessions : Running(t)' = Running(t)
    BY <1>4, <2>1
  <2>5. \A t \in Sessions : session'[t] = "OPEN" => session[t] = "OPEN"
    BY <1>1, <2>1 DEF TillTypes
  <2>6. DrawerReconciles'
    BY <1>5, <2>1, <2>4, <2>5 DEF DrawerReconciles, Running
  <2>7. QED
    BY <2>2, <2>3, <2>6
<1>8. ASSUME NEW cash \in Floats, InsertSession(s, cash)
      PROVE  DrawerTypes' /\ SessionsComeFirst' /\ DrawerReconciles'
  <2>1. /\ session[s] = "CHECKED" /\ moved' = moved
        /\ \A t \in Sessions \ {s} : session'[t] = session[t] /\ opening'[t] = opening[t]
                                     /\ expected'[t] = expected[t]
    BY <1>1, <1>8 DEF InsertSession, DrawerTypes, TillTypes
  <2>2. DrawerTypes'
    <3>1. cash \in Int /\ cash \in Floats \cup {0}
      BY MoneyAssumption
    <3>2. opening' \in [Sessions -> Floats \cup {0}] /\ expected' \in [Sessions -> Int]
      BY <1>1, <1>8, <3>1 DEF InsertSession, DrawerTypes
    <3>3. QED
      BY <1>1, <1>3, <2>1, <3>2 DEF DrawerTypes
  <2>3. moved[s] = 0 /\ \A k \in Sales : saleSession[k] # s
    BY <1>6, <2>1 DEF SessionsComeFirst
  <2>4. SessionsComeFirst'
    BY <1>3, <1>6, <2>1, <2>3 DEF SessionsComeFirst
  <2>5. ASSUME session'[s] = "OPEN" PROVE expected'[s] = Running(s)'
    <3>1. opening'[s] = cash /\ expected'[s] = cash
      BY <1>1, <1>8, <2>1, <2>5 DEF InsertSession, DrawerTypes, TillTypes
    <3>2. SalesOf(s) = {} /\ InCash(SalesOf(s)) = {}
      BY <2>3 DEF SalesOf, InCash
    <3>3. Sum({}, total) = 0 /\ Sum({}, cashRefunded) = 0 /\ Sum({}, webRefunded) = 0
      BY SumOfNothing
    <3>4. SalesOf(s)' = {} /\ InCash(SalesOf(s))' = {} /\ moved'[s] = 0
      BY <1>3, <2>1, <2>3, <3>2
    <3>5. Running(s)' = cash + 0 + 0 - 0 + 0
      BY <1>3, <3>1, <3>3, <3>4 DEF Drawer, Running
    <3>6. cash \in Int
      BY MoneyAssumption
    <3>7. QED
      BY <3>1, <3>5, <3>6
  <2>6. ASSUME NEW t \in Sessions \ {s}, session'[t] = "OPEN" PROVE expected'[t] = Running(t)'
    BY <1>4, <1>5, <2>1, <2>6
  <2>7. DrawerReconciles'
    BY <2>5, <2>6 DEF DrawerReconciles, Running
  <2>8. QED
    BY <2>2, <2>4, <2>7
<1>9. ASSUME NEW cash \in -MaxMoved .. MaxMoved, RecordCashMovement(s, cash)
      PROVE  DrawerTypes' /\ SessionsComeFirst' /\ DrawerReconciles'
  <2>1. /\ session[s] = "OPEN" /\ session' = session /\ opening' = opening
        /\ moved[s] + cash \in -MaxMoved .. MaxMoved /\ cash \in Int
        /\ moved' = [moved EXCEPT ![s] = @ + cash]
        /\ expected' = [expected EXCEPT ![s] = @ + cash]
    BY <1>1, <1>9 DEF RecordCashMovement
  <2>2. opening[s] \in Int /\ moved[s] \in Int /\ expected[s] \in Int
    BY <1>1, DrawerNumbers
  <2>3. DrawerTypes'
    BY <1>1, <1>3, <2>1, <2>2 DEF DrawerTypes
  <2>4. SessionsComeFirst'
    BY <1>1, <1>3, <1>6, <2>1 DEF SessionsComeFirst, DrawerTypes
  <2>5. expected'[s] = Running(s)'
    <3>1. /\ Sum(InCash(SalesOf(s)), total) \in Nat
          /\ Sum(SalesOf(s), cashRefunded) \in Nat /\ Sum(SalesOf(s), webRefunded) \in Nat
      BY <1>1, DrawerSums DEF DrawerInvariant
    <3>2. expected'[s] = expected[s] + cash /\ moved'[s] = moved[s] + cash
      BY <1>1, <2>1 DEF DrawerTypes
    <3>3. Running(s)' = Running(s) + cash
      BY <1>3, <2>1, <2>2, <3>1, <3>2 DEF Drawer, Running
    <3>4. QED
      BY <1>5, <2>1, <3>2, <3>3
  <2>6. ASSUME NEW t \in Sessions \ {s}, session'[t] = "OPEN" PROVE expected'[t] = Running(t)'
    <3>1. expected'[t] = expected[t] /\ moved'[t] = moved[t] /\ opening'[t] = opening[t]
      BY <1>1, <2>1 DEF DrawerTypes
    <3>2. QED
      BY <1>4, <1>5, <2>1, <2>6, <3>1
  <2>7. DrawerReconciles'
    BY <2>5, <2>6 DEF DrawerReconciles, Running
  <2>8. QED
    BY <2>3, <2>4, <2>7
<1>10. CASE CloseSession(s)
  <2>1. /\ session[s] = "OPEN" /\ session' = [session EXCEPT ![s] = "CLOSED"]
        /\ expected' = [expected EXCEPT ![s] = ClosingCash(s)]
        /\ opening' = opening /\ moved' = moved
    BY <1>10 DEF CloseSession
  <2>2. ClosingCash(s) \in Int
    <3> DEFINE paid == {k \in InCash(SalesOf(s)) : payment[k] = "Completed"}
    <3>1. opening[s] \in Int /\ moved[s] \in Int
      BY <1>1, DrawerNumbers
    <3>2. Sum(SalesOf(s), cashRefunded) \in Nat
      BY <1>1, DrawerSums DEF DrawerInvariant
    <3>3. IsFiniteSet(InCash(SalesOf(s))) /\ \A k \in InCash(SalesOf(s)) : total[k] \in Nat
      BY <1>1, DrawerSums DEF DrawerInvariant
    <3>4. paid \in SUBSET InCash(SalesOf(s))
      OBVIOUS
    <3>5. IsFiniteSet(paid) /\ \A k \in paid : total[k] \in Nat
      BY <3>3, <3>4, FS_Subset
    <3> HIDE DEF paid
    <3>6. Sum(paid, total) \in Nat
      BY <3>5, SumType
    <3>7. QED
      BY <3>1, <3>2, <3>6 DEF ClosingCash, paid
  <2>3. DrawerTypes'
    BY <1>1, <1>3, <2>1, <2>2 DEF DrawerTypes
  <2>4. SessionsComeFirst'
    BY <1>1, <1>3, <1>6, <2>1 DEF SessionsComeFirst, TillTypes
  <2>5. ASSUME NEW t \in Sessions, session'[t] = "OPEN" PROVE expected'[t] = Running(t)'
    <3>1. t # s /\ session[t] = "OPEN" /\ expected'[t] = expected[t]
      BY <1>1, <2>1, <2>5 DEF TillTypes, DrawerTypes
    <3>2. Running(t)' = Running(t)
      BY <1>4, <2>1
    <3>3. QED
      BY <1>5, <3>1, <3>2
  <2>6. QED
    BY <2>3, <2>4, <2>5 DEF DrawerReconciles, Running
<1>11. QED
  BY <1>7, <1>8, <1>9, <1>10 DEF SessionNext

\* A sale puts its total into the drawer if it is paid in cash.
LEMMA DrawerOfCheckout ==
  ASSUME DrawerInvariant, NEW k \in Sales, NEW s \in Sessions, NEW row \in Rows,
         NEW q \in Quantities, NEW cents \in Totals, NEW method \in Methods,
         Checkout(k, s, row, q, cents, method)
  PROVE  DrawerTypes' /\ SessionsComeFirst' /\ DrawerReconciles'
<1>1. DrawerTypes /\ TillTypes /\ TillInvariant /\ SessionsComeFirst
  BY DEF DrawerInvariant, TillInvariant
<1>2. /\ sale[k] = "NONE" /\ session[s] = "OPEN"
      /\ sale'        = [sale EXCEPT ![k] = "Completed"]
      /\ saleSession' = [saleSession EXCEPT ![k] = s]
      /\ tender'      = [tender EXCEPT ![k] = method]
      /\ total'       = [total EXCEPT ![k] = cents]
      /\ expected'    = IF method = "Cash" THEN [expected EXCEPT ![s] = @ + cents]
                                           ELSE expected
      /\ UNCHANGED <<session, opening, moved, cashRefunded, webRefunded>>
  BY DEF Checkout, Fresh, Ring, returnVars
<1>3. cents \in Cents /\ cents \in Nat
  BY CentsAreNumbers
<1>4. saleSession[k] = NoSession /\ cashRefunded[k] = 0 /\ webRefunded[k] = 0
  BY <1>1, <1>2 DEF SessionsComeFirst, TillInvariant, SaleComesFirst
<1>5. DrawerTypes'
  BY <1>1, <1>2, <1>3 DEF DrawerTypes
<1>6. /\ saleSession'[k] = s /\ tender'[k] = method /\ total'[k] = cents
      /\ sale'[k] = "Completed"
      /\ \A j \in Sales \ {k} : /\ saleSession'[j] = saleSession[j] /\ tender'[j] = tender[j]
                                /\ total'[j] = total[j] /\ sale'[j] = sale[j]
  BY <1>1, <1>2 DEF DrawerTypes, TillTypes
<1>7. SessionsComeFirst'
  <2>1. \A j \in Sales : sale'[j] = "NONE" <=> saleSession'[j] = NoSession
    BY <1>1, <1>6, NoSessionAssumption DEF SessionsComeFirst
  <2>2. ASSUME NEW t \in Sessions, session'[t] \in {"NONE", "CHECKED"}
        PROVE  moved'[t] = 0 /\ \A j \in Sales : saleSession'[j] # t
    <3>1. session[t] \in {"NONE", "CHECKED"} /\ t # s
      BY <1>2, <2>2
    <3>2. moved[t] = 0 /\ \A j \in Sales : saleSession[j] # t
      BY <1>1, <3>1 DEF SessionsComeFirst
    <3>3. QED
      BY <1>2, <1>6, <3>1, <3>2
  <2>3. QED
    BY <2>1, <2>2 DEF SessionsComeFirst
<1>8. ASSUME NEW t \in Sessions, session'[t] = "OPEN" PROVE expected'[t] = Running(t)'
  <2> DEFINE rung == InCash(SalesOf(t))
             all  == SalesOf(t)
  <2>1. /\ IsFiniteSet(all) /\ IsFiniteSet(rung) /\ all \subseteq Sales /\ rung \subseteq Sales
        /\ \A j \in Sales : total[j] \in Nat /\ cashRefunded[j] \in Nat /\ webRefunded[j] \in Nat
        /\ Sum(rung, total) \in Nat /\ Sum(all, cashRefunded) \in Nat
        /\ Sum(all, webRefunded) \in Nat
    BY <1>1, DrawerSums
  <2>2. expected[t] = Running(t)
    BY <1>2, <1>8 DEF DrawerInvariant, DrawerReconciles, Running
  <2>3. expected[t] = opening[t] + moved[t] + Sum(rung, total) - Sum(all, cashRefunded)
                        + Sum(all, webRefunded)
    BY <2>2 DEF Drawer, Running
  <2>4. opening[t] \in Int /\ moved[t] \in Int /\ expected[t] \in Int
    BY <1>1, DrawerNumbers
  <2>5. k \notin all /\ k \notin rung
    BY <1>4, NoSessionAssumption DEF SalesOf, InCash
  <2>6. /\ SalesOf(t)' = IF t = s THEN all \cup {k} ELSE all
        /\ InCash(SalesOf(t))' = IF t = s /\ method = "Cash" THEN rung \cup {k} ELSE rung
    BY <1>6, <2>1, <2>5 DEF SalesOf, InCash
  <2>7. Running(t)' = opening[t] + moved[t] + Sum(InCash(SalesOf(t))', total')
                       - Sum(SalesOf(t)', cashRefunded) + Sum(SalesOf(t)', webRefunded)
    BY <1>2 DEF Drawer, Running
  <2>8. /\ expected'[t] = IF t = s /\ method = "Cash" THEN expected[t] + cents ELSE expected[t]
        /\ total'[k] = cents /\ \A j \in rung : total'[j] = total[j]
    BY <1>1, <1>2, <1>6, <2>5, <2>1 DEF DrawerTypes
  <2> HIDE DEF rung, all
  <2>9. Sum(rung, total') = Sum(rung, total)
    BY <2>8, SumAgrees
  <2>10. Sum(rung \cup {k}, total') = Sum(rung, total') + cents
    <3>1. total'[k] \in Nat /\ \A j \in rung : total'[j] \in Nat
      BY <1>3, <2>1, <2>8
    <3>2. QED
      BY <2>1, <2>5, <2>8, <3>1, SumInsert
  <2>11. /\ Sum(all \cup {k}, cashRefunded) = Sum(all, cashRefunded)
         /\ Sum(all \cup {k}, webRefunded) = Sum(all, webRefunded)
    <3>1. /\ cashRefunded[k] \in Nat /\ \A j \in all : cashRefunded[j] \in Nat
          /\ webRefunded[k] \in Nat /\ \A j \in all : webRefunded[j] \in Nat
      BY <2>1
    <3>2. /\ Sum(all \cup {k}, cashRefunded) = Sum(all, cashRefunded) + cashRefunded[k]
          /\ Sum(all \cup {k}, webRefunded) = Sum(all, webRefunded) + webRefunded[k]
      BY <2>1, <2>5, <3>1, SumInsert
    <3>3. QED
      BY <1>4, <2>1, <3>2
  <2>12. /\ Sum(SalesOf(t)', cashRefunded) = Sum(all, cashRefunded)
         /\ Sum(SalesOf(t)', webRefunded) = Sum(all, webRefunded)
    BY <2>6, <2>11
  <2>13. Sum(InCash(SalesOf(t))', total')
           = Sum(rung, total) + IF t = s /\ method = "Cash" THEN cents ELSE 0
    BY <2>1, <2>6, <2>9, <2>10
  <2>14. QED
    BY <1>3, <2>1, <2>3, <2>4, <2>7, <2>8, <2>12, <2>13
<1>9. QED
  BY <1>5, <1>7, <1>8 DEF DrawerReconciles, Running

\* What both routes change of the sales.
LEMMA PaidBack ==
  ASSUME DrawerInvariant, TillInvariant', NEW k \in Sales, NEW q \in Quantities,
         NEW method \in Methods, GiveMoneyBack(k, q, method),
         sale[k] \in {"Completed", "Refunded"}
  PROVE  /\ RefundOf(k, q) \in Int /\ saleSession[k] \in Sessions
         /\ UNCHANGED <<session, opening, moved, saleSession, tender, total>>
         /\ SessionsComeFirst'
         /\ \A t : /\ SalesOf(t)' = SalesOf(t) /\ InCash(SalesOf(t))' = InCash(SalesOf(t))
                  /\ Sum(SalesOf(t), cashRefunded')
                       = Sum(SalesOf(t), cashRefunded)
                           + IF saleSession[k] = t /\ method = "Cash" THEN RefundOf(k, q) ELSE 0
<1> DEFINE refund == RefundOf(k, q)
<1>1. DrawerTypes /\ TillTypes /\ TillInvariant /\ SessionsComeFirst
  BY DEF DrawerInvariant, TillInvariant
<1>2. /\ sale[k] # "NONE" /\ sale'[k] # "NONE"
      /\ \A j \in Sales \ {k} : sale'[j] = sale[j]
      /\ cashRefunded' = IF method = "Cash" THEN [cashRefunded EXCEPT ![k] = @ + refund]
                                            ELSE cashRefunded
      /\ UNCHANGED <<session, opening, moved, saleSession, tender, total>>
  BY <1>1 DEF GiveMoneyBack, TillTypes
<1>3. refund \in Int
  <2>1. refunded[k] \in Nat /\ total[k] \in Nat
    BY <1>1 DEF TillTypes
  <2>2. sold[k] \in Nat \ {0}
    BY <1>1, <1>2, MaxQuantityAssumption DEF TillInvariant, TillTypes, SaleComesFirst
  <2>3. Calculated(k, q) \in Int
    <3>1. 2 * total[k] * q + sold[k] \in Int /\ 2 * sold[k] \in Nat \ {0}
      BY <2>1, <2>2, MaxQuantityAssumption DEF Quantities
    <3>2. \A m \in Int, n \in Nat \ {0} : m \div n \in Int
      OBVIOUS
    <3>3. QED
      BY <3>1, <3>2 DEF Calculated
  <2>4. QED
    BY <2>1, <2>3 DEF RefundOf
<1> HIDE DEF refund
<1>4. saleSession[k] \in Sessions
  BY <1>1, <1>2 DEF DrawerTypes, SessionsComeFirst
<1>5. SessionsComeFirst'
  BY <1>1, <1>2 DEF SessionsComeFirst
<1>6. \A t : SalesOf(t)' = SalesOf(t) /\ InCash(SalesOf(t))' = InCash(SalesOf(t))
  BY <1>2 DEF SalesOf, InCash
<1>7. ASSUME NEW t
      PROVE  Sum(SalesOf(t), cashRefunded')
               = Sum(SalesOf(t), cashRefunded)
                   + IF saleSession[k] = t /\ method = "Cash" THEN refund ELSE 0
  <2>1. cashRefunded \in [Sales -> Nat] /\ cashRefunded' \in [Sales -> Nat]
    BY <1>1 DEF TillTypes, TillInvariant
  <2>2. Sum(SalesOf(t), cashRefunded) \in Nat
    BY <1>1, DrawerSums
  <2>3. CASE method = "Cash"
    <3>1. /\ cashRefunded'[k] = cashRefunded[k] + refund
          /\ \A j \in Sales \ {k} : cashRefunded'[j] = cashRefunded[j]
      BY <1>2, <2>1, <2>3
    <3>2. Sum(SalesOf(t), cashRefunded')
            = Sum(SalesOf(t), cashRefunded) + IF saleSession[k] = t THEN refund ELSE 0
      BY <1>1, <1>3, <2>1, <3>1, SumOfSales
    <3>3. QED
      BY <2>3, <3>2
  <2>4. CASE method # "Cash"
    BY <1>2, <2>2, <2>4
  <2>5. QED
    BY <2>3, <2>4
<1>8. QED
  BY <1>2, <1>3, <1>4, <1>5, <1>6, <1>7 DEF refund

\* A return at the till takes what it pays back in cash out of the drawer.
LEMMA DrawerOfReturn ==
  ASSUME DrawerInvariant, TillInvariant', NEW k \in Sales, NEW q \in Quantities,
         NEW method \in Methods, ProcessReturn(k, q, method)
  PROVE  DrawerTypes' /\ SessionsComeFirst' /\ DrawerReconciles'
<1> DEFINE refund == RefundOf(k, q)
           hit(t) == saleSession[k] = t /\ method = "Cash"
<1>1. DrawerTypes /\ TillInvariant
  BY DEF DrawerInvariant
<1>2. /\ sale[k] = "Completed" /\ GiveMoneyBack(k, q, method) /\ webRefunded' = webRefunded
      /\ expected' = IF method = "Cash" /\ session[saleSession[k]] = "OPEN"
                       THEN [expected EXCEPT ![saleSession[k]] = @ - refund]
                       ELSE expected
  BY DEF ProcessReturn
<1>3. /\ refund \in Int /\ saleSession[k] \in Sessions /\ SessionsComeFirst'
      /\ UNCHANGED <<session, opening, moved, saleSession, tender, total>>
      /\ \A t : /\ SalesOf(t)' = SalesOf(t) /\ InCash(SalesOf(t))' = InCash(SalesOf(t))
               /\ Sum(SalesOf(t), cashRefunded')
                    = Sum(SalesOf(t), cashRefunded) + IF hit(t) THEN refund ELSE 0
  BY <1>2, PaidBack
<1> HIDE DEF refund
<1>4. DrawerTypes'
  <2>1. expected[saleSession[k]] - refund \in Int
    BY <1>1, <1>3 DEF DrawerTypes
  <2>2. expected' \in [Sessions -> Int]
    BY <1>1, <1>2, <2>1 DEF DrawerTypes
  <2>3. QED
    BY <1>1, <1>3, <2>2 DEF DrawerTypes
<1>5. ASSUME NEW t \in Sessions, session'[t] = "OPEN" PROVE expected'[t] = Running(t)'
  <2>1. expected[t] = Running(t) /\ session[t] = "OPEN"
    BY <1>3, <1>5 DEF DrawerInvariant, DrawerReconciles, Running
  <2>2. expected'[t] = expected[t] - IF hit(t) THEN refund ELSE 0
    BY <1>1, <1>2, <1>3, <2>1 DEF DrawerTypes
  <2>3. /\ Sum(InCash(SalesOf(t)), total) \in Nat /\ Sum(SalesOf(t), cashRefunded) \in Nat
        /\ Sum(SalesOf(t), webRefunded) \in Nat
    BY <1>1, DrawerSums
  <2>4. opening[t] \in Int /\ moved[t] \in Int /\ expected[t] \in Int
    BY <1>1, DrawerNumbers
  <2>5. Running(t)' = opening[t] + moved[t] + Sum(InCash(SalesOf(t)), total)
                        - Sum(SalesOf(t), cashRefunded') + Sum(SalesOf(t), webRefunded)
    BY <1>2, <1>3 DEF Drawer, Running
  <2> HIDE DEF hit
  <2>6. Running(t)' = Running(t) - IF hit(t) THEN refund ELSE 0
    BY <1>3, <2>3, <2>4, <2>5 DEF Drawer, Running
  <2>7. QED
    BY <2>1, <2>2, <2>6
<1>6. QED
  BY <1>3, <1>4, <1>5 DEF DrawerReconciles, Running

\* A refund by the storefront's route takes nothing out of it: what the records
\* lose by it in cash, the route's own sum gains.
LEMMA DrawerOfRefund ==
  ASSUME DrawerInvariant, TillInvariant', NEW k \in Sales, NEW q \in Quantities,
         NEW method \in Methods, RefundOrder(k, q, method)
  PROVE  DrawerTypes' /\ SessionsComeFirst' /\ DrawerReconciles'
<1> DEFINE refund == RefundOf(k, q)
           hit(t) == saleSession[k] = t /\ method = "Cash"
<1>1. DrawerTypes /\ TillInvariant
  BY DEF DrawerInvariant
<1>2. /\ sale[k] \in {"Completed", "Refunded"} /\ GiveMoneyBack(k, q, method)
      /\ webRefunded' = IF method = "Cash" THEN [webRefunded EXCEPT ![k] = @ + refund]
                                           ELSE webRefunded
      /\ expected' = expected
  BY DEF RefundOrder
<1>3. /\ refund \in Int /\ saleSession[k] \in Sessions /\ SessionsComeFirst'
      /\ UNCHANGED <<session, opening, moved, saleSession, tender, total>>
      /\ \A t : /\ SalesOf(t)' = SalesOf(t) /\ InCash(SalesOf(t))' = InCash(SalesOf(t))
               /\ Sum(SalesOf(t), cashRefunded')
                    = Sum(SalesOf(t), cashRefunded) + IF hit(t) THEN refund ELSE 0
  BY <1>2, PaidBack
<1> HIDE DEF refund
<1>4. DrawerTypes'
  BY <1>1, <1>2, <1>3 DEF DrawerTypes
<1>5. ASSUME NEW t PROVE Sum(SalesOf(t), webRefunded')
                           = Sum(SalesOf(t), webRefunded) + IF hit(t) THEN refund ELSE 0
  <2>1. webRefunded \in [Sales -> Nat] /\ webRefunded' \in [Sales -> Nat]
    BY <1>1 DEF TillTypes, TillInvariant
  <2>2. Sum(SalesOf(t), webRefunded) \in Nat
    BY <1>1, DrawerSums
  <2>3. CASE method = "Cash"
    <3>1. /\ webRefunded'[k] = webRefunded[k] + refund
          /\ \A j \in Sales \ {k} : webRefunded'[j] = webRefunded[j]
      BY <1>2, <2>1, <2>3
    <3>2. Sum(SalesOf(t), webRefunded')
            = Sum(SalesOf(t), webRefunded) + IF saleSession[k] = t THEN refund ELSE 0
      BY <1>1, <1>3, <2>1, <3>1, SumOfSales
    <3>3. QED
      BY <2>3, <3>2
  <2>4. CASE method # "Cash"
    BY <1>2, <2>2, <2>4
  <2>5. QED
    BY <2>3, <2>4
<1>6. ASSUME NEW t \in Sessions, session'[t] = "OPEN" PROVE expected'[t] = Running(t)'
  <2>1. expected'[t] = Running(t)
    BY <1>2, <1>3, <1>6 DEF DrawerInvariant, DrawerReconciles, Running
  <2>2. /\ Sum(InCash(SalesOf(t)), total) \in Nat /\ Sum(SalesOf(t), cashRefunded) \in Nat
        /\ Sum(SalesOf(t), webRefunded) \in Nat
    BY <1>1, DrawerSums
  <2>3. opening[t] \in Int /\ moved[t] \in Int
    BY <1>1, DrawerNumbers
  <2>4. Running(t)' = opening[t] + moved[t] + Sum(InCash(SalesOf(t)), total)
                        - Sum(SalesOf(t), cashRefunded') + Sum(SalesOf(t), webRefunded')
    BY <1>3 DEF Drawer, Running
  <2> HIDE DEF hit
  <2>5. Running(t)' = Running(t)
    BY <1>3, <1>5, <2>2, <2>3, <2>4 DEF Drawer, Running
  <2>6. QED
    BY <2>1, <2>5
<1>7. QED
  BY <1>3, <1>4, <1>6 DEF DrawerReconciles, Running

\* Cancelling a sale leaves sessions and money alone.
LEMMA DrawerOfCancel ==
  ASSUME DrawerInvariant, NEW k \in Sales, CancelSale(k)
  PROVE  DrawerTypes' /\ SessionsComeFirst' /\ DrawerReconciles'
<1>1. /\ sale[k] = "Refunded" /\ sale' = [sale EXCEPT ![k] = "Cancelled"]
      /\ UNCHANGED <<session, opening, expected, moved, saleSession, tender, total,
                     cashRefunded, webRefunded>>
  BY DEF CancelSale, drawerVars, returnVars
<1>2. DrawerTypes'
  BY <1>1 DEF DrawerInvariant, DrawerTypes
<1>3. SessionsComeFirst'
  BY <1>1 DEF DrawerInvariant, TillInvariant, TillTypes, SessionsComeFirst
<1>4. \A t : Running(t)' = Running(t)
  BY <1>1 DEF Drawer, Running, InCash, SalesOf
<1>5. QED
  BY <1>1, <1>2, <1>3, <1>4 DEF DrawerInvariant, DrawerReconciles, Running

\* What changes the stock alone leaves the drawer alone.
LEMMA DrawerKept ==
  ASSUME DrawerInvariant, UNCHANGED <<drawerVars, saleVars, returnVars>>
  PROVE  DrawerTypes' /\ SessionsComeFirst' /\ DrawerReconciles'
<1>1. UNCHANGED <<session, opening, expected, moved, sale, saleSession, tender, total,
                  cashRefunded, webRefunded>>
  BY DEF drawerVars, saleVars, returnVars
<1>2. DrawerTypes' /\ SessionsComeFirst'
  BY <1>1 DEF DrawerInvariant, DrawerTypes, SessionsComeFirst
<1>3. \A s : Running(s)' = Running(s)
  BY <1>1 DEF Drawer, Running, InCash, SalesOf
<1>4. QED
  BY <1>1, <1>2, <1>3 DEF DrawerInvariant, DrawerReconciles, Running

\* However sales, cash movements and returns overlap, the drawer's invariant
\* holds.
THEOREM DrawerIsSafe == PosSpec => []DrawerInvariant
<1>1. PosInit => DrawerTypes /\ SessionsComeFirst /\ DrawerReconciles
  <2> SUFFICES ASSUME PosInit PROVE DrawerTypes /\ SessionsComeFirst /\ DrawerReconciles
    OBVIOUS
  <2>1. DrawerTypes
    BY MoneyAssumption DEF PosInit, DrawerTypes, Methods, Cents
  <2>2. SessionsComeFirst
    BY NoSessionAssumption DEF PosInit, SessionsComeFirst
  <2>3. DrawerReconciles
    BY DEF PosInit, DrawerReconciles
  <2>4. QED
    BY <2>1, <2>2, <2>3
<1>2. /\ DrawerTypes /\ SessionsComeFirst /\ DrawerReconciles
      /\ TillInvariant /\ TillInvariant' /\ [PosNext]_tillVars
      => DrawerTypes' /\ SessionsComeFirst' /\ DrawerReconciles'
  <2> SUFFICES ASSUME DrawerInvariant, TillInvariant', [PosNext]_tillVars
               PROVE  DrawerTypes' /\ SessionsComeFirst' /\ DrawerReconciles'
    BY DEF DrawerInvariant
  <2>1. ASSUME NEW s \in Sessions, SessionNext(s)
        PROVE  DrawerTypes' /\ SessionsComeFirst' /\ DrawerReconciles'
    BY <2>1, DrawerOfSession
  <2>2. ASSUME NEW k \in Sales, SaleNext(k)
        PROVE  DrawerTypes' /\ SessionsComeFirst' /\ DrawerReconciles'
    BY <2>2, DrawerOfCheckout, DrawerOfReturn, DrawerOfRefund, DrawerOfCancel DEF SaleNext
  <2>3. CASE ShopNext
    BY <2>3, DrawerKept DEF ShopNext
  <2>4. CASE UNCHANGED tillVars
    BY <2>4, DrawerKept DEF tillVars
  <2>5. QED
    BY <2>1, <2>2, <2>3, <2>4 DEF PosNext
<1>3. QED
  BY TillIsSafe, <1>1, <1>2, PTL DEF PosSpec, DrawerInvariant

\* While a session is open, the cash it is expected to hold is what its records
\* add up to, ahead by the cash that the storefront's route paid back and nothing
\* else: no repeated sale and no return by card changes it.
THEOREM DrawersReconcile == PosSpec => []DrawerReconciles
<1>1. DrawerInvariant => DrawerReconciles
  BY DEF DrawerInvariant
<1>2. QED
  BY DrawerIsSafe, <1>1, PTL

\* Every amount at the till is in its range: no refund exceeds a total that a
\* sale may have.
THEOREM TillTypesCorrect == PosSpec => []PosTypeOK
<1>1. DrawerInvariant => PosTypeOK
  <2> SUFFICES ASSUME DrawerInvariant PROVE PosTypeOK
    OBVIOUS
  <2>1. TypeOK /\ TillTypes /\ DrawerTypes
    BY DEF DrawerInvariant, TillInvariant, StockInvariant
  <2>2. ASSUME NEW k \in Sales PROVE refunded[k] \in Cents /\ cashRefunded[k] \in Cents
                                  /\ webRefunded[k] \in Cents
    <3>1. /\ refunded[k] \in Nat /\ cashRefunded[k] \in Nat /\ webRefunded[k] \in Nat
          /\ total[k] \in Cents /\ total[k] \in Nat
      BY <2>1 DEF TillTypes, DrawerTypes
    <3>2. /\ webRefunded[k] <= cashRefunded[k] /\ cashRefunded[k] <= refunded[k]
          /\ refunded[k] <= total[k]
      BY DEF DrawerInvariant, TillInvariant, ReturnsSettleSale
    <3>3. cashRefunded[k] <= total[k] /\ webRefunded[k] <= total[k]
      BY <3>1, <3>2
    <3>4. QED
      BY <3>1, <3>2, <3>3, CentsAreNumbers
  <2>3. /\ refunded \in [Sales -> Cents] /\ cashRefunded \in [Sales -> Cents]
        /\ webRefunded \in [Sales -> Cents]
    BY <2>1, <2>2 DEF TillTypes
  <2>4. QED
    BY <2>1, <2>3 DEF PosTypeOK, TillTypes, DrawerTypes
<1>2. QED
  BY DrawerIsSafe, <1>1, PTL
=============================================================================
