----------------------------- MODULE Purchasing -----------------------------
(***************************************************************************)
(* Purchase orders and the receipts of their goods.  A receipt is one      *)
(* transaction that locks the order and its lines; its idempotency key is  *)
(* looked up before that, so that of two receipts with one key that run    *)
(* beside each other the second is refused by the unique index.            *)
(***************************************************************************)
EXTENDS Inventory

CONSTANTS
  Purchases,  \* purchase orders: one per idempotency key of their creation
  Lines,      \* the positions of an order's lines
  Receipts    \* receipts of goods: one per idempotency key

ASSUME PurchasesAssumption ==
  IsFiniteSet(Purchases) /\ IsFiniteSet(Lines) /\ IsFiniteSet(Receipts)

VARIABLES
  purchase,      \* purchase_orders.status, "NONE" before the insert
  lineRow,       \* the balance row each line's goods are for
  ordered,       \* ordered_qty of each line
  arrived,       \* received_qty of each line
  receipt,       \* purchase_receipts: what each receipt holds for each line
  purchaseMoved  \* the sum of the PURCHASE_RECEIVE movements

purchaseVars == <<purchase, lineRow, ordered, arrived, receipt, purchaseMoved>>

-----------------------------------------------------------------------------
Items == Purchases \X Lines

LinesOf(p) == {i \in Items : i[1] = p}

PurchaseStages ==
  {"NONE", "Draft", "Sent", "Approved", "Partially Received", "Received", "Cancelled"}

NotReceived == [i \in Items |-> -1]  \* a receipt that was not made

PurchasesInit ==
  /\ purchase      = [p \in Purchases |-> "NONE"]
  /\ lineRow       = [i \in Items |-> NoRow]
  /\ ordered       = [i \in Items |-> 0]
  /\ arrived       = [i \in Items |-> 0]
  /\ receipt       = [x \in Receipts |-> NotReceived]
  /\ purchaseMoved = [row \in Rows |-> 0]

\* createPurchaseOrder.  An order has a line, and two may be of one variant.
CreatePurchase(p, rows, amounts) ==
  /\ Lines # {}
  /\ purchase[p] = "NONE"
  /\ purchase' = [purchase EXCEPT ![p] = "Draft"]
  /\ lineRow'  = [i \in Items |-> IF i[1] = p THEN rows[i[2]] ELSE lineRow[i]]
  /\ ordered'  = [i \in Items |-> IF i[1] = p THEN amounts[i[2]] ELSE ordered[i]]
  /\ UNCHANGED <<vars, arrived, receipt, purchaseMoved>>

\* updateStatus
ChangePurchase(p, stage) ==
  /\ purchase[p] \in CASE stage = "Sent"      -> {"Draft"}
                       [] stage = "Approved"  -> {"Sent"}
                       [] stage = "Cancelled" -> {"Draft", "Sent", "Approved",
                                                  "Partially Received"}
  /\ purchase' = [purchase EXCEPT ![p] = stage]
  /\ UNCHANGED <<vars, lineRow, ordered, arrived, receipt, purchaseMoved>>

\* A receipt names variants.  It takes one line of each: which one, if there are
\* two, depends on the order in which the database returns them.
Receivable(p, S) ==
  /\ S # {}
  /\ S \subseteq LinesOf(p)
  /\ \A i, j \in S : lineRow[i] = lineRow[j] => i = j

\* A key that has a receipt is answered with it; with a faulty variant, for
\* ReceiptsAddUp, that receives again.
AnyReceipt(x) == x \in Receipts

FreshReceipt(x) == receipt[x] = NotReceived

\* receive, of amounts for the lines S.  Zero is accepted.
ReceiveGoods(p, x, S, amounts) ==
  /\ FreshReceipt(x)
  /\ purchase[p] \in {"Sent", "Approved", "Partially Received"}
  /\ Receivable(p, S)
  /\ \A i \in S : amounts[i] <= ordered[i] - arrived[i]
  /\ Post([row \in Rows |-> Total(S, lineRow, amounts, row)])
  /\ purchaseMoved' =
       [row \in Rows |-> purchaseMoved[row] + Total(S, lineRow, amounts, row)]
  /\ receipt' = [receipt EXCEPT ![x] = [i \in Items |-> IF i \in S THEN amounts[i] ELSE -1]]
  /\ arrived' = [i \in Items |-> IF i \in S THEN arrived[i] + amounts[i] ELSE arrived[i]]
  /\ purchase' = [purchase EXCEPT ![p] =
                    IF \A i \in LinesOf(p) : arrived'[i] >= ordered[i]
                      THEN "Received" ELSE "Partially Received"]
  /\ UNCHANGED <<lineRow, ordered>>

PurchaseCreated(p) ==
  \E rows \in [Lines -> Rows], amounts \in [Lines -> Quantities] :
    CreatePurchase(p, rows, amounts)

PurchaseMoves(p) ==
  \/ \E stage \in {"Sent", "Approved", "Cancelled"} : ChangePurchase(p, stage)
  \/ \E x \in Receipts, S \in SUBSET LinesOf(p) :
       \E amounts \in [S -> 0 .. MaxQuantity] : ReceiveGoods(p, x, S, amounts)

-----------------------------------------------------------------------------
PurchasesTypeOK ==
  /\ purchase      \in [Purchases -> PurchaseStages]
  /\ lineRow       \in [Items -> Rows \cup {NoRow}]
  /\ ordered       \in [Items -> 0 .. MaxQuantity]
  /\ arrived       \in [Items -> Nat]
  /\ receipt       \in [Receipts -> [Items -> -1 .. MaxQuantity]]
  /\ purchaseMoved \in [Rows -> Int]

\* What each receipt holds for a line.
OfLine(i)  == [x \in Receipts |-> i]
HeldFor(i)  == [x \in Receipts |-> receipt[x][i]]

\* Deliveries come in parts, their receipts are sent again, and the order may be
\* cancelled in between: no line gets more than was ordered, what it got is what
\* its receipts say and what the ledger took in, and an order counts as received
\* exactly when nothing is missing.
ReceiptsAddUp ==
  /\ \A i \in Items :
       /\ arrived[i] <= ordered[i]
       /\ arrived[i] = Total(Receipts, OfLine(i), HeldFor(i), i)
  /\ \A row \in Rows : purchaseMoved[row] = Total(Items, lineRow, arrived, row)
  /\ \A p \in Purchases :
       purchase[p] # "NONE" =>
         (purchase[p] = "Received" <=> \A i \in LinesOf(p) : arrived[i] = ordered[i])
=============================================================================
