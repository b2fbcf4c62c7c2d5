---------------------------- MODULE PointOfSale ----------------------------
(***************************************************************************)
(* The till: the cash drawer sessions of one terminal, the sales rung up   *)
(* in them and what customers bring back, at the till or through the route *)
(* that refunds orders of the storefront, over the balances of Inventory.  *)
(* Each operation but openSession is one transaction that locks the session *)
(* or the order it works on, and is one action; openSession asks for an    *)
(* open session and inserts its own in two transactions.  A sale here has  *)
(* one variant.  Amounts of money are in cents.                            *)
(***************************************************************************)
EXTENDS Inventory, Sums

CONSTANTS
  Sessions,   \* sessions of the terminal, one per request to open one
  NoSession,  \* what a sale refers to before it is made
  Sales,      \* sales: one per idempotency key
  Totals,     \* the totals that sales may have
  Floats,     \* the opening cash that sessions may have
  MaxMoved    \* the most cash put into a drawer, or out of it, on balance (a bound)

ASSUME NoSessionAssumption == NoSession \notin Sessions
ASSUME SalesAssumption     == IsFiniteSet(Sales)
ASSUME MoneyAssumption     ==
  Totals \subseteq Nat /\ Floats \subseteq Nat /\ MaxMoved \in Nat

VARIABLES
  session,       \* pos_sessions.status; "NONE", then "CHECKED" by its request
  opening,       \* opening_cash
  expected,      \* expected_cash
  moved,         \* the sum of its pos_cash_movements, Cash Out negative
  sale,          \* orders.status, "NONE" before the insert
  saleSession,   \* orders.pos_session_id
  tender,        \* payments.payment_method: cash, or any other
  payment,       \* payments.status, "NONE" before the insert
  saleRow,       \* the balance row the sale is taken from
  sold,          \* the quantity of its variant
  total,         \* orders.total_amount, which is payments.amount
  returned,      \* the sum of the quantities in its pos_returns
  refunded,      \* the sum of their refund_amount
  cashRefunded,  \* the part of it with refund_method Cash
  webRefunded    \* the part of that which refundOrder wrote, not the till

drawerVars == <<session, opening, expected, moved>>
saleVars   == <<sale, saleSession, tender, payment, saleRow, sold, total>>
returnVars == <<returned, refunded, cashRefunded, webRefunded>>
tillVars   == <<vars, drawerVars, saleVars, returnVars>>

-----------------------------------------------------------------------------
Methods == {"Cash", "Other"}
Cents   == {0} \cup UNION {0 .. cents : cents \in Totals}

SalesOf(s) == {k \in Sales : saleSession[k] = s}

InCash(S) == {k \in S : tender[k] = "Cash"}

Fresh(k) == sale[k] = "NONE"

PosInit ==
  /\ Init
  /\ session      = [s \in Sessions |-> "NONE"]
  /\ opening      = [s \in Sessions |-> 0]
  /\ expected     = [s \in Sessions |-> 0]
  /\ moved        = [s \in Sessions |-> 0]
  /\ sale         = [k \in Sales |-> "NONE"]
  /\ saleSession  = [k \in Sales |-> NoSession]
  /\ tender       = [k \in Sales |-> "Cash"]
  /\ payment      = [k \in Sales |-> "NONE"]
  /\ saleRow      = [k \in Sales |-> NoRow]
  /\ sold         = [k \in Sales |-> 0]
  /\ total        = [k \in Sales |-> 0]
  /\ returned     = [k \in Sales |-> 0]
  /\ refunded     = [k \in Sales |-> 0]
  /\ cashRefunded = [k \in Sales |-> 0]
  /\ webRefunded  = [k \in Sales |-> 0]

-----------------------------------------------------------------------------
\* openSession asks for an open session of the terminal, and goes on if there
\* is none.
CheckActive(s) ==
  /\ session[s] = "NONE"
  /\ \A other \in Sessions : session[other] # "OPEN"
  /\ session' = [session EXCEPT ![s] = "CHECKED"]
  /\ UNCHANGED <<vars, opening, expected, moved, saleVars, returnVars>>

\* What uq_active_pos_session lets it insert; with a faulty variant, for
\* OneOpenSession, that has only the check.
NoIndex(s) == TRUE

Admitted(s) == \A other \in Sessions : session[other] # "OPEN"

\* createSession; the request ends refused if the index does not admit it.
InsertSession(s, cash) ==
  /\ session[s] = "CHECKED"
  /\ IF Admitted(s)
       THEN /\ session'  = [session EXCEPT ![s] = "OPEN"]
            /\ opening'  = [opening EXCEPT ![s] = cash]
            /\ expected' = [expected EXCEPT ![s] = cash]
       ELSE /\ session'  = [session EXCEPT ![s] = "NONE"]
            /\ UNCHANGED <<opening, expected>>
  /\ UNCHANGED <<vars, moved, saleVars, returnVars>>

\* recordCashMovement
RecordCashMovement(s, cash) ==
  /\ session[s] = "OPEN"
  /\ moved[s] + cash \in -MaxMoved .. MaxMoved
  /\ moved'    = [moved EXCEPT ![s] = @ + cash]
  /\ expected' = [expected EXCEPT ![s] = @ + cash]
  /\ UNCHANGED <<vars, session, opening, saleVars, returnVars>>

\* What closeSession computes the drawer to hold: the cash payments of the
\* session's sales that are Completed, and the cash refunds of all its sales.
ClosingCash(s) ==
  opening[s] + moved[s]
    + Sum({k \in InCash(SalesOf(s)) : payment[k] = "Completed"}, total)
    - Sum(SalesOf(s), cashRefunded)

\* closeSession: what it returns of the updated session is refused, and the
\* transaction with it, if the amount is negative.  What was counted, and how
\* much it differs, is only recorded.
CloseSession(s) ==
  /\ session[s] = "OPEN"
  /\ ClosingCash(s) >= 0
  /\ session'  = [session EXCEPT ![s] = "CLOSED"]
  /\ expected' = [expected EXCEPT ![s] = ClosingCash(s)]
  /\ UNCHANGED <<vars, opening, moved, saleVars, returnVars>>

-----------------------------------------------------------------------------
\* The rows that checkout writes for sale k.
Ring(k, s, row, q, cents, method) ==
  /\ Post([r \in Rows |-> IF r = row THEN -q ELSE 0])
  /\ sale'        = [sale EXCEPT ![k] = "Completed"]
  /\ saleSession' = [saleSession EXCEPT ![k] = s]
  /\ tender'      = [tender EXCEPT ![k] = method]
  /\ payment'     = [payment EXCEPT ![k] = "Completed"]
  /\ saleRow'     = [saleRow EXCEPT ![k] = row]
  /\ sold'        = [sold EXCEPT ![k] = q]
  /\ total'       = [total EXCEPT ![k] = cents]
  /\ expected'    = IF method = "Cash" THEN [expected EXCEPT ![s] = @ + cents]
                                       ELSE expected
  /\ UNCHANGED <<session, opening, moved, returnVars>>

\* A faulty variant, for DrawerReconciles: a request sent again sells again.
CheckoutAgain(k, s, row, q, cents, method) ==
  session[s] = "OPEN" /\ Ring(k, s, row, q, cents, method)

\* checkout: a key that has its sale, found before the transaction or by the
\* unique index that rolls it back, answers with that sale and changes nothing.
Checkout(k, s, row, q, cents, method) ==
  /\ Fresh(k)
  /\ session[s] = "OPEN"
  /\ Ring(k, s, row, q, cents, method)

\* The returned share of the total, rounded half up.  For RefundOf it is a
\* faulty variant too, for ReturnsSettleSale: nothing evens the shares out.
Calculated(k, q) == (2 * total[k] * q + sold[k]) \div (2 * sold[k])

Returnable(k, q) == q <= sold[k] - returned[k]

LastReturn(k, q) == returned[k] + q = sold[k]

\* The last return takes what is left of the total, whatever the shares say;
\* with a faulty variant, for PosTypeOK, that takes the total.
WholeTotal(k, q) == IF LastReturn(k, q) THEN total[k] ELSE Calculated(k, q)

RefundOf(k, q) ==
  IF LastReturn(k, q) THEN total[k] - refunded[k] ELSE Calculated(k, q)

\* What both routes write of a return: a sale that is wholly returned and paid
\* back is Refunded, and so is its payment.
GiveMoneyBack(k, q, method) ==
  LET refund == RefundOf(k, q)
      closes == LastReturn(k, q) /\ refunded[k] + refund = total[k]
  IN  /\ Returnable(k, q)
      /\ Calculated(k, q) <= total[k] - refunded[k]
      /\ Post([r \in Rows |-> IF r = saleRow[k] THEN q ELSE 0])
      /\ returned' = [returned EXCEPT ![k] = @ + q]
      /\ refunded' = [refunded EXCEPT ![k] = @ + refund]
      /\ cashRefunded' = IF method = "Cash" THEN [cashRefunded EXCEPT ![k] = @ + refund]
                                            ELSE cashRefunded
      /\ sale'    = [sale EXCEPT ![k] = IF closes THEN "Refunded" ELSE @]
      /\ payment' = [payment EXCEPT ![k] = IF closes THEN "Refunded" ELSE @]
      /\ UNCHANGED <<session, opening, moved, saleSession, tender, saleRow, sold, total>>

\* processReturn, at the till: cash comes out of the drawer of the sale's session
\* if that is still open.
ProcessReturn(k, q, method) ==
  LET refund == RefundOf(k, q)
      s      == saleSession[k]
  IN  /\ sale[k] = "Completed"
      /\ refund > 0
      /\ GiveMoneyBack(k, q, method)
      /\ expected' = IF method = "Cash" /\ session[s] = "OPEN"
                       THEN [expected EXCEPT ![s] = @ - refund]
                       ELSE expected
      /\ UNCHANGED webRefunded

\* refundOrder, the storefront's route, takes the sales of the till as well.  It
\* refuses a share that rounds to nothing, and does not look at sessions.
RefundOrder(k, q, method) ==
  /\ sale[k] \in {"Completed", "Refunded"}
  /\ Calculated(k, q) > 0
  /\ GiveMoneyBack(k, q, method)
  /\ webRefunded' = IF method = "Cash" THEN [webRefunded EXCEPT ![k] = @ + RefundOf(k, q)]
                                       ELSE webRefunded
  /\ UNCHANGED expected

\* cancelStorefrontOrder: of the till's sales it takes those that are Refunded,
\* and leaves their payment as it is.
CancelSale(k) ==
  /\ sale[k] = "Refunded"
  /\ sale' = [sale EXCEPT ![k] = "Cancelled"]
  /\ UNCHANGED <<vars, drawerVars, saleSession, tender, payment, saleRow, sold, total,
                 returnVars>>

-----------------------------------------------------------------------------
SessionNext(s) ==
  \/ CheckActive(s)
  \/ \E cash \in Floats : InsertSession(s, cash)
  \/ \E cash \in -MaxMoved .. MaxMoved : RecordCashMovement(s, cash)
  \/ CloseSession(s)

SaleNext(k) ==
  \/ \E q \in Quantities, method \in Methods :
       \/ \E s \in Sessions, row \in Rows, cents \in Totals :
            Checkout(k, s, row, q, cents, method)
       \/ ProcessReturn(k, q, method)
       \/ RefundOrder(k, q, method)
  \/ CancelSale(k)

\* The other transactions on the balances, for which adjustments by all that one
\* may take stand.
ShopNext ==
  /\ \E row \in Rows, change \in {-MaxQuantity, MaxQuantity} : RecordAdjustment(row, change, FALSE)
  /\ UNCHANGED <<drawerVars, saleVars, returnVars>>

PosNext ==
  \/ \E s \in Sessions : SessionNext(s)
  \/ \E k \in Sales : SaleNext(k)
  \/ ShopNext

PosSpec == PosInit /\ [][PosNext]_tillVars

-----------------------------------------------------------------------------
PosTypeOK ==
  /\ TypeOK
  /\ session      \in [Sessions -> {"NONE", "CHECKED", "OPEN", "CLOSED"}]
  /\ opening      \in [Sessions -> Floats \cup {0}]
  /\ expected     \in [Sessions -> Int]
  /\ moved        \in [Sessions -> -MaxMoved .. MaxMoved]
  /\ sale         \in [Sales -> {"NONE", "Completed", "Refunded", "Cancelled"}]
  /\ saleSession  \in [Sales -> Sessions \cup {NoSession}]
  /\ tender       \in [Sales -> Methods]
  /\ payment      \in [Sales -> {"NONE", "Completed", "Refunded"}]
  /\ saleRow      \in [Sales -> Rows \cup {NoRow}]
  /\ sold         \in [Sales -> 0 .. MaxQuantity]
  /\ total        \in [Sales -> Cents]
  /\ returned     \in [Sales -> 0 .. MaxQuantity]
  /\ refunded     \in [Sales -> Cents]
  /\ cashRefunded \in [Sales -> Cents]
  /\ webRefunded  \in [Sales -> Cents]

\* However requests to open the terminal overlap, it has one open drawer: two
\* sessions cannot both count the cash of one till.
OneOpenSession ==
  \A s, other \in Sessions :
    session[s] = "OPEN" /\ session[other] = "OPEN" => s = other

\* What the drawer of a session holds by its own records: the float, the cash
\* sales rung up in it, what was put in and taken out, and the cash given back.
Drawer(s) ==
  opening[s] + moved[s] + Sum(InCash(SalesOf(s)), total)
    - Sum(SalesOf(s), cashRefunded)

\* While a session is open its running expected cash, which checkouts, cash
\* movements and returns change one by one, is what the records add up to: a
\* sale sent twice counts once, and a return paid by card takes no cash.  It is
\* ahead of them by the cash that the storefront's route paid back for the
\* session's sales, and by nothing else: that route writes the return and its
\* payment but not the drawer (orderService.ts:1248-1282).
DrawerReconciles ==
  \A s \in Sessions :
    session[s] = "OPEN" => expected[s] = Drawer(s) + Sum(SalesOf(s), webRefunded)

\* However many returns a sale is brought back in, at the till or through the
\* storefront's route, and by whichever method they are paid, no more comes back
\* than was sold and no more is paid back than was paid; the payment is Refunded
\* when, and only when, all has come back, and then everything has been paid back
\* to the cent; until then the sale stands.
ReturnsSettleSale ==
  \A k \in Sales :
    /\ returned[k] <= sold[k]
    /\ webRefunded[k] <= cashRefunded[k]
    /\ cashRefunded[k] <= refunded[k]
    /\ refunded[k] <= total[k]
    /\ payment[k] = "Refunded" <=> returned[k] = sold[k] /\ sold[k] > 0
    /\ payment[k] = "Refunded" <=> sale[k] \in {"Refunded", "Cancelled"}
    /\ payment[k] = "Refunded" => refunded[k] = total[k]

\* What the code says of closing: "Expected = opening_cash + cash_sales +
\* cash_in - cash_out - cash_refunds".  It counts the sale out as well as the
\* refund when a cash sale was wholly returned.
CloseCountsTheDrawer ==
  [][\A s \in Sessions :
       session[s] = "OPEN" /\ session'[s] = "CLOSED" => expected'[s] = Drawer(s)]_tillVars
=============================================================================
