---------------------------- MODULE ReservationTx ----------------------------
(***************************************************************************)
(* The transactions of Inventory and of the orders taken apart into their  *)
(* statements.  Sessions (requests of the API and sweeps of the expiry     *)
(* worker, in one server process or several) run them side by side under   *)
(* READ COMMITTED: a statement sees what was committed before it, a row    *)
(* that is read FOR UPDATE or written stays locked until the transaction   *)
(* ends, and a transaction that fails or whose client dies leaves nothing. *)
(*                                                                         *)
(* The variables of Inventory hold what is committed.  That each commit is *)
(* one transaction of Inventory's promise, whatever ran beside it, is the  *)
(* property PromiseSpec.                                                   *)
(***************************************************************************)
EXTENDS Inventory

CONSTANTS
  Sessions,       \* database sessions
  Sweepers,       \* those of them that sweep for stale reservations
  Nobody,         \* the holder of a lock that is free
  NoReservation,
  Orders,         \* orders that wait for payment; their checkout's own lines
                  \* were settled one by one, what they hold is made here
  NoOrder

ASSUME SweepersAssumption == Sweepers \subseteq Sessions
ASSUME NamesAssumption    == /\ Nobody \notin Sessions
                             /\ NoReservation \notin Reservations
                             /\ NoOrder \notin Orders

VARIABLES
  reference,    \* the order a committed reservation refers to
  orderStatus,  \* orders.status
  skewed,       \* history: orders that two sweeps have left to each other
  lock,         \* the session that has a reservation, balance or order locked
  tx            \* the transaction of each session and its next statement

orderVars == <<reference, orderStatus, skewed>>
txVars == <<vars, orderVars, lock, tx>>

-----------------------------------------------------------------------------
SettleOps == {"release", "cancel", "fulfill"}
OrderOps  == {"cancelOrder", "fulfillOrder"}

Outcome(op) ==
  CASE op \in {"release", "cancelOrder"}  -> "RELEASED"
    [] op \in {"fulfill", "fulfillOrder"} -> "FULFILLED"
    [] op = "cancel" -> "CANCELLED"
    [] op = "expire" -> "EXPIRED"

\* What becomes of the order that a transaction closes; with a faulty variant,
\* for TxTypeOK, that writes the status of its reservations.
OutcomeOfLines(op) == Outcome(op)

OrderOutcome(op) == IF op = "fulfillOrder" THEN "Completed" ELSE "Cancelled"

\* A request for a reservation.  All ask for one that expires: one that does
\* not is as one whose expires_at stays ahead.
NoRequest == [row |-> NoRow, amount |-> 0, order |-> NoOrder]

Requests == [row : Rows, amount : Quantities, order : Orders \cup {NoOrder}]

\* A transaction: the reservation it is at, those still to settle and those
\* settled but not committed, the order it locks, and what a creation asks for.
Tx(op, at, now, todo, order, request) ==
  [op |-> op, at |-> at, now |-> now, todo |-> todo, done |-> {},
   order |-> order, request |-> request]

Idle == Tx("none", "start", NoReservation, {}, NoOrder, NoRequest)

ActiveFor(o) == {r \in WithStatus("ACTIVE") : reference[r] = o}

\* FOR UPDATE, UPDATE and the unique index wait for the session that has x.
LockFor(s, x) ==
  /\ lock[x] \in {Nobody, s}
  /\ lock' = [lock EXCEPT ![x] = s]

Unlocked(s) == [x \in DOMAIN lock |-> IF lock[x] = s THEN Nobody ELSE lock[x]]

\* ROLLBACK, and a COMMIT of nothing; with a faulty variant for
\* TransactionsEnd, a failure after which the connection keeps its locks.
LeaveLocked(s) ==
  /\ tx' = [tx EXCEPT ![s] = Idle]
  /\ UNCHANGED <<vars, orderVars, lock>>

Leave(s) ==
  /\ tx'   = [tx EXCEPT ![s] = Idle]
  /\ lock' = Unlocked(s)
  /\ UNCHANGED <<vars, orderVars>>

\* The next reservation of a list, in whatever order the list has; none means
\* that the transaction goes on to the statement `then'.
NextOf(t, todo, then) ==
  IF todo = {} THEN {[t EXCEPT !.todo = {}, !.now = NoReservation, !.at = then]}
  ELSE {[t EXCEPT !.todo = todo, !.now = r, !.at = "reservation"] : r \in todo}

TxInit ==
  /\ Init
  /\ reference   = [r \in Reservations |-> NoOrder]
  /\ orderStatus = [o \in Orders |-> "Stock Reserved"]
  /\ skewed      = {}
  /\ lock        = [x \in Reservations \cup Rows \cup Orders |-> Nobody]
  /\ tx          = [s \in Sessions |-> Idle]

-----------------------------------------------------------------------------
\* BEGIN, with what the request or the sweep's listing names.
Begin(s, t) ==
  /\ tx[s] = Idle
  /\ tx' = [tx EXCEPT ![s] = t]
  /\ UNCHANGED <<vars, orderVars, lock>>

BeginSettle(s) ==
  \E op \in SettleOps, r \in Reservations \ WithStatus("NONE") :
    Begin(s, Tx(op, "reservation", r, {r}, NoOrder, NoRequest))

BeginExpire(s) ==
  /\ s \in Sweepers
  /\ \E r \in WithStatus("ACTIVE") :
       /\ expiry[r] = "past"
       /\ Begin(s, Tx("expire", "reservation", r, {r}, NoOrder, NoRequest))

BeginOrder(s) ==
  /\ tx[s] = Idle
  /\ \E op \in OrderOps, o \in Orders :
       Begin(s, Tx(op, "order", NoReservation, {}, o, NoRequest))

\* createReservation, when its idempotency key is not found.
BeginCreate(s) ==
  \E r \in WithStatus("NONE"), request \in Requests :
    Begin(s, Tx("create", "stock", r, {r}, NoOrder, request))

\* cancelStorefrontOrder and fulfillStorefrontOrder: SELECT the order FOR
\* UPDATE, then list its ACTIVE reservations without locking them.
LockOrder(s) ==
  LET t == tx[s]
      goesOn == IF t.op = "cancelOrder"
                THEN orderStatus[t.order] = "Stock Reserved"
                ELSE orderStatus[t.order] = "Payment Confirmed" /\ ActiveFor(t.order) # {}
  IN  /\ t.at = "order"
      /\ lock[t.order] = Nobody
      /\ \/ /\ goesOn
            /\ LockFor(s, t.order)
            /\ \E u \in NextOf(t, ActiveFor(t.order), "commit") : tx' = [tx EXCEPT ![s] = u]
            /\ UNCHANGED <<vars, orderVars>>
         \/ ~goesOn /\ Leave(s)

\* A faulty variant of the next statement, for PromiseSpec: the reservation is
\* read without FOR UPDATE.
ReadReservation(s) ==
  LET t == tx[s]
  IN  /\ t.at = "reservation"
      /\ status[t.now] = "ACTIVE"
      /\ tx' = [tx EXCEPT ![s].at = "stock"]
      /\ UNCHANGED <<vars, orderVars, lock>>

\* findById with FOR UPDATE, and the test of the status it reads: a reservation
\* that has the outcome already is passed over, another final one is an error.
LockReservation(s) ==
  LET t == tx[s]
  IN  /\ t.at = "reservation"
      /\ lock[t.now] = Nobody
      /\ \/ /\ status[t.now] = "ACTIVE"
            /\ LockFor(s, t.now)
            /\ tx' = [tx EXCEPT ![s].at = "stock"]
            /\ UNCHANGED <<vars, orderVars>>
         \/ /\ status[t.now] = Outcome(t.op)
            /\ LockFor(s, t.now)
            /\ \E u \in NextOf(t, t.todo \ {t.now}, "commit") : tx' = [tx EXCEPT ![s] = u]
            /\ UNCHANGED <<vars, orderVars>>
         \/ status[t.now] \notin {"ACTIVE", Outcome(t.op)} /\ Leave(s)

\* adjustReserved, and for a fulfilment recordMovement: lock the balance, test
\* it less what this transaction took already, and update it.
LockBalance(s) ==
  LET t     == tx[s]
      row   == rowOf[t.now]
      sold  == Outcome(t.op) = "FULFILLED"
      taken == Held(t.done, row)
      after == taken + quantity[t.now]
      accepted ==
        /\ reserved[row] - after \in 0 .. Unquarantined(row) - (IF sold THEN taken ELSE 0)
        /\ sold => MovementAccepted(row, reserved[row] - after, -after, FALSE)
  IN  /\ t.op # "create" /\ t.at = "stock"
      /\ lock[row] \in {Nobody, s}
      /\ \/ /\ accepted
            /\ LockFor(s, row)
            /\ \E u \in NextOf([t EXCEPT !.done = @ \cup {t.now}], t.todo \ {t.now},
                               IF t.op = "expire" THEN "others" ELSE "commit") :
                 tx' = [tx EXCEPT ![s] = u]
            /\ UNCHANGED <<vars, orderVars>>
         \/ ~accepted /\ Leave(s)

\* The order's other ACTIVE reservations are those committed, less the ones that
\* this transaction has marked; with a faulty variant, for
\* SweptOrderIsCancelled, that asks outside the transaction.
NoneCommitted(o, marked) == ActiveFor(o) = {}

NoneLeft(o, marked) == ActiveFor(o) \subseteq marked

\* The reservations marked by sweeps that have listed the others of their order
\* and are about to commit without closing it.
LeftOpen ==
  UNION {tx[s].done : s \in {x \in Sessions : /\ tx[x].op = "expire"
                                               /\ tx[x].at = "commit"
                                               /\ tx[x].order = NoOrder}}

\* The sweep lists them, and goes on to close the order if there are none.  It
\* sees those that another sweep has marked, for that is not committed: when
\* they are all like that, and the other sweep has left the order open because
\* of this one's, the order is left to nobody.
ListOthers(s) ==
  LET t == tx[s]
      o == CHOOSE x \in {reference[r] : r \in t.done} : TRUE
      others == ActiveFor(o) \ t.done
  IN  /\ t.at = "others"
      /\ tx' = [tx EXCEPT ![s] =
                  IF o # NoOrder /\ NoneLeft(o, t.done)
                  THEN [t EXCEPT !.at = "close", !.order = o]
                  ELSE [t EXCEPT !.at = "commit"]]
      /\ skewed' = IF o # NoOrder /\ others # {} /\ others \subseteq LeftOpen
                   THEN skewed \cup {o} ELSE skewed
      /\ UNCHANGED <<vars, reference, orderStatus, lock>>

\* A faulty variant, for PaidOrderKept: the order's status is not tested again
\* by the UPDATE.
CloseAnyOrder(s) ==
  /\ tx[s].at = "close"
  /\ LockFor(s, tx[s].order)
  /\ tx' = [tx EXCEPT ![s].at = "commit"]
  /\ UNCHANGED <<vars, orderVars>>

\* UPDATE orders ... WHERE status = 'Stock Reserved': it waits for the order's
\* lock only if the committed status is that one.
CloseOrder(s) ==
  LET t == tx[s]
  IN  /\ t.at = "close"
      /\ \/ /\ orderStatus[t.order] = "Stock Reserved"
            /\ LockFor(s, t.order)
            /\ tx' = [tx EXCEPT ![s].at = "commit"]
         \/ /\ orderStatus[t.order] # "Stock Reserved"
            /\ tx' = [tx EXCEPT ![s].at = "commit", ![s].order = NoOrder]
            /\ UNCHANGED lock
      /\ UNCHANGED <<vars, orderVars>>

\* createReservation's adjustReserved.
LockForCreate(s) ==
  LET t   == tx[s]
      row == t.request.row
  IN  /\ t.op = "create" /\ t.at = "stock"
      /\ lock[row] = Nobody
      /\ \/ /\ ReservedAccepted(row, t.request.amount)
            /\ LockFor(s, row)
            /\ tx' = [tx EXCEPT ![s].at = "insert"]
            /\ UNCHANGED <<vars, orderVars>>
         \/ ~ReservedAccepted(row, t.request.amount) /\ Leave(s)

\* Its INSERT: the unique index waits for an insert of the same key that is not
\* committed yet, and refuses one that is.  The savepoint then takes back the
\* balance, and the existing reservation is returned.
InsertReservation(s) ==
  LET t == tx[s]
  IN  /\ t.at = "insert"
      /\ \/ /\ status[t.now] = "NONE"
            /\ LockFor(s, t.now)
            /\ tx' = [tx EXCEPT ![s].at = "commit", ![s].done = {t.now}]
            /\ UNCHANGED <<vars, orderVars>>
         \/ status[t.now] # "NONE" /\ Leave(s)

-----------------------------------------------------------------------------
\* COMMIT: what the transaction changed becomes visible, its locks are free.
CommitCreate(s) ==
  LET t == tx[s]
      q == t.request
  IN  /\ t.op = "create" /\ t.at = "commit"
      /\ reserved' = [reserved EXCEPT ![q.row] = @ + q.amount]
      /\ status'    = [status EXCEPT ![t.now] = "ACTIVE"]
      /\ rowOf'     = [rowOf EXCEPT ![t.now] = q.row]
      /\ quantity'  = [quantity EXCEPT ![t.now] = q.amount]
      /\ expiry'    = [expiry EXCEPT ![t.now] = "ahead"]
      /\ reference' = [reference EXCEPT ![t.now] = q.order]
      /\ UNCHANGED <<onHand, damaged, expired, ledgerVars, overridden,
                     orderStatus, skewed>>

CommitSettle(s) ==
  LET t == tx[s]
  IN  /\ t.op # "create" /\ t.at = "commit"
      /\ IF Outcome(t.op) = "FULFILLED" THEN Sell(t.done)
                                        ELSE Unreserve(t.done, Outcome(t.op))
      /\ orderStatus' =
           [o \in Orders |-> IF o = t.order THEN OrderOutcome(t.op) ELSE orderStatus[o]]
      /\ UNCHANGED <<reference, skewed>>

Commit(s) ==
  /\ CommitCreate(s) \/ CommitSettle(s)
  /\ tx'   = [tx EXCEPT ![s] = Idle]
  /\ lock' = Unlocked(s)

\* What a session's next statement needs locked, if anything.
Wanted(s) ==
  LET t == tx[s]
  IN  CASE t.at = "order" -> {t.order}
        [] t.at = "reservation" -> {t.now}
        [] t.at = "stock" -> {IF t.op = "create" THEN t.request.row ELSE rowOf[t.now]}
        [] t.at = "insert" /\ status[t.now] = "NONE" -> {t.now}
        [] t.at = "close" /\ orderStatus[t.order] = "Stock Reserved" -> {t.order}
        [] OTHER -> {}

WaitsFor(s, other) == s # other /\ \E x \in Wanted(s) : lock[x] = other

\* The database ends one transaction of a cycle of waiting ones.
DeadlockVictim(s) ==
  /\ \E C \in SUBSET Sessions :
       s \in C /\ \A x \in C : \E y \in C : WaitsFor(x, y)
  /\ Leave(s)

\* The process dies or its connection is lost, whatever it was doing.
Crash(s) ==
  /\ tx[s] # Idle
  /\ Leave(s)

Statement(s) ==
  \/ LockOrder(s) \/ LockReservation(s) \/ LockBalance(s)
  \/ ListOthers(s) \/ CloseOrder(s)
  \/ LockForCreate(s) \/ InsertReservation(s)
  \/ Commit(s) \/ DeadlockVictim(s)

\* Transactions of one statement that matters: the payment confirmation, the
\* merchant's adjustments (for all the operations on one balance: they are the
\* ones that can make a transaction's later statement fail), and the clock.
ConfirmPayment(o) ==
  /\ lock[o] = Nobody
  /\ orderStatus[o] = "Stock Reserved"
  /\ orderStatus' = [orderStatus EXCEPT ![o] = "Payment Confirmed"]
  /\ UNCHANGED <<vars, reference, skewed, lock, tx>>

AdjustStock(row) ==
  /\ lock[row] = Nobody
  /\ \E change \in -MaxQuantity .. MaxQuantity, allow \in BOOLEAN :
       RecordAdjustment(row, change, allow)
  /\ UNCHANGED <<orderVars, lock, tx>>

OneStatement ==
  \/ \E o \in Orders : ConfirmPayment(o)
  \/ \E row \in Rows : AdjustStock(row)
  \/ \E r \in Reservations : ExpiryPasses(r) /\ UNCHANGED <<orderVars, lock, tx>>

TxNext ==
  \/ OneStatement
  \/ \E s \in Sessions :
       \/ BeginSettle(s) \/ BeginExpire(s) \/ BeginOrder(s) \/ BeginCreate(s)
       \/ Statement(s)
       \/ Crash(s)

TxSpec == TxInit /\ [][TxNext]_txVars

\* A statement whose lock keeps becoming free gets it in its turn, since the
\* database queues those that wait for it.
FairTxSpec == TxSpec /\ \A s \in Sessions : SF_txVars(Statement(s))

-----------------------------------------------------------------------------
Transactions ==
  [op    : SettleOps \cup OrderOps \cup {"none", "create", "expire"},
   at    : {"start", "order", "reservation", "stock", "others", "close", "insert", "commit"},
   now   : Reservations \cup {NoReservation},
   todo  : SUBSET Reservations,
   done  : SUBSET Reservations,
   order : Orders \cup {NoOrder},
   request : Requests \cup {NoRequest}]

TxTypeOK ==
  /\ reference   \in [Reservations -> Orders \cup {NoOrder}]
  /\ orderStatus \in [Orders -> {"Stock Reserved", "Payment Confirmed", "Completed",
                                 "Cancelled"}]
  /\ skewed \subseteq Orders
  /\ lock \in [Reservations \cup Rows \cup Orders -> Sessions \cup {Nobody}]
  /\ tx   \in [Sessions -> Transactions]

\* A customer's payment that is confirmed while a sweep expires the order's
\* last reservation is not answered with a cancelled order: the sweep's UPDATE
\* tests the status it finds when it gets the lock.
PaidOrderKept ==
  [][\A o \in Orders :
       orderStatus[o] = "Payment Confirmed" => orderStatus'[o] # "Cancelled"]_txVars

\* An order whose every reservation has expired does not go on waiting for a
\* payment, however many sweeps overlap: one of them cancels it, unless two have
\* seen each other's mark on its last reservations as not there yet.
SweptOrderIsCancelled ==
  \A o \in Orders \ skewed :
    LET held == {r \in Reservations : reference[r] = o}
    IN  orderStatus[o] = "Stock Reserved" /\ held # {} => ~(held \subseteq WithStatus("EXPIRED"))

\* An order whose every reservation has expired does not go on waiting for a
\* payment: the sweep that expires the last one cancels it.
ExpiredOrderIsCancelled ==
  \A o \in Orders :
    LET held == {r \in Reservations : reference[r] = o}
    IN  orderStatus[o] = "Stock Reserved" /\ held # {} => ~(held \subseteq WithStatus("EXPIRED"))

\* Every transaction ends, although those of an order and of the sweep lock
\* the order and its reservations in opposite orders, and sessions die.
TransactionsEnd ==
  \A s \in Sessions : tx[s] # Idle ~> tx[s] = Idle
=============================================================================
