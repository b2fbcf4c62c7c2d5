-------------------------- MODULE ReservationTxProofs --------------------------
(***************************************************************************)
(* Proofs about ReservationTx for any sessions, sweepers, rows, orders and *)
(* quantities and any finite set of reservations: whatever statements run  *)
(* side by side, each commit is one transaction of the stock's promise.    *)
(***************************************************************************)
EXTENDS ReservationTx, InventoryProofs

-----------------------------------------------------------------------------
(* The inductive invariant: what a session t that has got so far may rely  *)
(* on, whatever the others commit.  It is the locks that keep it true.     *)

Lockable == Reservations \cup Rows \cup Orders

\* Where a transaction of each kind may be, and what it then has.
Phases(s, t) ==
  /\ t.at = "start" <=> t.op = "none"
  /\ t.at = "order" => t.op \in OrderOps /\ t.done = {}
  /\ t.at = "insert" => t.op = "create"
  /\ t.at = "reservation" => t.op # "create"
  /\ t.at \in {"others", "close"} => t.op = "expire" /\ t.done # {}
  /\ t.at = "close" => t.order \in Orders
  /\ t.op = "create" => t.now \in Reservations /\ t.request \in Requests
  /\ t.op # "create" => t.todo \cap t.done = {}
  /\ t.op # "create" /\ t.at \in {"reservation", "stock"} => t.now \in t.todo
  /\ t.op \in OrderOps => t.order \in Orders
  /\ t.order \in Orders =>
       t.op \in OrderOps \/ (t.op = "expire" /\ t.at \in {"close", "commit"})
  /\ t.op = "expire" => s \in Sweepers /\ \A r, x \in t.todo \cup t.done : r = x

\* What Fulfill and GiveBack will ask of the balances when D is committed.
SaleAccepted(D) ==
  \A row \in RowsOf(D) :
    /\ ReservedAccepted(row, -Held(D, row))
    /\ MovementAccepted(row, reserved[row] - Held(D, row), -Held(D, row), FALSE)

ReturnAccepted(D) ==
  \A row \in RowsOf(D) :
    \E r \in D : rowOf[r] = row /\ ReservedAccepted(row, -quantity[r])

\* A transaction has locked the reservations that it settles and their balances,
\* and they accept it.
Settles(s, t) ==
  t.op # "create" =>
    /\ \A r \in t.todo : status[r] # "NONE"
    /\ \A r \in t.done : status[r] = "ACTIVE" /\ lock[r] = s /\ lock[rowOf[r]] = s
    /\ t.at = "stock" => status[t.now] = "ACTIVE" /\ lock[t.now] = s
    /\ IF Outcome(t.op) = "FULFILLED" THEN SaleAccepted(t.done) ELSE ReturnAccepted(t.done)

\* A creation has locked the balance, which accepts it, and then its key.
Makes(s, t) ==
  t.op = "create" =>
    /\ t.at \in {"insert", "commit"} =>
         lock[t.request.row] = s /\ ReservedAccepted(t.request.row, t.request.amount)
    /\ t.at = "commit" => status[t.now] = "NONE" /\ lock[t.now] = s

\* An order that is going to be closed is locked, and was in the status that
\* closing it asks for.
Closes(s, t) ==
  t.order \in Orders /\ t.at \notin {"order", "close"} =>
    /\ lock[t.order] = s
    /\ orderStatus[t.order] =
         IF t.op = "fulfillOrder" THEN "Payment Confirmed" ELSE "Stock Reserved"

SessionOK(s, t) == Phases(s, t) /\ Settles(s, t) /\ Makes(s, t) /\ Closes(s, t)

\* A reservation that was made is of a row, one that was not is of no order.
MadeKnown ==
  \A r \in Reservations :
    /\ status[r] # "NONE" => rowOf[r] \in Rows
    /\ status[r] = "NONE" => reference[r] = NoOrder

TxInvariant ==
  /\ StockInvariant /\ TxTypeOK /\ MadeKnown
  /\ \A s \in Sessions : SessionOK(s, tx[s])

-----------------------------------------------------------------------------
(* What a session may rely on is left alone.                               *)

\* A step that changes nothing which session s has locked, and nothing of any
\* reservation's row and quantity once it was made.
Spares(s) ==
  /\ \A x \in Lockable : lock[x] = s => lock'[x] = s
  /\ \A r \in Reservations : lock[r] = s => status'[r] = status[r]
  /\ \A r \in Reservations :
       status[r] # "NONE" =>
         status'[r] # "NONE" /\ rowOf'[r] = rowOf[r] /\ quantity'[r] = quantity[r]
  /\ \A row \in Rows :
       lock[row] = s => /\ onHand'[row] = onHand[row] /\ reserved'[row] = reserved[row]
                        /\ damaged'[row] = damaged[row] /\ expired'[row] = expired[row]
  /\ \A o \in Orders : lock[o] = s => orderStatus'[o] = orderStatus[o]

\* Balances that do not change go on accepting what they accepted.
LEMMA AcceptanceKept ==
  ASSUME NEW D,
         \A r \in D : rowOf'[r] = rowOf[r] /\ quantity'[r] = quantity[r],
         \A r \in D :
           /\ onHand'[rowOf[r]] = onHand[rowOf[r]]
           /\ reserved'[rowOf[r]] = reserved[rowOf[r]]
           /\ damaged'[rowOf[r]] = damaged[rowOf[r]]
           /\ expired'[rowOf[r]] = expired[rowOf[r]]
  PROVE  /\ SaleAccepted(D) => SaleAccepted(D)'
         /\ ReturnAccepted(D) => ReturnAccepted(D)'
<1>1. RowsOf(D)' = RowsOf(D)
  BY DEF RowsOf
<1>2. ASSUME NEW row PROVE Held(D, row)' = Held(D, row)
  <2>1. Held(D, row)' = Total(D, rowOf', quantity', row)
    BY DEF Held, Total, Units
  <2>2. Total(D, rowOf', quantity', row) = Total(D, rowOf, quantity, row)
    BY TotalAgrees
  <2>3. QED
    BY <2>1, <2>2 DEF Held
<1>3. \A row \in RowsOf(D) :
        /\ onHand'[row] = onHand[row] /\ reserved'[row] = reserved[row]
        /\ damaged'[row] = damaged[row] /\ expired'[row] = expired[row]
  BY DEF RowsOf
<1>4. ASSUME NEW row \in RowsOf(D), NEW change
      PROVE  ReservedAccepted(row, change)' = ReservedAccepted(row, change)
  BY <1>3 DEF ReservedAccepted, Unquarantined
<1>5. ASSUME NEW row \in RowsOf(D), NEW held, NEW change
      PROVE  MovementAccepted(row, held, change, FALSE)' = MovementAccepted(row, held, change, FALSE)
  BY <1>3 DEF MovementAccepted, Unquarantined
<1>6. SaleAccepted(D) => SaleAccepted(D)'
  BY <1>1, <1>2, <1>3, <1>4, <1>5 DEF SaleAccepted
<1>7. ReturnAccepted(D) => ReturnAccepted(D)'
  BY <1>1, <1>4 DEF ReturnAccepted
<1>8. QED
  BY <1>6, <1>7

\* What a transaction relies on survives a step that spares its session.
LEMMA Undisturbed ==
  ASSUME TxTypeOK, MadeKnown, NEW s \in Sessions, NEW t \in Transactions,
         SessionOK(s, t), Spares(s)
  PROVE  SessionOK(s, t)'
<1>1. /\ t.todo \in SUBSET Reservations /\ t.done \in SUBSET Reservations
      /\ t.order \in Orders \cup {NoOrder}
  BY DEF Transactions
<1>2. Phases(s, t)' /\ Phases(s, t)
  BY DEF SessionOK, Phases
<1>3. Settles(s, t)'
  <2> SUFFICES ASSUME t.op # "create" PROVE Settles(s, t)'
    BY DEF Settles
  <2>1. /\ \A r \in t.todo : status[r] # "NONE"
        /\ \A r \in t.done : status[r] = "ACTIVE" /\ lock[r] = s /\ lock[rowOf[r]] = s
        /\ t.at = "stock" => status[t.now] = "ACTIVE" /\ lock[t.now] = s
        /\ IF Outcome(t.op) = "FULFILLED" THEN SaleAccepted(t.done) ELSE ReturnAccepted(t.done)
    BY DEF SessionOK, Settles
  <2>2. \A r \in t.todo : status'[r] # "NONE"
    BY <1>1, <2>1 DEF Spares
  <2>3. \A r \in t.done :
          /\ rowOf'[r] = rowOf[r] /\ quantity'[r] = quantity[r] /\ rowOf[r] \in Rows
          /\ status'[r] = "ACTIVE"
    BY <1>1, <2>1 DEF Spares, MadeKnown
  <2>4. \A r \in t.done : lock'[r] = s /\ lock'[rowOf'[r]] = s
    BY <1>1, <2>1, <2>3 DEF Spares, Lockable
  <2>5. t.at = "stock" => status'[t.now] = "ACTIVE" /\ lock'[t.now] = s
    <3>1. t.at = "stock" => t.now \in Reservations
      BY <1>1, <1>2 DEF Phases
    <3>2. QED
      BY <2>1, <3>1 DEF Spares, Lockable
  <2>6. \A r \in t.done :
          /\ onHand'[rowOf[r]] = onHand[rowOf[r]]
          /\ reserved'[rowOf[r]] = reserved[rowOf[r]]
          /\ damaged'[rowOf[r]] = damaged[rowOf[r]]
          /\ expired'[rowOf[r]] = expired[rowOf[r]]
    BY <2>1, <2>3 DEF Spares
  <2>7. /\ SaleAccepted(t.done) => SaleAccepted(t.done)'
        /\ ReturnAccepted(t.done) => ReturnAccepted(t.done)'
    BY <2>3, <2>6, AcceptanceKept
  <2>8. QED
    BY <2>1, <2>2, <2>3, <2>4, <2>5, <2>7 DEF Settles
<1>4. Makes(s, t)'
  <2> SUFFICES ASSUME t.op = "create" PROVE Makes(s, t)'
    BY DEF Makes
  <2>1. t.now \in Reservations /\ t.request.row \in Rows
    BY <1>2 DEF Phases, Requests
  <2>2. Makes(s, t)
    BY DEF SessionOK
  <2>3. ASSUME lock[t.request.row] = s, NEW change
        PROVE  ReservedAccepted(t.request.row, change)' = ReservedAccepted(t.request.row, change)
    BY <2>1, <2>3 DEF Spares, ReservedAccepted, Unquarantined
  <2>4. QED
    BY <2>1, <2>2, <2>3 DEF Makes, Spares, Lockable
<1>5. Closes(s, t)'
  BY DEF SessionOK, Closes, Spares, Lockable
<1>6. QED
  BY <1>2, <1>3, <1>4, <1>5 DEF SessionOK

\* A session that is idle relies on nothing.
LEMMA IdleRelies ==
  ASSUME NEW s
  PROVE  Idle \in Transactions /\ SessionOK(s, Idle) /\ SessionOK(s, Idle)'
<1>1. /\ Idle.op = "none" /\ Idle.at = "start" /\ Idle.todo = {} /\ Idle.done = {}
      /\ Idle.order = NoOrder
  BY DEF Idle, Tx
<1>2. Idle \in Transactions
  BY DEF Idle, Tx, Transactions
<1>3. Phases(s, Idle)
  BY <1>1, NamesAssumption DEF Phases, OrderOps
<1>4. RowsOf({}) = {}
  BY DEF RowsOf
<1>5. Settles(s, Idle)
  BY <1>1, <1>4 DEF Settles, SaleAccepted, ReturnAccepted
<1>6. Makes(s, Idle) /\ Closes(s, Idle)
  BY <1>1, NamesAssumption DEF Makes, Closes
<1>7. Phases(s, Idle)'
  BY <1>3 DEF Phases
<1>8. Settles(s, Idle)'
  BY <1>1 DEF Settles, SaleAccepted, ReturnAccepted, RowsOf
<1>9. Makes(s, Idle)' /\ Closes(s, Idle)'
  BY <1>1, NamesAssumption DEF Makes, Closes
<1>10. QED
  BY <1>2, <1>3, <1>5, <1>6, <1>7, <1>8, <1>9 DEF SessionOK

-----------------------------------------------------------------------------
(* The statements.                                                         *)

\* An order's status takes only these steps: in particular a payment that was
\* confirmed is not answered with a cancelled order.
MovesForward ==
  \A o \in Orders :
    \/ orderStatus'[o] = orderStatus[o]
    \/ /\ orderStatus[o] = "Stock Reserved"
       /\ orderStatus'[o] \in {"Payment Confirmed", "Cancelled"}
    \/ orderStatus[o] = "Payment Confirmed" /\ orderStatus'[o] = "Completed"

\* What is true of every step.
Sound == TxInvariant' /\ [PromiseNext]_vars /\ MovesForward

\* The locks that others hold stay theirs.
KeepsLocks(s) ==
  /\ lock' \in [Lockable -> Sessions \cup {Nobody}]
  /\ \A x \in Lockable : lock[x] # s /\ lock[x] # Nobody => lock'[x] = lock[x]

\* Taking a lock, and giving up all that one has.
LEMMA LockingKeeps ==
  ASSUME TxTypeOK, NEW s \in Sessions
  PROVE  /\ \A x \in Lockable : LockFor(s, x) => KeepsLocks(s) /\ lock'[x] = s
         /\ \A x \in Lockable : LockFor(s, x) => \A y \in Lockable : lock[y] = s => lock'[y] = s
         /\ lock' = Unlocked(s) => KeepsLocks(s)
         /\ lock' = lock => KeepsLocks(s)
<1>1. lock \in [Lockable -> Sessions \cup {Nobody}]
  BY DEF TxTypeOK, Lockable
<1>2. ASSUME NEW x \in Lockable, LockFor(s, x)
      PROVE  /\ KeepsLocks(s) /\ lock'[x] = s
             /\ \A y \in Lockable : lock[y] = s => lock'[y] = s
  BY <1>1, <1>2 DEF LockFor, KeepsLocks
<1>3. lock' = Unlocked(s) => KeepsLocks(s)
  BY <1>1 DEF Unlocked, KeepsLocks
<1>4. lock' = lock => KeepsLocks(s)
  BY <1>1 DEF KeepsLocks
<1>5. QED
  BY <1>2, <1>3, <1>4

\* What a statement leaves alone when it commits nothing.
CommitsNothing ==
  UNCHANGED <<vars, reference, orderStatus>> /\ skewed' \subseteq Orders

LEMMA NothingCommits ==
  ASSUME TxTypeOK, UNCHANGED <<vars, orderVars>>
  PROVE  CommitsNothing
BY DEF CommitsNothing, orderVars, TxTypeOK

\* A session whose balances, reservations and orders did not change and whose
\* locks did not go still has what it relied on.
LEMMA QuietHas ==
  ASSUME TxInvariant, NEW s \in Sessions, NEW t, t = tx[s], CommitsNothing,
         \A x \in Lockable : lock[x] = s => lock'[x] = s
  PROVE  t \in Transactions /\ SessionOK(s, t)'
<1>1. Spares(s)
  BY DEF Spares, CommitsNothing, vars, balanceVars, holdVars
<1>2. t \in Transactions /\ SessionOK(s, t) /\ TxTypeOK /\ MadeKnown
  BY DEF TxInvariant, TxTypeOK
<1>3. QED
  BY <1>1, <1>2, Undisturbed

LEMMA StillHas ==
  ASSUME TxInvariant, NEW s \in Sessions, NEW t, t = tx[s], UNCHANGED <<vars, orderVars>>,
         \A x \in Lockable : lock[x] = s => lock'[x] = s
  PROVE  t \in Transactions /\ SessionOK(s, t)'
<1>1. CommitsNothing
  BY NothingCommits DEF TxInvariant
<1>2. QED
  BY <1>1, QuietHas

\* A statement that commits nothing is sound if the session has what it relies
\* on next.
LEMMA QuietIsSound ==
  ASSUME TxInvariant, NEW s \in Sessions, NEW u \in Transactions,
         tx' = [tx EXCEPT ![s] = u], CommitsNothing, KeepsLocks(s), SessionOK(s, u)'
  PROVE  Sound
<1>1. TxTypeOK /\ MadeKnown /\ StockInvariant
  BY DEF TxInvariant
<1>2. UNCHANGED <<vars, reference, orderStatus>> /\ skewed' \subseteq Orders
  BY DEF CommitsNothing
<1>3. StockInvariant'
  BY <1>1, <1>2, StutterStep
<1>4. TxTypeOK'
  BY <1>1, <1>2 DEF TxTypeOK, KeepsLocks, Lockable
<1>5. MadeKnown'
  BY <1>1, <1>2 DEF MadeKnown, vars, holdVars
<1>6. ASSUME NEW x \in Sessions PROVE SessionOK(x, tx[x])'
  <2>1. CASE x = s
    <3>1. tx'[x] = u
      BY <1>1, <2>1 DEF TxTypeOK
    <3>2. QED
      BY <2>1, <3>1
  <2>2. CASE x # s
    <3>1. tx'[x] = tx[x]
      BY <1>1, <2>2 DEF TxTypeOK
    <3>2. \A y \in Lockable : lock[y] = x => lock'[y] = x
      BY <2>2, NamesAssumption DEF KeepsLocks
    <3>3. QED
      BY <3>1, <3>2, QuietHas
  <2>3. QED
    BY <2>1, <2>2
<1>7. MovesForward
  BY <1>2 DEF MovesForward
<1>8. QED
  BY <1>2, <1>3, <1>4, <1>5, <1>6, <1>7 DEF TxInvariant, Sound

LEMMA StatementIsSound ==
  ASSUME TxInvariant, NEW s \in Sessions, NEW u \in Transactions,
         tx' = [tx EXCEPT ![s] = u], UNCHANGED <<vars, orderVars>>, KeepsLocks(s),
         SessionOK(s, u)'
  PROVE  Sound
<1>1. TxTypeOK
  BY DEF TxInvariant
<1>2. CommitsNothing
  BY <1>1, NothingCommits
<1>3. QED
  BY <1>2, QuietIsSound

\* ROLLBACK
LEMMA LeaveIsSound ==
  ASSUME TxInvariant, NEW s \in Sessions, Leave(s)
  PROVE  Sound
<1>1. tx' = [tx EXCEPT ![s] = Idle] /\ lock' = Unlocked(s) /\ UNCHANGED <<vars, orderVars>>
  BY DEF Leave
<1>2. KeepsLocks(s)
  BY <1>1, LockingKeeps DEF TxInvariant
<1>3. QED
  BY <1>1, <1>2, IdleRelies, StatementIsSound

\* BEGIN
LEMMA BeginIsSound ==
  ASSUME TxInvariant, NEW s \in Sessions, NEW t \in Transactions, Begin(s, t), SessionOK(s, t)
  PROVE  Sound
<1>1. tx' = [tx EXCEPT ![s] = t] /\ UNCHANGED <<vars, orderVars>> /\ lock' = lock
  BY DEF Begin
<1>2. KeepsLocks(s) /\ TxTypeOK /\ MadeKnown
  BY <1>1, LockingKeeps DEF TxInvariant
<1>3. Spares(s)
  BY <1>1 DEF Spares, vars, balanceVars, holdVars, orderVars
<1>4. SessionOK(s, t)'
  BY <1>2, <1>3, Undisturbed
<1>5. QED
  BY <1>1, <1>2, <1>4, StatementIsSound

LEMMA BeginsAreSound ==
  ASSUME TxInvariant, NEW s \in Sessions,
         BeginSettle(s) \/ BeginExpire(s) \/ BeginOrder(s) \/ BeginCreate(s)
  PROVE  Sound
<1>1. RowsOf({}) = {}
  BY DEF RowsOf
<1>2. SaleAccepted({}) /\ ReturnAccepted({})
  BY <1>1 DEF SaleAccepted, ReturnAccepted
<1>3. CASE BeginSettle(s)
  <2>1. PICK op \in SettleOps, r \in Reservations \ WithStatus("NONE") :
          Begin(s, Tx(op, "reservation", r, {r}, NoOrder, NoRequest))
    BY <1>3 DEF BeginSettle
  <2> DEFINE t == Tx(op, "reservation", r, {r}, NoOrder, NoRequest)
  <2>2. /\ t.op = op /\ t.at = "reservation" /\ t.now = r /\ t.todo = {r} /\ t.done = {}
        /\ t.order = NoOrder /\ t \in Transactions
    BY DEF Tx, Transactions
  <2>3. op \in {"release", "cancel", "fulfill"} /\ status[r] # "NONE"
    BY DEF SettleOps, WithStatus
  <2>4. SessionOK(s, t)
    BY <1>2, <2>2, <2>3, NamesAssumption DEF SessionOK, Phases, Settles, Makes, Closes, OrderOps
  <2> HIDE DEF t
  <2>5. QED
    BY <2>1, <2>2, <2>4, BeginIsSound DEF t
<1>4. CASE BeginExpire(s)
  <2>1. PICK r \in WithStatus("ACTIVE") :
          Begin(s, Tx("expire", "reservation", r, {r}, NoOrder, NoRequest))
    BY <1>4 DEF BeginExpire
  <2> DEFINE t == Tx("expire", "reservation", r, {r}, NoOrder, NoRequest)
  <2>2. /\ t.op = "expire" /\ t.at = "reservation" /\ t.now = r /\ t.todo = {r} /\ t.done = {}
        /\ t.order = NoOrder /\ t \in Transactions
    BY DEF Tx, Transactions, WithStatus
  <2>3. s \in Sweepers /\ status[r] # "NONE"
    BY <1>4 DEF BeginExpire, WithStatus
  <2>4. SessionOK(s, t)
    BY <1>2, <2>2, <2>3, NamesAssumption DEF SessionOK, Phases, Settles, Makes, Closes, OrderOps
  <2> HIDE DEF t
  <2>5. QED
    BY <2>1, <2>2, <2>4, BeginIsSound DEF t
<1>5. CASE BeginOrder(s)
  <2>1. PICK op \in OrderOps, o \in Orders :
          Begin(s, Tx(op, "order", NoReservation, {}, o, NoRequest))
    BY <1>5 DEF BeginOrder
  <2> DEFINE t == Tx(op, "order", NoReservation, {}, o, NoRequest)
  <2>2. /\ t.op = op /\ t.at = "order" /\ t.todo = {} /\ t.done = {} /\ t.order = o
        /\ t \in Transactions
    BY DEF Tx, Transactions
  <2>3. op \in {"cancelOrder", "fulfillOrder"}
    BY DEF OrderOps
  <2>4. SessionOK(s, t)
    BY <1>2, <2>2, <2>3 DEF SessionOK, Phases, Settles, Makes, Closes, OrderOps
  <2> HIDE DEF t
  <2>5. QED
    BY <2>1, <2>2, <2>4, BeginIsSound DEF t
<1>6. CASE BeginCreate(s)
  <2>1. PICK r \in WithStatus("NONE"), request \in Requests :
          Begin(s, Tx("create", "stock", r, {r}, NoOrder, request))
    BY <1>6 DEF BeginCreate
  <2> DEFINE t == Tx("create", "stock", r, {r}, NoOrder, request)
  <2>2. /\ t.op = "create" /\ t.at = "stock" /\ t.now = r /\ t.order = NoOrder
        /\ t.request = request /\ r \in Reservations /\ t \in Transactions
    BY DEF Tx, Transactions, WithStatus
  <2>3. SessionOK(s, t)
    BY <1>2, <2>2, NamesAssumption DEF SessionOK, Phases, Settles, Makes, Closes, OrderOps
  <2> HIDE DEF t
  <2>4. QED
    BY <2>1, <2>2, <2>3, BeginIsSound DEF t
<1>7. QED
  BY <1>3, <1>4, <1>5, <1>6

\* What a transaction has when it goes on to the next of the reservations todo,
\* or to the statement `then' if there is none.
GoesOn(s, t, todo, then) ==
  /\ t.op \in SettleOps \cup OrderOps \cup {"expire"}
  /\ t.op \in OrderOps <=> t.order \in Orders
  /\ t.op = "expire" => s \in Sweepers /\ \A r, x \in todo \cup t.done : r = x
  /\ then = "commit" \/ (then = "others" /\ t.op = "expire" /\ t.done # {})
  /\ todo \in SUBSET Reservations /\ todo \cap t.done = {}
  /\ \A r \in todo : status[r] # "NONE"
  /\ \A r \in t.done : status[r] = "ACTIVE" /\ lock[r] = s /\ lock[rowOf[r]] = s
  /\ IF Outcome(t.op) = "FULFILLED" THEN SaleAccepted(t.done) ELSE ReturnAccepted(t.done)
  /\ t.order \in Orders =>
       /\ lock[t.order] = s
       /\ orderStatus[t.order] =
            IF t.op = "fulfillOrder" THEN "Payment Confirmed" ELSE "Stock Reserved"

LEMMA NextIsOK ==
  ASSUME NEW s, NEW t \in Transactions, NEW todo, NEW then, NEW u \in NextOf(t, todo, then),
         GoesOn(s, t, todo, then)'
  PROVE  u \in Transactions /\ SessionOK(s, u)'
<1>1. t.op \in {"release", "cancel", "fulfill", "cancelOrder", "fulfillOrder", "expire"}
  BY DEF GoesOn, SettleOps, OrderOps
<1>2. then \in {"commit", "others"} /\ todo \in SUBSET Reservations
  BY DEF GoesOn
<1>3. /\ u.op = t.op /\ u.todo = todo /\ u.done = t.done /\ u.order = t.order
      /\ \/ todo = {} /\ u.at = then
         \/ u.at = "reservation" /\ u.now \in todo
      /\ u \in Transactions
  <2>1. CASE todo = {}
    <3>1. u = [t EXCEPT !.todo = {}, !.now = NoReservation, !.at = then]
      BY <2>1 DEF NextOf
    <3>2. QED
      BY <1>2, <2>1, <3>1 DEF Transactions
  <2>2. CASE todo # {}
    <3>1. PICK r \in todo : u = [t EXCEPT !.todo = todo, !.now = r, !.at = "reservation"]
      BY <2>2 DEF NextOf
    <3>2. QED
      BY <1>2, <3>1 DEF Transactions
  <2>3. QED
    BY <2>1, <2>2
<1>4. Phases(s, u)'
  BY <1>1, <1>2, <1>3 DEF GoesOn, Phases, OrderOps
<1>5. Settles(s, u)'
  BY <1>2, <1>3 DEF GoesOn, Settles
<1>6. Makes(s, u)' /\ Closes(s, u)'
  BY <1>1, <1>3 DEF GoesOn, Makes, Closes
<1>7. QED
  BY <1>3, <1>4, <1>5, <1>6 DEF SessionOK

\* SELECT the order FOR UPDATE.
LEMMA LockOrderIsSound ==
  ASSUME TxInvariant, NEW s \in Sessions, LockOrder(s)
  PROVE  Sound
<1>1. PICK t : t = tx[s]
  OBVIOUS
<1>2. t \in Transactions /\ SessionOK(s, t) /\ TxTypeOK
  BY <1>1 DEF TxInvariant, TxTypeOK
<1>3. /\ t.op \in OrderOps /\ t.done = {} /\ t.order \in Orders
  BY <1>1, <1>2 DEF LockOrder, SessionOK, Phases
<1>4. CASE Leave(s)
  BY <1>4, LeaveIsSound
<1>5. ASSUME IF t.op = "cancelOrder"
             THEN orderStatus[t.order] = "Stock Reserved"
             ELSE orderStatus[t.order] = "Payment Confirmed" /\ ActiveFor(t.order) # {},
             LockFor(s, t.order),
             NEW u \in NextOf(t, ActiveFor(t.order), "commit"), tx' = [tx EXCEPT ![s] = u],
             UNCHANGED <<vars, orderVars>>
      PROVE  Sound
  <2>1. KeepsLocks(s) /\ lock'[t.order] = s
    BY <1>2, <1>3, <1>5, LockingKeeps DEF Lockable
  <2>2. GoesOn(s, t, ActiveFor(t.order), "commit")'
    <3>1. UNCHANGED <<status, rowOf, orderStatus, reference>>
      BY <1>5 DEF vars, holdVars, orderVars
    <3>2. ActiveFor(t.order)' = ActiveFor(t.order)
      BY <3>1 DEF ActiveFor, WithStatus
    <3>3. /\ ActiveFor(t.order) \in SUBSET Reservations
          /\ \A r \in ActiveFor(t.order) : status[r] # "NONE"
      BY DEF ActiveFor, WithStatus
    <3>4. SaleAccepted({})' /\ ReturnAccepted({})'
      BY DEF SaleAccepted, ReturnAccepted, RowsOf
    <3>5. t.op # "expire" /\ t.op \in SettleOps \cup OrderOps \cup {"expire"}
      BY <1>3 DEF OrderOps
    <3>6. orderStatus[t.order] =
            IF t.op = "fulfillOrder" THEN "Payment Confirmed" ELSE "Stock Reserved"
      BY <1>3, <1>5 DEF OrderOps
    <3> HIDE DEF OrderOps, SettleOps
    <3>7. QED
      BY <1>3, <2>1, <3>1, <3>2, <3>3, <3>4, <3>5, <3>6 DEF GoesOn
  <2>3. ActiveFor(t.order)' = ActiveFor(t.order)
    BY <1>5 DEF ActiveFor, WithStatus, vars, orderVars
  <2>4. u \in Transactions /\ SessionOK(s, u)'
    BY <1>2, <1>5, <2>2, <2>3, NextIsOK
  <2>5. QED
    BY <1>5, <2>1, <2>4, StatementIsSound
<1>6. QED
  BY <1>1, <1>4, <1>5 DEF LockOrder

\* What a session that settles something has, for NextIsOK.
LEMMA SettlingHas ==
  ASSUME TxInvariant, NEW s \in Sessions, NEW t, t = tx[s], UNCHANGED <<vars, orderVars>>,
         \A x \in Lockable : lock[x] = s => lock'[x] = s,
         t.at \in {"reservation", "stock"}, t.op # "create"
  PROVE  /\ t \in Transactions /\ t.now \in t.todo /\ t.now \in Reservations
         /\ GoesOn(s, t, t.todo \ {t.now}, "commit")'
<1>1. t \in Transactions /\ SessionOK(s, t)' /\ SessionOK(s, t)
  BY StillHas DEF TxInvariant
<1>2. Phases(s, t) /\ Settles(s, t)' /\ Closes(s, t)'
  BY <1>1 DEF SessionOK
<1>3. /\ t.now \in t.todo /\ t.todo \in SUBSET Reservations /\ t.done \in SUBSET Reservations
      /\ t.order \in Orders \cup {NoOrder}
      /\ t.op \in SettleOps \cup OrderOps \cup {"none", "create", "expire"}
  BY <1>1, <1>2 DEF Transactions, Phases
<1>4. t.op \in SettleOps \cup OrderOps \cup {"expire"}
  BY <1>2, <1>3 DEF Phases
<1>5. t.op \in OrderOps <=> t.order \in Orders
  BY <1>2 DEF Phases
<1>6. t.op = "expire" => s \in Sweepers /\ \A r, x \in (t.todo \ {t.now}) \cup t.done : r = x
  BY <1>2 DEF Phases
<1>7. (t.todo \ {t.now}) \cap t.done = {}
  BY <1>2 DEF Phases
<1>8. /\ \A r \in t.todo : status'[r] # "NONE"
      /\ \A r \in t.done : status'[r] = "ACTIVE" /\ lock'[r] = s /\ lock'[rowOf'[r]] = s
      /\ (IF Outcome(t.op) = "FULFILLED" THEN SaleAccepted(t.done) ELSE ReturnAccepted(t.done))'
  BY <1>2 DEF Settles
<1>9. t.order \in Orders =>
        /\ lock'[t.order] = s
        /\ orderStatus'[t.order] =
             IF t.op = "fulfillOrder" THEN "Payment Confirmed" ELSE "Stock Reserved"
  BY <1>2 DEF Closes
<1>10. QED
  BY <1>1, <1>3, <1>4, <1>5, <1>6, <1>7, <1>8, <1>9 DEF GoesOn

\* SELECT the reservation FOR UPDATE.
LEMMA LockReservationIsSound ==
  ASSUME TxInvariant, NEW s \in Sessions, LockReservation(s)
  PROVE  Sound
<1>1. PICK t : t = tx[s]
  OBVIOUS
<1>2. t \in Transactions /\ SessionOK(s, t) /\ TxTypeOK
  BY <1>1 DEF TxInvariant, TxTypeOK
<1>3. t.at = "reservation" /\ t.op # "create" /\ t.now \in t.todo /\ t.now \in Reservations
  BY <1>1, <1>2 DEF LockReservation, SessionOK, Phases, Transactions
<1>4. CASE Leave(s)
  BY <1>4, LeaveIsSound
<1>5. ASSUME LockFor(s, t.now), UNCHANGED <<vars, orderVars>>
      PROVE  /\ KeepsLocks(s) /\ lock'[t.now] = s
             /\ \A x \in Lockable : lock[x] = s => lock'[x] = s
  BY <1>2, <1>3, <1>5, LockingKeeps DEF Lockable
<1>6. ASSUME status[t.now] = "ACTIVE", LockFor(s, t.now), UNCHANGED <<vars, orderVars>>,
             tx' = [tx EXCEPT ![s].at = "stock"]
      PROVE  Sound
  <2> DEFINE u == [t EXCEPT !.at = "stock"]
  <2>1. tx' = [tx EXCEPT ![s] = u]
    BY <1>1, <1>6
  <2>2. /\ u \in Transactions /\ u.op = t.op /\ u.at = "stock" /\ u.now = t.now
        /\ u.todo = t.todo /\ u.done = t.done /\ u.order = t.order /\ u.request = t.request
    BY <1>2 DEF Transactions
  <2> HIDE DEF u
  <2>3. SessionOK(s, t)'
    BY <1>1, <1>5, <1>6, StillHas
  <2>4. Phases(s, t)' /\ Settles(s, t)' /\ Makes(s, t)' /\ Closes(s, t)'
    BY <2>3 DEF SessionOK
  <2>5. Phases(s, u)'
    BY <1>3, <2>2, <2>4 DEF Phases
  <2>6. status'[t.now] = "ACTIVE" /\ lock'[t.now] = s
    BY <1>5, <1>6 DEF vars
  <2>7. Settles(s, u)'
    BY <1>3, <2>2, <2>4, <2>6 DEF Settles
  <2>8. Makes(s, u)' /\ Closes(s, u)'
    BY <1>3, <2>2, <2>4 DEF Makes, Closes
  <2>9. SessionOK(s, u)'
    BY <2>5, <2>7, <2>8 DEF SessionOK
  <2>10. QED
    BY <1>5, <1>6, <2>1, <2>2, <2>9, StatementIsSound
<1>7. ASSUME LockFor(s, t.now), UNCHANGED <<vars, orderVars>>,
             NEW u \in NextOf(t, t.todo \ {t.now}, "commit"), tx' = [tx EXCEPT ![s] = u]
      PROVE  Sound
  <2>1. GoesOn(s, t, t.todo \ {t.now}, "commit")'
    BY <1>1, <1>3, <1>5, <1>7, SettlingHas
  <2>2. u \in Transactions /\ SessionOK(s, u)'
    BY <1>2, <1>7, <2>1, NextIsOK
  <2>3. QED
    BY <1>5, <1>7, <2>2, StatementIsSound
<1>8. QED
  BY <1>1, <1>4, <1>6, <1>7 DEF LockReservation

\* A reservation more is accepted with those that were.
LEMMA AcceptOneMore ==
  ASSUME StockInvariant, NEW D \in SUBSET Reservations, NEW r \in Reservations \ D,
         rowOf[r] \in Rows,
         NEW sold \in BOOLEAN, sold => SaleAccepted(D), ~sold => ReturnAccepted(D),
         LET row   == rowOf[r]
             taken == Held(D, row)
             after == taken + quantity[r]
         IN  /\ reserved[row] - after \in 0 .. Unquarantined(row) - (IF sold THEN taken ELSE 0)
             /\ sold => MovementAccepted(row, reserved[row] - after, -after, FALSE)
  PROVE  /\ sold => SaleAccepted(D \cup {r})
         /\ ~sold => ReturnAccepted(D \cup {r})
<1> DEFINE row   == rowOf[r]
           taken == Held(D, row)
           after == taken + quantity[r]
           E     == D \cup {r}
<1>1. /\ onHand \in [Rows -> Int] /\ reserved \in [Rows -> Nat]
      /\ damaged \in [Rows -> Nat] /\ expired \in [Rows -> Nat]
      /\ quantity \in [Reservations -> 0 .. MaxQuantity]
  BY ColumnMaxAssumption DEF StockInvariant, TypeOK, Column
<1>2. quantity[r] \in 0 .. MaxQuantity /\ quantity[r] \in Nat /\ IsFiniteSet(D) /\ r \notin D
  BY <1>1, MaxQuantityAssumption, ReservationsFinite
<1>3. ASSUME NEW w
      PROVE  /\ Held(D, w) \in Nat
             /\ rowOf[r] = w => Held(D \cup {r}, w) = Held(D, w) + quantity[r]
             /\ rowOf[r] # w => Held(D \cup {r}, w) = Held(D, w)
  <2>1. Held(D, w) \in Nat
    BY <1>2, UnitsFinite DEF Held
  <2>2. Total(D \cup {r}, rowOf, quantity, w)
          = Total(D, rowOf, quantity, w) + Total({r}, rowOf, quantity, w)
    <3>1. IsFiniteSet({r}) /\ D \cap {r} = {}
      BY <1>2, FS_Singleton
    <3>2. QED
      BY <1>2, <3>1, TotalUnion
  <2>3. Total({r}, rowOf, quantity, w) = IF rowOf[r] = w THEN quantity[r] ELSE 0
    BY <1>2, TotalOfOne
  <2>4. QED
    BY <1>2, <2>1, <2>2, <2>3 DEF Held
<1>4. Held(E, row) = after /\ taken \in Nat
  BY <1>3
<1>5. after \in Nat
  BY <1>2, <1>4
<1>6. RowsOf(E) = RowsOf(D) \cup {row}
  BY DEF RowsOf
<1>7. /\ reserved[row] - after \in 0 .. Unquarantined(row) - (IF sold THEN taken ELSE 0)
      /\ sold => MovementAccepted(row, reserved[row] - after, -after, FALSE)
  OBVIOUS
<1>8. reserved[row] \in Nat /\ Unquarantined(row) \in Int
  BY <1>1 DEF Unquarantined
<1>9. ASSUME NEW w \in RowsOf(D), w # row
      PROVE  Held(E, w) = Held(D, w)
  BY <1>3, <1>9
<1> HIDE DEF row, taken, after
<1>10. ASSUME sold PROVE SaleAccepted(E)
  <2>1. ReservedAccepted(row, -Held(E, row))
    BY <1>4, <1>5, <1>7, <1>8, <1>10 DEF ReservedAccepted
  <2>2. MovementAccepted(row, reserved[row] - Held(E, row), -Held(E, row), FALSE)
    BY <1>4, <1>7, <1>10
  <2>3. ASSUME NEW w \in RowsOf(D), w # row
        PROVE  /\ ReservedAccepted(w, -Held(E, w))
               /\ MovementAccepted(w, reserved[w] - Held(E, w), -Held(E, w), FALSE)
    BY <1>9, <1>10, <2>3 DEF SaleAccepted
  <2> HIDE DEF E
  <2>4. QED
    BY <1>6, <2>1, <2>2, <2>3 DEF SaleAccepted
<1>11. ASSUME ~sold PROVE ReturnAccepted(E)
  <2>1. ASSUME NEW w \in RowsOf(D)
        PROVE  \E x \in E : rowOf[x] = w /\ ReservedAccepted(w, -quantity[x])
    BY <1>11, <2>1 DEF ReturnAccepted
  <2>2. ASSUME row \notin RowsOf(D)
        PROVE  \E x \in E : rowOf[x] = row /\ ReservedAccepted(row, -quantity[x])
    <3>1. taken = 0
      <4>1. \A x \in D : rowOf[x] # row
        BY <2>2 DEF RowsOf
      <4>2. QED
        BY <4>1, TotalElsewhere DEF taken, Held
    <3>2. after = quantity[r]
      BY <1>2, <3>1 DEF after
    <3>3. ReservedAccepted(row, -quantity[r])
      BY <1>2, <1>7, <1>8, <1>11, <3>2 DEF ReservedAccepted
    <3>4. QED
      BY <3>3 DEF row
  <2> HIDE DEF E
  <2>3. QED
    BY <1>6, <2>1, <2>2 DEF ReturnAccepted
<1>12. QED
  BY <1>10, <1>11

\* SELECT the balance FOR UPDATE, test it and update it.
LEMMA LockBalanceIsSound ==
  ASSUME TxInvariant, NEW s \in Sessions, LockBalance(s)
  PROVE  Sound
<1>1. PICK t : t = tx[s]
  OBVIOUS
<1> DEFINE r     == t.now
           row   == rowOf[r]
           sold  == Outcome(t.op) = "FULFILLED"
           taken == Held(t.done, row)
           after == taken + quantity[r]
           then  == IF t.op = "expire" THEN "others" ELSE "commit"
           D     == t.done \cup {r}
           next  == [t EXCEPT !.done = @ \cup {t.now}]
<1>2. t \in Transactions /\ SessionOK(s, t) /\ TxTypeOK /\ MadeKnown /\ StockInvariant
  BY <1>1 DEF TxInvariant, TxTypeOK
<1>3. t.op # "create" /\ t.at = "stock"
  BY <1>1 DEF LockBalance
<1>4. /\ r \in Reservations /\ r \in t.todo /\ r \notin t.done /\ t.done \in SUBSET Reservations
      /\ status[r] = "ACTIVE" /\ lock[r] = s
      /\ IF sold THEN SaleAccepted(t.done) ELSE ReturnAccepted(t.done)
      /\ \A x \in t.done : status[x] = "ACTIVE" /\ lock[x] = s /\ lock[rowOf[x]] = s
  <2>1. Phases(s, t) /\ Settles(s, t) /\ t.todo \in SUBSET Reservations
        /\ t.done \in SUBSET Reservations
    BY <1>2 DEF SessionOK, Transactions
  <2>2. r \in t.todo /\ t.todo \cap t.done = {}
    BY <1>3, <2>1 DEF Phases
  <2>3. /\ status[r] = "ACTIVE" /\ lock[r] = s
        /\ IF sold THEN SaleAccepted(t.done) ELSE ReturnAccepted(t.done)
        /\ \A x \in t.done : status[x] = "ACTIVE" /\ lock[x] = s /\ lock[rowOf[x]] = s
    BY <1>3, <2>1 DEF Settles
  <2>4. QED
    BY <2>1, <2>2, <2>3
<1>5. row \in Rows
  BY <1>2, <1>4 DEF MadeKnown
<1>6. CASE Leave(s)
  BY <1>6, LeaveIsSound
<1>7. ASSUME reserved[row] - after \in 0 .. Unquarantined(row) - (IF sold THEN taken ELSE 0),
             sold => MovementAccepted(row, reserved[row] - after, -after, FALSE),
             LockFor(s, row), UNCHANGED <<vars, orderVars>>,
             NEW u \in NextOf(next, t.todo \ {t.now}, then), tx' = [tx EXCEPT ![s] = u]
      PROVE  Sound
  <2>1. /\ KeepsLocks(s) /\ lock'[row] = s
        /\ \A x \in Lockable : lock[x] = s => lock'[x] = s
    BY <1>2, <1>5, <1>7, LockingKeeps DEF Lockable
  <2>2. GoesOn(s, t, t.todo \ {t.now}, "commit")'
    BY <1>1, <1>3, <1>7, <2>1, SettlingHas
  <2>3. /\ sold => SaleAccepted(D)
        /\ ~sold => ReturnAccepted(D)
    <3>1. sold \in BOOLEAN /\ r \in Reservations \ t.done
      BY <1>4
    <3>2. QED
      BY <1>2, <1>4, <1>5, <1>7, <3>1, AcceptOneMore
  <2>4. IF sold THEN SaleAccepted(D)' ELSE ReturnAccepted(D)'
    <3>1. UNCHANGED <<rowOf, quantity, onHand, reserved, damaged, expired>>
      BY <1>7 DEF vars, balanceVars, holdVars
    <3> HIDE DEF D, sold
    <3>2. /\ SaleAccepted(D) => SaleAccepted(D)'
          /\ ReturnAccepted(D) => ReturnAccepted(D)'
      BY <3>1, AcceptanceKept
    <3>3. QED
      BY <2>3, <3>2
  <2>5. \A x \in D : status'[x] = "ACTIVE" /\ lock'[x] = s /\ lock'[rowOf'[x]] = s
    <3>1. status' = status /\ rowOf' = rowOf
      BY <1>7 DEF vars, holdVars
    <3>2. status'[r] = "ACTIVE" /\ lock'[r] = s /\ lock'[rowOf'[r]] = s
      BY <1>4, <2>1, <3>1 DEF Lockable
    <3>3. \A x \in t.done : status'[x] = "ACTIVE" /\ lock'[x] = s /\ lock'[rowOf'[x]] = s
      BY <2>2 DEF GoesOn
    <3>4. QED
      BY <3>2, <3>3
  <2>6. /\ next \in Transactions /\ next.op = t.op /\ next.done = D /\ next.order = t.order
    BY <1>2, <1>4 DEF Transactions
  <2>7. t.op = "expire" => \A x, y \in t.todo \cup t.done : x = y
    BY <1>2 DEF SessionOK, Phases
  <2> HIDE DEF next
  <2>8. GoesOn(s, next, t.todo \ {t.now}, then)'
    <3>1. t.op = "expire" =>
            s \in Sweepers /\ \A x, y \in (t.todo \ {t.now}) \cup next.done : x = y
      BY <1>4, <2>2, <2>6, <2>7 DEF GoesOn
    <3>2. then = "commit" \/ (then = "others" /\ next.op = "expire" /\ next.done # {})
      BY <2>6
    <3>3. (t.todo \ {t.now}) \cap next.done = {}
      BY <2>2, <2>6 DEF GoesOn
    <3>4. (IF Outcome(next.op) = "FULFILLED" THEN SaleAccepted(next.done)
                                             ELSE ReturnAccepted(next.done))'
      BY <2>4, <2>6
    <3>5. \A x \in next.done : status'[x] = "ACTIVE" /\ lock'[x] = s /\ lock'[rowOf'[x]] = s
      BY <2>5, <2>6
    <3> HIDE DEF then, D
    <3>6. QED
      BY <2>2, <2>6, <3>1, <3>2, <3>3, <3>4, <3>5 DEF GoesOn
  <2>9. u \in Transactions /\ SessionOK(s, u)'
    BY <1>7, <2>6, <2>8, NextIsOK
  <2>10. QED
    BY <1>7, <2>1, <2>9, StatementIsSound
<1>8. QED
  BY <1>1, <1>6, <1>7 DEF LockBalance

\* The sweep lists the order's other reservations.
LEMMA ListOthersIsSound ==
  ASSUME TxInvariant, NEW s \in Sessions, ListOthers(s)
  PROVE  Sound
<1>1. PICK t : t = tx[s]
  OBVIOUS
<1>2. t \in Transactions /\ SessionOK(s, t) /\ TxTypeOK
  BY <1>1 DEF TxInvariant, TxTypeOK
<1>3. PICK o : o = CHOOSE x \in {reference[r] : r \in t.done} : TRUE
  OBVIOUS
<1>4. PICK u : u = IF o # NoOrder /\ NoneLeft(o, t.done)
                    THEN [t EXCEPT !.at = "close", !.order = o]
                    ELSE [t EXCEPT !.at = "commit"]
  OBVIOUS
<1>5. /\ t.at = "others" /\ tx' = [tx EXCEPT ![s] = u]
      /\ lock' = lock /\ UNCHANGED <<vars, reference, orderStatus>>
      /\ skewed' = skewed \/ (o # NoOrder /\ skewed' = skewed \cup {o})
  BY <1>1, <1>3, <1>4 DEF ListOthers
<1>6. o \in Orders \cup {NoOrder}
  <2>1. t.done # {}
    BY <1>2, <1>5 DEF SessionOK, Phases
  <2>2. o \in {reference[r] : r \in t.done}
    BY <1>3, <2>1
  <2>3. t.done \in SUBSET Reservations /\ reference \in [Reservations -> Orders \cup {NoOrder}]
    BY <1>2 DEF Transactions, TxTypeOK
  <2>4. QED
    BY <2>2, <2>3
<1>7. CommitsNothing
  BY <1>2, <1>5, <1>6 DEF CommitsNothing, TxTypeOK
<1>8. KeepsLocks(s) /\ SessionOK(s, t)'
  BY <1>1, <1>2, <1>5, <1>7, LockingKeeps, QuietHas
<1>9. Phases(s, t) /\ Phases(s, t)' /\ Settles(s, t)' /\ Makes(s, t)' /\ Closes(s, t)'
  BY <1>2, <1>8 DEF SessionOK
<1>10. t.op = "expire" /\ t.done # {} /\ t.order \notin Orders
  BY <1>5, <1>9 DEF Phases, OrderOps
<1>11. /\ u \in Transactions /\ u.op = "expire" /\ u.now = t.now /\ u.todo = t.todo
      /\ u.done = t.done
      /\ \/ u.at = "close" /\ u.order \in Orders
         \/ u.at = "commit" /\ u.order \notin Orders
  <2>1. CASE o # NoOrder /\ NoneLeft(o, t.done)
    BY <1>2, <1>4, <1>5, <1>6, <1>10, <2>1 DEF Transactions
  <2>2. CASE ~(o # NoOrder /\ NoneLeft(o, t.done))
    BY <1>2, <1>4, <1>5, <1>10, <2>2 DEF Transactions
  <2>3. QED
    BY <2>1, <2>2
<1>12. SessionOK(s, u)'
  <2>1. Phases(s, u)'
    BY <1>5, <1>9, <1>10, <1>11 DEF Phases, OrderOps
  <2>2. Settles(s, u)'
    BY <1>9, <1>10, <1>11 DEF Settles
  <2>3. Makes(s, u)' /\ Closes(s, u)'
    BY <1>11 DEF Makes, Closes
  <2>4. QED
    BY <2>1, <2>2, <2>3 DEF SessionOK
<1>13. QED
  BY <1>5, <1>7, <1>8, <1>11, <1>12, QuietIsSound

\* UPDATE the order if it waits for payment.
LEMMA CloseOrderIsSound ==
  ASSUME TxInvariant, NEW s \in Sessions, CloseOrder(s)
  PROVE  Sound
<1>1. PICK t : t = tx[s]
  OBVIOUS
<1>2. t \in Transactions /\ SessionOK(s, t) /\ TxTypeOK
  BY <1>1 DEF TxInvariant, TxTypeOK
<1>3. t.at = "close" /\ UNCHANGED <<vars, orderVars>>
  BY <1>1 DEF CloseOrder
<1>4. Phases(s, t)
  BY <1>2 DEF SessionOK
<1>5. t.op = "expire" /\ t.done # {} /\ t.order \in Orders
  BY <1>3, <1>4 DEF Phases
<1>6. ASSUME orderStatus[t.order] = "Stock Reserved", LockFor(s, t.order),
             tx' = [tx EXCEPT ![s].at = "commit"]
      PROVE  Sound
  <2> DEFINE u == [t EXCEPT !.at = "commit"]
  <2>1. tx' = [tx EXCEPT ![s] = u]
    BY <1>1, <1>6
  <2>2. /\ KeepsLocks(s) /\ lock'[t.order] = s
        /\ \A x \in Lockable : lock[x] = s => lock'[x] = s
    BY <1>2, <1>5, <1>6, LockingKeeps DEF Lockable
  <2>3. SessionOK(s, t)'
    BY <1>1, <1>3, <2>2, StillHas
  <2>4. /\ u \in Transactions /\ u.op = "expire" /\ u.at = "commit" /\ u.todo = t.todo
        /\ u.done = t.done /\ u.order = t.order
    BY <1>2, <1>5 DEF Transactions
  <2> HIDE DEF u
  <2>5. Phases(s, u)'
    BY <1>4, <1>5, <2>4 DEF Phases, OrderOps
  <2>6. Settles(s, u)'
    BY <1>5, <2>3, <2>4 DEF SessionOK, Settles
  <2>7. Makes(s, u)' /\ Closes(s, u)'
    <3>1. orderStatus'[t.order] = "Stock Reserved"
      BY <1>3, <1>6 DEF orderVars
    <3>2. QED
      BY <2>2, <2>4, <3>1 DEF Makes, Closes
  <2>8. SessionOK(s, u)'
    BY <2>5, <2>6, <2>7 DEF SessionOK
  <2>9. QED
    BY <1>3, <2>1, <2>2, <2>4, <2>8, StatementIsSound
<1>7. ASSUME lock' = lock, tx' = [tx EXCEPT ![s].at = "commit", ![s].order = NoOrder]
      PROVE  Sound
  <2> DEFINE u == [t EXCEPT !.at = "commit", !.order = NoOrder]
  <2>1. tx' = [tx EXCEPT ![s] = u]
    BY <1>1, <1>2, <1>7 DEF TxTypeOK, Transactions
  <2>2. KeepsLocks(s) /\ SessionOK(s, t)'
    BY <1>1, <1>2, <1>3, <1>7, LockingKeeps, StillHas
  <2>3. /\ u \in Transactions /\ u.op = "expire" /\ u.at = "commit" /\ u.todo = t.todo
        /\ u.done = t.done /\ u.order = NoOrder
    BY <1>2, <1>5 DEF Transactions
  <2> HIDE DEF u
  <2>4. Phases(s, u)'
    BY <1>4, <1>5, <2>3, NamesAssumption DEF Phases, OrderOps
  <2>5. Settles(s, u)'
    BY <1>5, <2>2, <2>3 DEF SessionOK, Settles
  <2>6. Makes(s, u)' /\ Closes(s, u)'
    BY <2>3, NamesAssumption DEF Makes, Closes
  <2>7. SessionOK(s, u)'
    BY <2>4, <2>5, <2>6 DEF SessionOK
  <2>8. QED
    BY <1>3, <2>1, <2>2, <2>3, <2>7, StatementIsSound
<1>8. QED
  BY <1>1, <1>6, <1>7 DEF CloseOrder

\* The balance of a creation, tested and locked.
LEMMA LockForCreateIsSound ==
  ASSUME TxInvariant, NEW s \in Sessions, LockForCreate(s)
  PROVE  Sound
<1>1. PICK t : t = tx[s]
  OBVIOUS
<1>2. t \in Transactions /\ SessionOK(s, t) /\ TxTypeOK
  BY <1>1 DEF TxInvariant, TxTypeOK
<1>3. t.op = "create" /\ t.at = "stock"
  BY <1>1 DEF LockForCreate
<1>4. Phases(s, t)
  BY <1>2 DEF SessionOK
<1>5. t.now \in Reservations /\ t.request \in Requests /\ t.request.row \in Rows
      /\ t.order \notin Orders
  BY <1>3, <1>4 DEF Phases, Requests, OrderOps
<1>6. CASE Leave(s)
  BY <1>6, LeaveIsSound
<1>7. ASSUME ReservedAccepted(t.request.row, t.request.amount), LockFor(s, t.request.row),
             tx' = [tx EXCEPT ![s].at = "insert"], UNCHANGED <<vars, orderVars>>
      PROVE  Sound
  <2> DEFINE u == [t EXCEPT !.at = "insert"]
  <2>1. tx' = [tx EXCEPT ![s] = u]
    BY <1>1, <1>7
  <2>2. KeepsLocks(s) /\ lock'[t.request.row] = s
    BY <1>2, <1>5, <1>7, LockingKeeps DEF Lockable
  <2>3. /\ u \in Transactions /\ u.op = "create" /\ u.at = "insert" /\ u.now = t.now
        /\ u.order = t.order /\ u.request = t.request
    BY <1>2, <1>3 DEF Transactions
  <2> HIDE DEF u
  <2>4. Phases(s, u)' /\ Settles(s, u)' /\ Closes(s, u)'
    BY <1>5, <2>3 DEF Phases, Settles, Closes, OrderOps
  <2>5. ReservedAccepted(t.request.row, t.request.amount)'
    BY <1>7 DEF ReservedAccepted, Unquarantined, vars, balanceVars
  <2>6. Makes(s, u)'
    BY <2>2, <2>3, <2>5 DEF Makes
  <2>7. SessionOK(s, u)'
    BY <2>4, <2>6 DEF SessionOK
  <2>8. QED
    BY <1>7, <2>1, <2>2, <2>3, <2>7, StatementIsSound
<1>8. QED
  BY <1>1, <1>6, <1>7 DEF LockForCreate

\* INSERT the reservation.
LEMMA InsertIsSound ==
  ASSUME TxInvariant, NEW s \in Sessions, InsertReservation(s)
  PROVE  Sound
<1>1. PICK t : t = tx[s]
  OBVIOUS
<1>2. t \in Transactions /\ SessionOK(s, t) /\ TxTypeOK
  BY <1>1 DEF TxInvariant, TxTypeOK
<1>3. Phases(s, t) /\ t.at = "insert"
  BY <1>1, <1>2 DEF SessionOK, InsertReservation
<1>4. t.op = "create" /\ t.now \in Reservations /\ t.request \in Requests /\ t.order \notin Orders
  BY <1>3 DEF Phases, OrderOps
<1>5. CASE Leave(s)
  BY <1>5, LeaveIsSound
<1>6. ASSUME status[t.now] = "NONE", LockFor(s, t.now), UNCHANGED <<vars, orderVars>>,
             tx' = [tx EXCEPT ![s].at = "commit", ![s].done = {t.now}]
      PROVE  Sound
  <2> DEFINE u == [t EXCEPT !.at = "commit", !.done = {t.now}]
  <2>1. tx' = [tx EXCEPT ![s] = u]
    BY <1>1, <1>2, <1>6 DEF TxTypeOK, Transactions
  <2>2. /\ KeepsLocks(s) /\ lock'[t.now] = s
        /\ \A x \in Lockable : lock[x] = s => lock'[x] = s
    BY <1>2, <1>4, <1>6, LockingKeeps DEF Lockable
  <2>3. SessionOK(s, t)'
    BY <1>1, <1>6, <2>2, StillHas
  <2>4. /\ u \in Transactions /\ u.op = "create" /\ u.at = "commit" /\ u.now = t.now
        /\ u.order = t.order /\ u.request = t.request
    BY <1>2, <1>4 DEF Transactions
  <2> HIDE DEF u
  <2>5. Phases(s, u)' /\ Settles(s, u)' /\ Closes(s, u)'
    BY <1>4, <2>4 DEF Phases, Settles, Closes, OrderOps
  <2>6. Makes(s, u)'
    <3>1. status'[t.now] = "NONE"
      BY <1>6 DEF vars
    <3>2. Makes(s, t)'
      BY <2>3 DEF SessionOK
    <3>3. QED
      BY <1>3, <1>4, <2>2, <2>4, <3>1, <3>2 DEF Makes
  <2>7. SessionOK(s, u)'
    BY <2>5, <2>6 DEF SessionOK
  <2>8. QED
    BY <1>6, <2>1, <2>2, <2>4, <2>7, StatementIsSound
<1>7. QED
  BY <1>1, <1>5, <1>6 DEF InsertReservation

-----------------------------------------------------------------------------
(* The statements that change what is committed.                           *)

\* A step is sound if it is one of the promise, and spares every session but
\* those whose transactions it ends.
LEMMA StepIsSound ==
  ASSUME TxInvariant, [PromiseNext]_vars, TxTypeOK', MadeKnown', MovesForward,
         \A x \in Sessions : tx'[x] = Idle \/ (tx'[x] = tx[x] /\ Spares(x))
  PROVE  Sound
<1>1. TxTypeOK /\ MadeKnown /\ StockInvariant
  BY DEF TxInvariant
<1>2. StockInvariant'
  BY <1>1, PromiseStep
<1>3. ASSUME NEW x \in Sessions PROVE SessionOK(x, tx[x])'
  <2>1. CASE tx'[x] = Idle
    <3>1. SessionOK(x, Idle)'
      BY IdleRelies
    <3>2. PICK u : u = Idle
      OBVIOUS
    <3>3. SessionOK(x, u)' /\ tx'[x] = u
      BY <2>1, <3>1, <3>2
    <3>4. QED
      BY <3>3
  <2>2. CASE tx'[x] = tx[x] /\ Spares(x)
    <3>1. PICK t : t = tx[x]
      OBVIOUS
    <3>2. t \in Transactions /\ SessionOK(x, t)
      BY <1>1, <3>1 DEF TxInvariant, TxTypeOK
    <3>3. SessionOK(x, t)'
      BY <1>1, <2>2, <3>2, Undisturbed
    <3>4. QED
      BY <2>2, <3>1, <3>3
  <2>3. QED
    BY <2>1, <2>2
<1>4. QED
  BY <1>2, <1>3 DEF Sound, TxInvariant

\* COMMIT of a creation.
LEMMA CommitCreateIsSound ==
  ASSUME TxInvariant, NEW s \in Sessions, CommitCreate(s),
         tx' = [tx EXCEPT ![s] = Idle], lock' = Unlocked(s)
  PROVE  Sound
<1>1. PICK t : t = tx[s]
  OBVIOUS
<1> DEFINE r   == t.now
           row == t.request.row
           q   == t.request.amount
<1>2. /\ t.op = "create" /\ t.at = "commit"
      /\ reserved' = [reserved EXCEPT ![row] = @ + q]
      /\ status'    = [status EXCEPT ![r] = "ACTIVE"]
      /\ rowOf'     = [rowOf EXCEPT ![r] = row]
      /\ quantity'  = [quantity EXCEPT ![r] = q]
      /\ expiry'    = [expiry EXCEPT ![r] = "ahead"]
      /\ reference' = [reference EXCEPT ![r] = t.request.order]
      /\ UNCHANGED <<onHand, damaged, expired, ledgerVars, overridden, orderStatus, skewed>>
  BY <1>1 DEF CommitCreate
<1>3. t \in Transactions /\ SessionOK(s, t) /\ TxTypeOK /\ MadeKnown /\ StockInvariant
  BY <1>1 DEF TxInvariant, TxTypeOK
<1>4. /\ r \in Reservations /\ row \in Rows /\ q \in Quantities
      /\ t.request.order \in Orders \cup {NoOrder}
  BY <1>2, <1>3 DEF SessionOK, Phases, Requests
<1>5. /\ lock[row] = s /\ ReservedAccepted(row, q)
      /\ status[r] = "NONE" /\ lock[r] = s
  BY <1>2, <1>3 DEF SessionOK, Makes
<1>6. /\ reserved \in [Rows -> Nat] /\ status \in [Reservations -> Statuses]
      /\ rowOf \in [Reservations -> Rows \cup {NoRow}]
      /\ quantity \in [Reservations -> 0 .. MaxQuantity]
      /\ expiry \in [Reservations -> {"never", "ahead", "past"}]
  BY <1>3 DEF StockInvariant, TypeOK
<1>7. KeepsLocks(s)
  BY <1>3, LockingKeeps
<1> HIDE DEF r, row, q
<1>8. PromiseNext
  <2> DEFINE rows    == [x \in {r} |-> row]
             amounts == [x \in {r} |-> q]
  <2>1. rows \in [{r} -> Rows] /\ amounts \in [{r} -> Quantities] /\ {r} \in SUBSET Reservations
    BY <1>4
  <2>2. rows[r] = row /\ amounts[r] = q
    OBVIOUS
  <2> HIDE DEF rows, amounts
  <2>3. q \in 0 .. MaxQuantity
    BY <1>4, MaxQuantityAssumption DEF Quantities
  <2>4. \A w : Total({r}, rows, amounts, w) = IF w = row THEN q ELSE 0
    BY <2>2, <2>3, TotalOfOne
  <2>5. {r} \subseteq WithStatus("NONE")
    BY <1>4, <1>5 DEF WithStatus
  <2>6. \A x \in {r} : ReservedAccepted(rows[x], Total({r}, rows, amounts, rows[x]))
    BY <1>5, <2>2, <2>4
  <2>7. reserved' = [w \in Rows |-> reserved[w] + Total({r}, rows, amounts, w)]
    <3>1. ASSUME NEW w \in Rows
          PROVE  reserved'[w] = reserved[w] + Total({r}, rows, amounts, w)
      <4>1. reserved[w] \in Nat
        BY <1>6
      <4>2. CASE w = row
        BY <1>2, <1>6, <2>4, <4>2
      <4>3. CASE w # row
        <5>1. reserved'[w] = reserved[w]
          BY <1>2, <1>6, <4>3
        <5>2. Total({r}, rows, amounts, w) = 0
          BY <2>4, <4>3
        <5>3. QED
          BY <4>1, <5>1, <5>2
      <4>4. QED
        BY <4>2, <4>3
    <3>2. reserved' = [w \in Rows |-> reserved'[w]]
      BY <1>2, <1>6
    <3>3. QED
      BY <3>1, <3>2
  <2>8. /\ status'   = SetStatus({r}, "ACTIVE")
        /\ rowOf'    = [x \in Reservations |-> IF x \in {r} THEN rows[x] ELSE rowOf[x]]
        /\ quantity' = [x \in Reservations |-> IF x \in {r} THEN amounts[x] ELSE quantity[x]]
        /\ expiry'   = [x \in Reservations |-> IF x \in {r} THEN "ahead" ELSE expiry[x]]
    BY <1>2, <1>6, <2>2 DEF SetStatus
  <2>9. Hold({r}, rows, amounts, "ahead")
    BY <1>2, <2>5, <2>6, <2>7, <2>8 DEF Hold
  <2>10. QED
    BY <2>1, <2>9 DEF PromiseNext
<1>9. TxTypeOK'
  <2>1. reference' \in [Reservations -> Orders \cup {NoOrder}] /\ orderStatus' = orderStatus
    BY <1>2, <1>3, <1>4 DEF TxTypeOK
  <2>2. tx' \in [Sessions -> Transactions]
    BY <1>3, IdleRelies DEF TxTypeOK
  <2>3. QED
    BY <1>2, <1>3, <1>7, <2>1, <2>2 DEF TxTypeOK, KeepsLocks, Lockable
<1>10. MadeKnown'
  BY <1>2, <1>3, <1>4, <1>6 DEF MadeKnown, TxTypeOK
<1>11. MovesForward
  BY <1>2 DEF MovesForward
<1>12. ASSUME NEW x \in Sessions, x # s
       PROVE  tx'[x] = tx[x] /\ Spares(x)
  <2>1. tx'[x] = tx[x]
    BY <1>3, <1>12 DEF TxTypeOK
  <2>2. \A y \in Lockable : lock[y] = x => lock'[y] = x
    BY <1>7, <1>12, NamesAssumption DEF KeepsLocks
  <2>3. \A y \in Reservations : lock[y] = x => status'[y] = status[y]
    BY <1>2, <1>5, <1>6, <1>12
  <2>4. \A y \in Reservations :
          status[y] # "NONE" =>
            status'[y] # "NONE" /\ rowOf'[y] = rowOf[y] /\ quantity'[y] = quantity[y]
    BY <1>2, <1>5, <1>6
  <2>5. \A w \in Rows :
          lock[w] = x => /\ onHand'[w] = onHand[w] /\ reserved'[w] = reserved[w]
                         /\ damaged'[w] = damaged[w] /\ expired'[w] = expired[w]
    BY <1>2, <1>5, <1>6, <1>12
  <2>6. QED
    BY <1>2, <2>1, <2>2, <2>3, <2>4, <2>5 DEF Spares
<1>13. tx'[s] = Idle
  BY <1>3 DEF TxTypeOK
<1>14. QED
  BY <1>8, <1>9, <1>10, <1>11, <1>12, <1>13, StepIsSound

\* COMMIT of what was settled: a sale, or a return to the stock that is
\* available, of all the reservations that were locked.
LEMMA SettlingIsPromised ==
  ASSUME NEW s \in Sessions, NEW t \in Transactions, SessionOK(s, t),
         t.op \notin {"create", "none"},
         IF Outcome(t.op) = "FULFILLED" THEN Sell(t.done) ELSE Unreserve(t.done, Outcome(t.op))
  PROVE  PromiseNext
<1>1. t.done \in SUBSET Reservations
  BY DEF Transactions
<1>2. Settles(s, t)
  BY DEF SessionOK
<1>3. t.done \subseteq WithStatus("ACTIVE")
  BY <1>1, <1>2 DEF Settles, WithStatus
<1>4. CASE Outcome(t.op) = "FULFILLED"
  <2>1. Fulfill(t.done)
    BY <1>2, <1>3, <1>4 DEF Fulfill, Settles, SaleAccepted
  <2>2. QED
    BY <1>1, <2>1 DEF PromiseNext
<1>5. CASE Outcome(t.op) # "FULFILLED"
  <2>1. t.op \in {"release", "cancel", "fulfill", "cancelOrder", "fulfillOrder", "expire"}
    BY DEF Transactions, SettleOps, OrderOps
  <2>2. Outcome(t.op) \in Settled \ {"FULFILLED"}
    BY <1>5, <2>1 DEF Outcome, Settled
  <2>3. GiveBack(t.done, Outcome(t.op))
    BY <1>2, <1>3, <1>5 DEF GiveBack, Settles, ReturnAccepted
  <2>4. QED
    BY <1>1, <2>2, <2>3 DEF PromiseNext
<1>6. QED
  BY <1>4, <1>5

LEMMA CommitSettleIsSound ==
  ASSUME TxInvariant, NEW s \in Sessions, CommitSettle(s),
         tx' = [tx EXCEPT ![s] = Idle], lock' = Unlocked(s)
  PROVE  Sound
<1>1. PICK t : t = tx[s]
  OBVIOUS
<1>2. /\ t.op # "create" /\ t.at = "commit"
      /\ IF Outcome(t.op) = "FULFILLED" THEN Sell(t.done) ELSE Unreserve(t.done, Outcome(t.op))
      /\ orderStatus' =
           [o \in Orders |-> IF o = t.order THEN OrderOutcome(t.op) ELSE orderStatus[o]]
      /\ reference' = reference /\ skewed' = skewed
  BY <1>1 DEF CommitSettle
<1>3. t \in Transactions /\ SessionOK(s, t) /\ TxTypeOK /\ MadeKnown /\ StockInvariant
  BY <1>1 DEF TxInvariant, TxTypeOK
<1>4. /\ t.done \in SUBSET Reservations
      /\ \A r \in t.done : status[r] = "ACTIVE" /\ lock[r] = s /\ lock[rowOf[r]] = s
  BY <1>2, <1>3 DEF SessionOK, Settles, Transactions
<1>5. t.order \in Orders =>
        /\ lock[t.order] = s
        /\ orderStatus[t.order] =
             IF t.op = "fulfillOrder" THEN "Payment Confirmed" ELSE "Stock Reserved"
  BY <1>2, <1>3 DEF SessionOK, Closes
<1>6. t.op \notin {"create", "none"} /\ Outcome(t.op) # "NONE"
  <2>1. t.op \in {"release", "cancel", "fulfill", "cancelOrder", "fulfillOrder", "expire"}
    BY <1>2, <1>3 DEF Transactions, SettleOps, OrderOps, SessionOK, Phases
  <2>2. QED
    BY <2>1 DEF Outcome
<1>7. PromiseNext
  BY <1>2, <1>3, <1>6, SettlingIsPromised
<1>8. KeepsLocks(s)
  BY <1>3, LockingKeeps
<1>9. /\ UNCHANGED <<rowOf, quantity, damaged, expired>>
      /\ \E outcome : outcome # "NONE" /\ status' = SetStatus(t.done, outcome)
      /\ reserved' = [row \in Rows |-> reserved[row] - Held(t.done, row)]
      /\ onHand' = onHand \/ onHand' = [row \in Rows |-> onHand[row] - Held(t.done, row)]
  BY <1>2, <1>6 DEF Sell, Unreserve, holdVars
<1>10. PICK outcome : outcome # "NONE" /\ status' = SetStatus(t.done, outcome)
  BY <1>9
<1>11. \A r \in Reservations : status'[r] = IF r \in t.done THEN outcome ELSE status[r]
  BY <1>10 DEF SetStatus
<1>12. TxTypeOK'
  <2>1. orderStatus' \in [Orders -> {"Stock Reserved", "Payment Confirmed", "Completed",
                                     "Cancelled"}]
    BY <1>2, <1>3 DEF TxTypeOK, OrderOutcome
  <2>2. tx' \in [Sessions -> Transactions]
    BY <1>3, IdleRelies DEF TxTypeOK
  <2>3. QED
    BY <1>2, <1>3, <1>8, <2>1, <2>2 DEF TxTypeOK, KeepsLocks, Lockable
<1>13. MadeKnown'
  BY <1>2, <1>3, <1>4, <1>9, <1>10, <1>11 DEF MadeKnown
<1>14. MovesForward
  BY <1>2, <1>5 DEF MovesForward, OrderOutcome
<1>15. ASSUME NEW x \in Sessions, x # s
       PROVE  tx'[x] = tx[x] /\ Spares(x)
  <2>1. tx'[x] = tx[x]
    BY <1>3, <1>15 DEF TxTypeOK
  <2>2. \A y \in Lockable : lock[y] = x => lock'[y] = x
    BY <1>8, <1>15, NamesAssumption DEF KeepsLocks
  <2>3. \A y \in Reservations : lock[y] = x => status'[y] = status[y]
    BY <1>4, <1>11, <1>15
  <2>4. \A y \in Reservations :
          status[y] # "NONE" =>
            status'[y] # "NONE" /\ rowOf'[y] = rowOf[y] /\ quantity'[y] = quantity[y]
    BY <1>9, <1>10, <1>11
  <2>5. ASSUME NEW w \in Rows, lock[w] = x
        PROVE  /\ onHand'[w] = onHand[w] /\ reserved'[w] = reserved[w]
               /\ damaged'[w] = damaged[w] /\ expired'[w] = expired[w]
    <3>1. \A r \in t.done : rowOf[r] # w
      BY <1>4, <1>15, <2>5
    <3>2. Held(t.done, w) = 0
      BY <3>1, TotalElsewhere DEF Held
    <3>3. onHand[w] \in Int /\ reserved[w] \in Int
      BY <1>3, ColumnMaxAssumption DEF StockInvariant, TypeOK, Column
    <3>4. QED
      BY <1>9, <3>2, <3>3
  <2>6. \A o \in Orders : lock[o] = x => orderStatus'[o] = orderStatus[o]
    BY <1>2, <1>5, <1>15
  <2>7. QED
    BY <2>1, <2>2, <2>3, <2>4, <2>5, <2>6 DEF Spares
<1>16. tx'[s] = Idle
  BY <1>3 DEF TxTypeOK
<1>17. QED
  BY <1>7, <1>12, <1>13, <1>14, <1>15, <1>16, StepIsSound

\* The payment's confirmation, the merchant's adjustment and the clock.
LEMMA OneStatementIsSound ==
  ASSUME TxInvariant, OneStatement
  PROVE  Sound
<1>1. TxTypeOK /\ MadeKnown /\ StockInvariant
  BY DEF TxInvariant
<1>2. \A x \in Sessions : x # Nobody
  BY NamesAssumption
<1>3. ASSUME NEW o \in Orders, ConfirmPayment(o)
      PROVE  Sound
  <2>1. /\ lock[o] = Nobody /\ orderStatus[o] = "Stock Reserved"
        /\ orderStatus' = [orderStatus EXCEPT ![o] = "Payment Confirmed"]
        /\ UNCHANGED <<vars, reference, skewed, lock, tx>>
    BY <1>3 DEF ConfirmPayment
  <2>2. TxTypeOK' /\ MovesForward
    BY <1>1, <2>1 DEF TxTypeOK, MovesForward
  <2>3. MadeKnown'
    BY <1>1, <2>1 DEF MadeKnown, vars, holdVars
  <2>4. ASSUME NEW x \in Sessions PROVE Spares(x)
    BY <1>1, <1>2, <2>1 DEF TxTypeOK, Spares, vars, balanceVars, holdVars
  <2>5. QED
    BY <2>1, <2>2, <2>3, <2>4, StepIsSound
<1>4. ASSUME NEW row \in Rows, AdjustStock(row)
      PROVE  Sound
  <2>1. PICK change \in -MaxQuantity .. MaxQuantity, allow \in BOOLEAN :
          RecordAdjustment(row, change, allow)
    BY <1>4 DEF AdjustStock
  <2>2. lock[row] = Nobody /\ UNCHANGED <<orderVars, lock, tx>>
    BY <1>4 DEF AdjustStock
  <2>3. PromiseNext
    BY <2>1 DEF PromiseNext, StockNext, StockOn
  <2>4. /\ onHand' = [onHand EXCEPT ![row] = @ + change]
        /\ UNCHANGED <<reserved, damaged, expired, status, holdVars>>
    BY <2>1 DEF RecordAdjustment
  <2>5. TxTypeOK' /\ MovesForward
    BY <1>1, <2>2 DEF TxTypeOK, MovesForward, orderVars
  <2>6. MadeKnown'
    BY <1>1, <2>2, <2>4 DEF MadeKnown, holdVars, orderVars
  <2>7. onHand \in [Rows -> Column]
    BY <1>1 DEF StockInvariant, TypeOK
  <2>8. ASSUME NEW x \in Sessions PROVE Spares(x)
    BY <1>2, <2>2, <2>4, <2>7 DEF Spares, holdVars, orderVars
  <2>9. QED
    BY <2>2, <2>3, <2>5, <2>6, <2>8, StepIsSound
<1>5. ASSUME NEW r \in Reservations, ExpiryPasses(r), UNCHANGED <<orderVars, lock, tx>>
      PROVE  Sound
  <2>1. PromiseNext
    BY <1>5 DEF PromiseNext
  <2>2. UNCHANGED <<balanceVars, status, holdVars>>
    BY <1>5 DEF ExpiryPasses
  <2>3. TxTypeOK' /\ MovesForward
    BY <1>1, <1>5 DEF TxTypeOK, MovesForward, orderVars
  <2>4. MadeKnown'
    BY <1>1, <1>5, <2>2 DEF MadeKnown, holdVars, orderVars
  <2>5. ASSUME NEW x \in Sessions PROVE Spares(x)
    BY <1>5, <2>2 DEF Spares, balanceVars, holdVars, orderVars
  <2>6. QED
    BY <1>5, <2>1, <2>3, <2>4, <2>5, StepIsSound
<1>6. QED
  BY <1>3, <1>4, <1>5 DEF OneStatement

LEMMA CommitIsSound ==
  ASSUME TxInvariant, NEW s \in Sessions, Commit(s)
  PROVE  Sound
BY CommitCreateIsSound, CommitSettleIsSound DEF Commit

\* A step that changes nothing.
LEMMA StutterIsSound ==
  ASSUME TxInvariant, UNCHANGED txVars
  PROVE  Sound
<1>1. UNCHANGED <<vars, orderVars, lock, tx>>
  BY DEF txVars
<1>2. TxTypeOK' /\ MovesForward
  BY <1>1 DEF TxInvariant, TxTypeOK, MovesForward, orderVars
<1>3. MadeKnown'
  BY <1>1 DEF TxInvariant, MadeKnown, vars, holdVars, orderVars
<1>4. ASSUME NEW x \in Sessions PROVE Spares(x)
  BY <1>1 DEF Spares, vars, balanceVars, holdVars, orderVars
<1>5. QED
  BY <1>1, <1>2, <1>3, <1>4, StepIsSound

LEMMA TxStepIsSound ==
  ASSUME TxInvariant, [TxNext]_txVars
  PROVE  Sound
<1>1. ASSUME NEW s \in Sessions, Statement(s)
      PROVE  Sound
  <2>1. CASE DeadlockVictim(s)
    BY <2>1, LeaveIsSound DEF DeadlockVictim
  <2>2. CASE LockOrder(s) \/ LockReservation(s) \/ LockBalance(s)
    BY <2>2, LockOrderIsSound, LockReservationIsSound, LockBalanceIsSound
  <2>3. CASE ListOthers(s) \/ CloseOrder(s)
    BY <2>3, ListOthersIsSound, CloseOrderIsSound
  <2>4. CASE LockForCreate(s) \/ InsertReservation(s)
    BY <2>4, LockForCreateIsSound, InsertIsSound
  <2>5. CASE Commit(s)
    BY <2>5, CommitIsSound
  <2>6. QED
    BY <1>1, <2>1, <2>2, <2>3, <2>4, <2>5 DEF Statement
<1>2. ASSUME NEW s \in Sessions, Crash(s)
      PROVE  Sound
  BY <1>2, LeaveIsSound DEF Crash
<1>3. CASE OneStatement
  BY <1>3, OneStatementIsSound
<1>4. CASE UNCHANGED txVars
  BY <1>4, StutterIsSound
<1>5. ASSUME NEW s \in Sessions,
             BeginSettle(s) \/ BeginExpire(s) \/ BeginOrder(s) \/ BeginCreate(s)
      PROVE  Sound
  BY <1>5, BeginsAreSound
<1>6. QED
  BY <1>1, <1>2, <1>3, <1>4, <1>5 DEF TxNext

LEMMA TxInitIsSound == TxInit => TxInvariant
<1> SUFFICES ASSUME TxInit PROVE TxInvariant
  OBVIOUS
<1>1. StockInvariant
  BY InitStock DEF TxInit
<1>2. TxTypeOK
  BY IdleRelies DEF TxInit, TxTypeOK
<1>3. MadeKnown
  BY DEF TxInit, Init, MadeKnown
<1>4. \A s \in Sessions : SessionOK(s, tx[s])
  BY IdleRelies DEF TxInit
<1>5. QED
  BY <1>1, <1>2, <1>3, <1>4 DEF TxInvariant

-----------------------------------------------------------------------------
(* The theorems.                                                           *)

\* Whatever statements of whatever sessions run in between, a transaction has
\* locked what it is going to change, and the stock accepts its commit.
THEOREM TxIsSafe == TxSpec => []TxInvariant
<1>1. TxInvariant /\ [TxNext]_txVars => TxInvariant'
  BY TxStepIsSound DEF Sound
<1>2. QED
  BY TxInitIsSound, <1>1, PTL DEF TxSpec

\* The transactions' own state keeps its type; in particular an order has no
\* status but those of an order, whatever closes it.
THEOREM TxTypeCorrect == TxSpec => []TxTypeOK
<1>1. TxInvariant => TxTypeOK
  BY DEF TxInvariant
<1>2. QED
  BY <1>1, TxIsSafe, PTL

\* Statement by statement the sessions implement the stock's promise: every
\* commit is one transaction of it, everything else changes no stock.
THEOREM TxKeepsPromise == TxSpec => PromiseSpec
<1>1. TxInit => Init
  BY DEF TxInit
<1>2. TxInvariant /\ [TxNext]_txVars => [PromiseNext]_vars
  BY TxStepIsSound DEF Sound
<1>3. QED
  BY <1>1, <1>2, TxIsSafe, PTL DEF TxSpec, PromiseSpec

\* So nothing is oversold whatever statements run side by side.
THEOREM TxNeverOversells == TxSpec => []NeverOversold
<1>1. StockInvariant => NeverOversold
  BY DEF StockInvariant
<1>2. QED
  BY <1>1, TxKeepsPromise, PromiseKept, PTL

\* And a reservation that two sessions go after is settled by one of them.
THEOREM TxSettlesForGood == TxSpec => SettledForGood
BY TxKeepsPromise, PromiseSettlesForGood, PTL

\* However cancellations, fulfilments, sweeps and payments overlap, an order moves
\* forward: from waiting to paid or cancelled, from paid to completed.
THEOREM TxOrdersMoveForward == TxSpec => [][MovesForward]_txVars
<1>1. TxInvariant /\ [TxNext]_txVars => [MovesForward]_txVars
  BY TxStepIsSound DEF Sound
<1>2. QED
  BY <1>1, TxIsSafe, PTL DEF TxSpec

\* No sweep, and no cancellation, cancels an order whose payment is confirmed.
THEOREM PaidOrdersKept == TxSpec => PaidOrderKept
<1>1. [MovesForward]_txVars
        => [\A o \in Orders :
              orderStatus[o] = "Payment Confirmed" => orderStatus'[o] # "Cancelled"]_txVars
  BY DEF MovesForward
<1>2. QED
  BY <1>1, TxOrdersMoveForward, PTL DEF PaidOrderKept

-----------------------------------------------------------------------------
(* The orders that the sweep cancels, however many sweeps overlap.  What    *)
(* keeps an order that waits for payment from being left to nobody is a     *)
(* reservation of it that has not expired and that no sweep is about to     *)
(* expire without closing the order.                                        *)

\* The sweep t is about to commit without closing an order.
LeavesOpen(t) == t.op = "expire" /\ t.at = "commit" /\ t.order = NoOrder

\* The order that the sweep t closes is that of the reservation it has marked.
Owns(t) ==
  t.op = "expire" /\ t.order \in Orders => \A r \in t.done : reference[r] = t.order

WaitingCovered ==
  \A o \in Orders \ skewed : \A r \in Reservations :
    orderStatus[o] = "Stock Reserved" /\ reference[r] = o =>
      \E x \in Reservations : reference[x] = o /\ status[x] # "EXPIRED" /\ x \notin LeftOpen

SweepInvariant ==
  /\ TxInvariant /\ WaitingCovered
  /\ \A s \in Sessions : Owns(tx[s])

\* A step that expires no reservation.
ExpiresNothing ==
  /\ \A r \in Reservations : status[r] # "NONE" => reference'[r] = reference[r]
  /\ \A r \in Reservations : status'[r] = "EXPIRED" => status[r] = "EXPIRED"
  /\ \A o \in Orders :
       orderStatus'[o] = "Stock Reserved" => orderStatus[o] = "Stock Reserved"
  /\ skewed \subseteq skewed'

\* The reservations that a sweep leaves open are ACTIVE.
LEMMA LeftOpenActive ==
  ASSUME TxInvariant, NEW x, x \in LeftOpen
  PROVE  x \in Reservations /\ status[x] = "ACTIVE"
<1>1. PICK s \in Sessions : tx[s].op = "expire" /\ x \in tx[s].done
  BY DEF LeftOpen
<1>2. PICK t : t = tx[s]
  OBVIOUS
<1>3. t \in Transactions /\ SessionOK(s, t) /\ t.op = "expire" /\ x \in t.done
  BY <1>1, <1>2 DEF TxInvariant, TxTypeOK
<1>4. QED
  BY <1>3 DEF Transactions, SessionOK, Settles

\* A session's statement leaves open what its transaction then does.
LEMMA LeftOpenAfter ==
  ASSUME TxTypeOK, NEW s \in Sessions, NEW u, tx' = [tx EXCEPT ![s] = u],
         NEW x, x \in LeftOpen'
  PROVE  x \in LeftOpen \/ (LeavesOpen(u) /\ x \in u.done)
<1>1. PICK y \in Sessions : LeavesOpen(tx'[y]) /\ x \in tx'[y].done
  BY DEF LeftOpen, LeavesOpen
<1>2. CASE y = s
  BY <1>1, <1>2 DEF TxTypeOK
<1>3. CASE y # s
  <2>1. tx'[y] = tx[y]
    BY <1>3 DEF TxTypeOK
  <2>2. QED
    BY <1>1, <2>1 DEF LeftOpen, LeavesOpen
<1>4. QED
  BY <1>2, <1>3

\* A step that expires nothing leaves each waiting order the reservation it has,
\* or makes it one, unless a sweep leaves that one open.
LEMMA CoverKept ==
  ASSUME SweepInvariant, ExpiresNothing, \A x : x \in LeftOpen' => x \in LeftOpen
  PROVE  WaitingCovered'
<1>1. TxInvariant /\ MadeKnown /\ WaitingCovered
  BY DEF SweepInvariant, TxInvariant
<1>2. ASSUME NEW o \in Orders \ skewed', NEW r \in Reservations,
             orderStatus'[o] = "Stock Reserved", reference'[r] = o
      PROVE  \E x \in Reservations :
               reference'[x] = o /\ status'[x] # "EXPIRED" /\ x \notin LeftOpen'
  <2>1. o \notin skewed /\ orderStatus[o] = "Stock Reserved"
    BY <1>2 DEF ExpiresNothing
  <2>2. CASE reference[r] = o
    <3>1. PICK x \in Reservations : reference[x] = o /\ status[x] # "EXPIRED" /\ x \notin LeftOpen
      BY <1>1, <2>1, <2>2 DEF WaitingCovered
    <3>2. status[x] # "NONE"
      BY <1>1, <3>1, NamesAssumption DEF MadeKnown
    <3>3. reference'[x] = o /\ status'[x] # "EXPIRED" /\ x \notin LeftOpen'
      BY <3>1, <3>2 DEF ExpiresNothing
    <3>4. QED
      BY <3>3
  <2>3. CASE reference[r] # o
    <3>1. status[r] = "NONE"
      BY <1>2, <2>3 DEF ExpiresNothing
    <3>2. status'[r] # "EXPIRED"
      BY <3>1 DEF ExpiresNothing
    <3>3. r \notin LeftOpen'
      BY <1>1, <3>1, LeftOpenActive
    <3>4. QED
      BY <1>2, <3>2, <3>3
  <2>4. QED
    BY <2>2, <2>3
<1>3. QED
  BY <1>2 DEF WaitingCovered

\* A sweep goes on closing the order of the reservation it has marked.
LEMMA OwnsKept ==
  ASSUME TxInvariant, NEW s \in Sessions, Owns(tx[s]), NEW t, t = tx[s],
         \A r \in Reservations : status[r] # "NONE" => reference'[r] = reference[r]
  PROVE  Owns(t)'
<1>1. t \in Transactions /\ SessionOK(s, t) /\ Owns(t)
  BY DEF TxInvariant, TxTypeOK
<1>2. ASSUME t.op = "expire", t.order \in Orders, NEW r \in t.done
      PROVE  reference'[r] = t.order
  <2>1. r \in Reservations /\ status[r] = "ACTIVE"
    BY <1>1, <1>2 DEF Transactions, SessionOK, Settles
  <2>2. QED
    BY <1>1, <1>2, <2>1 DEF Owns
<1>3. QED
  BY <1>2 DEF Owns

\* One session's next statement or its end keeps the invariant, if the orders are
\* covered and its transaction owns the order that it closes.
LEMMA SweepStep ==
  ASSUME SweepInvariant, TxInvariant', WaitingCovered',
         NEW s \in Sessions, NEW u, tx' = [tx EXCEPT ![s] = u], Owns(u)',
         \A r \in Reservations : status[r] # "NONE" => reference'[r] = reference[r]
  PROVE  SweepInvariant'
<1>1. TxInvariant /\ tx \in [Sessions -> Transactions]
  BY DEF SweepInvariant, TxInvariant, TxTypeOK
<1>2. ASSUME NEW x \in Sessions PROVE Owns(tx[x])'
  <2>1. CASE x = s
    <3>1. tx'[x] = u
      BY <1>1, <2>1
    <3>2. QED
      BY <3>1
  <2>2. CASE x # s
    <3>1. PICK t : t = tx[x]
      OBVIOUS
    <3>2. tx'[x] = t
      BY <1>1, <2>2, <3>1
    <3>3. Owns(t)'
      BY <1>1, <3>1, OwnsKept DEF SweepInvariant
    <3>4. QED
      BY <3>2, <3>3
  <2>3. QED
    BY <2>1, <2>2
<1>3. QED
  BY <1>2 DEF SweepInvariant

\* What has marked nothing, or is not at its decision about the order yet, leaves
\* nothing open and closes nothing.
Undecided(u) ==
  u.op # "expire" \/ u.done = {} \/ (u.order \notin Orders /\ u.at # "commit")

LEMMA UndecidedOwns ==
  ASSUME NEW u, Undecided(u)
  PROVE  Owns(u)' /\ ~\E x : LeavesOpen(u) /\ x \in u.done
BY DEF Undecided, Owns, LeavesOpen

\* A session's step to such a transaction that expires nothing.
LEMMA UndecidedStep ==
  ASSUME SweepInvariant, TxInvariant', ExpiresNothing,
         NEW s \in Sessions, NEW u, tx' = [tx EXCEPT ![s] = u], Undecided(u)
  PROVE  SweepInvariant'
<1>1. TxTypeOK
  BY DEF SweepInvariant, TxInvariant
<1>2. Owns(u)' /\ \A x : x \in LeftOpen' => x \in LeftOpen
  BY <1>1, UndecidedOwns, LeftOpenAfter
<1>3. WaitingCovered'
  BY <1>2, CoverKept
<1>4. QED
  BY <1>2, <1>3, SweepStep DEF ExpiresNothing

\* A statement of it that commits nothing.
LEMMA StatementSweeps ==
  ASSUME SweepInvariant, TxInvariant', NEW s \in Sessions, NEW u,
         tx' = [tx EXCEPT ![s] = u], UNCHANGED <<vars, orderVars>>, Undecided(u)
  PROVE  SweepInvariant'
<1>1. ExpiresNothing
  BY DEF ExpiresNothing, vars, orderVars
<1>2. QED
  BY <1>1, UndecidedStep

LEMMA IdleUndecided == Undecided(Idle)
BY DEF Undecided, Idle, Tx

LEMMA LeaveSweeps ==
  ASSUME SweepInvariant, TxInvariant', NEW s \in Sessions, Leave(s)
  PROVE  SweepInvariant'
<1>1. tx' = [tx EXCEPT ![s] = Idle] /\ UNCHANGED <<vars, orderVars>>
  BY DEF Leave
<1>2. QED
  BY <1>1, IdleUndecided, StatementSweeps

LEMMA BeginSweeps ==
  ASSUME SweepInvariant, TxInvariant', NEW s \in Sessions,
         BeginSettle(s) \/ BeginExpire(s) \/ BeginOrder(s) \/ BeginCreate(s)
  PROVE  SweepInvariant'
<1>1. \E t : Begin(s, t) /\ t.done = {}
  <2>1. ASSUME NEW op, NEW at, NEW now, NEW todo, NEW order, NEW request,
               Begin(s, Tx(op, at, now, todo, order, request))
        PROVE  \E t : Begin(s, t) /\ t.done = {}
    BY <2>1 DEF Tx
  <2>2. QED
    BY <2>1 DEF BeginSettle, BeginExpire, BeginOrder, BeginCreate
<1>2. PICK t : Begin(s, t) /\ t.done = {}
  BY <1>1
<1>3. tx' = [tx EXCEPT ![s] = t] /\ UNCHANGED <<vars, orderVars>>
  BY <1>2 DEF Begin
<1>4. Undecided(t)
  BY <1>2 DEF Undecided
<1>5. QED
  BY <1>3, <1>4, StatementSweeps

\* The statements that lock something and change nothing.
LEMMA LockingSweeps ==
  ASSUME SweepInvariant, TxInvariant', NEW s \in Sessions,
         \/ LockOrder(s) \/ LockReservation(s) \/ LockBalance(s)
         \/ LockForCreate(s) \/ InsertReservation(s)
  PROVE  SweepInvariant'
<1>1. PICK t : t = tx[s]
  OBVIOUS
<1>2. t \in Transactions /\ Phases(s, t) /\ tx \in [Sessions -> Transactions]
  BY <1>1 DEF SweepInvariant, TxInvariant, TxTypeOK, SessionOK
<1>3. ASSUME NEW u, tx' = [tx EXCEPT ![s] = u], UNCHANGED <<vars, orderVars>>, Undecided(u)
      PROVE  SweepInvariant'
  BY <1>3, StatementSweeps
<1>4. CASE Leave(s)
  BY <1>4, LeaveSweeps
<1>5. ASSUME NEW v \in Transactions, NEW todo \in SUBSET Reservations, NEW then,
             NEW u \in NextOf(v, todo, then)
      PROVE  u.op = v.op /\ u.done = v.done /\ u.order = v.order /\ u.at \in {then, "reservation"}
  <2>1. \E now, at : /\ at \in {then, "reservation"}
                     /\ u = [v EXCEPT !.todo = todo, !.now = now, !.at = at]
    BY DEF NextOf
  <2>2. QED
    BY <2>1 DEF Transactions
<1>6. CASE LockOrder(s)
  <2>1. ASSUME NEW u \in NextOf(t, ActiveFor(t.order), "commit"), tx' = [tx EXCEPT ![s] = u],
               UNCHANGED <<vars, orderVars>>
        PROVE  SweepInvariant'
    <3>1. t.op \in OrderOps /\ ActiveFor(t.order) \in SUBSET Reservations
      BY <1>1, <1>2, <1>6 DEF LockOrder, Phases, ActiveFor, WithStatus
    <3>2. Undecided(u)
      BY <1>2, <1>5, <3>1 DEF Undecided, OrderOps
    <3>3. QED
      BY <1>3, <2>1, <3>2
  <2>2. QED
    BY <1>1, <1>4, <1>6, <2>1 DEF LockOrder
<1>7. CASE LockReservation(s)
  <2>1. t.op = "expire" => t.at = "reservation" /\ t.now \in t.todo /\ t.order \notin Orders
    BY <1>1, <1>2, <1>7 DEF LockReservation, Phases, OrderOps
  <2>2. ASSUME tx' = [tx EXCEPT ![s].at = "stock"], UNCHANGED <<vars, orderVars>>
        PROVE  SweepInvariant'
    <3>1. PICK u : u = [t EXCEPT !.at = "stock"]
      OBVIOUS
    <3>2. Undecided(u)
      BY <1>2, <2>1, <3>1 DEF Undecided, Transactions
    <3>3. tx' = [tx EXCEPT ![s] = u]
      BY <1>1, <2>2, <3>1
    <3>4. QED
      BY <1>3, <2>2, <3>2, <3>3
  <2>3. ASSUME NEW u \in NextOf(t, t.todo \ {t.now}, "commit"), tx' = [tx EXCEPT ![s] = u],
               UNCHANGED <<vars, orderVars>>
        PROVE  SweepInvariant'
    <3>1. t.todo \ {t.now} \in SUBSET Reservations
      BY <1>2 DEF Transactions
    <3>2. u.op = t.op /\ u.done = t.done
      BY <1>2, <1>5, <2>3, <3>1
    <3>3. t.op = "expire" => t.done = {}
      BY <1>2, <2>1 DEF Phases
    <3>4. QED
      BY <1>3, <2>3, <3>2, <3>3 DEF Undecided
  <2>4. QED
    BY <1>1, <1>4, <1>7, <2>2, <2>3 DEF LockReservation
<1>8. CASE LockBalance(s)
  <2> DEFINE v    == [t EXCEPT !.done = @ \cup {t.now}]
             then == IF t.op = "expire" THEN "others" ELSE "commit"
  <2>1. ASSUME NEW u \in NextOf(v, t.todo \ {t.now}, then), tx' = [tx EXCEPT ![s] = u],
               UNCHANGED <<vars, orderVars>>
        PROVE  SweepInvariant'
    <3>1. t.at = "stock" /\ t.op # "create"
      BY <1>1, <1>8 DEF LockBalance
    <3>2. t.now \in t.todo /\ t.todo \in SUBSET Reservations /\ t.done \in SUBSET Reservations
      BY <1>2, <3>1 DEF Phases, Transactions
    <3>3. v \in Transactions /\ v.op = t.op /\ v.order = t.order
      BY <1>2, <3>2 DEF Transactions
    <3>4. t.op = "expire" => t.order \notin Orders
      BY <1>2, <3>1 DEF Phases, OrderOps
    <3>5. t.todo \ {t.now} \in SUBSET Reservations
      BY <3>2
    <3> HIDE DEF v
    <3>6. u.op = v.op /\ u.done = v.done /\ u.order = v.order /\ u.at \in {then, "reservation"}
      BY <1>5, <2>1, <3>3, <3>5
    <3>7. Undecided(u)
      BY <3>3, <3>4, <3>6 DEF Undecided
    <3>8. QED
      BY <1>3, <2>1, <3>7
  <2>2. QED
    BY <1>1, <1>4, <1>8, <2>1 DEF LockBalance
<1>9. CASE LockForCreate(s)
  <2>1. ASSUME tx' = [tx EXCEPT ![s].at = "insert"], UNCHANGED <<vars, orderVars>>
        PROVE  SweepInvariant'
    <3>1. PICK u : u = [t EXCEPT !.at = "insert"]
      OBVIOUS
    <3>2. t.op = "create"
      BY <1>1, <1>9 DEF LockForCreate
    <3>3. Undecided(u)
      BY <1>2, <3>1, <3>2 DEF Undecided, Transactions
    <3>4. tx' = [tx EXCEPT ![s] = u]
      BY <1>1, <2>1, <3>1
    <3>5. QED
      BY <1>3, <2>1, <3>3, <3>4
  <2>2. QED
    BY <1>1, <1>4, <1>9, <2>1 DEF LockForCreate
<1>10. CASE InsertReservation(s)
  <2>1. ASSUME tx' = [tx EXCEPT ![s].at = "commit", ![s].done = {t.now}],
               UNCHANGED <<vars, orderVars>>
        PROVE  SweepInvariant'
    <3>1. PICK u : u = [t EXCEPT !.at = "commit", !.done = {t.now}]
      OBVIOUS
    <3>2. t.op = "create"
      BY <1>1, <1>2, <1>10 DEF InsertReservation, Phases
    <3>3. Undecided(u)
      BY <1>2, <3>1, <3>2 DEF Undecided, Transactions
    <3>4. tx' = [tx EXCEPT ![s] = u]
      BY <1>1, <1>2, <2>1, <3>1 DEF Transactions
    <3>5. QED
      BY <1>3, <2>1, <3>3, <3>4
  <2>2. QED
    BY <1>1, <1>4, <1>10, <2>1 DEF InsertReservation
<1>11. QED
  BY <1>6, <1>7, <1>8, <1>9, <1>10

\* The sweep's listing finds a reservation of the order that no sweep leaves
\* open, or goes on to cancel it, or the order is left to nobody.
LEMMA ListOthersSweeps ==
  ASSUME SweepInvariant, TxInvariant', NEW s \in Sessions, ListOthers(s)
  PROVE  SweepInvariant'
<1>1. PICK t : t = tx[s]
  OBVIOUS
<1>2. PICK o : o = CHOOSE x \in {reference[r] : r \in t.done} : TRUE
  OBVIOUS
<1>3. PICK u : u = IF o # NoOrder /\ NoneLeft(o, t.done)
                   THEN [t EXCEPT !.at = "close", !.order = o]
                   ELSE [t EXCEPT !.at = "commit"]
  OBVIOUS
<1>4. PICK others : others = ActiveFor(o) \ t.done
  OBVIOUS
<1>5. /\ t.at = "others" /\ tx' = [tx EXCEPT ![s] = u]
      /\ UNCHANGED <<vars, reference, orderStatus>>
      /\ skewed' = IF o # NoOrder /\ others # {} /\ others \subseteq LeftOpen
                   THEN skewed \cup {o} ELSE skewed
  BY <1>1, <1>2, <1>3, <1>4 DEF ListOthers
<1>6. t \in Transactions /\ Phases(s, t) /\ TxTypeOK /\ WaitingCovered
  BY <1>1 DEF SweepInvariant, TxInvariant, TxTypeOK, SessionOK
<1>7. /\ t.op = "expire" /\ t.order \notin Orders
      /\ \A r, x \in t.done : r = x
  BY <1>5, <1>6 DEF Phases, OrderOps
<1>8. ASSUME NEW r \in t.done PROVE reference[r] = o
  <2>1. o \in {reference[x] : x \in t.done}
    BY <1>2, <1>8
  <2>2. QED
    BY <1>7, <1>8, <2>1
<1>9. UNCHANGED <<reference, orderStatus, status>>
  BY <1>5 DEF vars
<1>10. u.done = t.done /\ (u.order = o \/ u.order = t.order)
  BY <1>3, <1>6 DEF Transactions
<1>11. Owns(u)'
  BY <1>7, <1>8, <1>9, <1>10 DEF Owns
<1>12. ASSUME NEW p \in Orders \ skewed', NEW r \in Reservations,
              orderStatus'[p] = "Stock Reserved", reference'[r] = p
       PROVE  \E x \in Reservations :
                reference'[x] = p /\ status'[x] # "EXPIRED" /\ x \notin LeftOpen'
  <2>1. p \notin skewed
    BY <1>5, <1>12
  <2>2. PICK x \in Reservations : reference[x] = p /\ status[x] # "EXPIRED" /\ x \notin LeftOpen
    BY <1>6, <1>9, <1>12, <2>1 DEF WaitingCovered
  <2>3. CASE LeavesOpen(u) /\ x \in t.done
    <3>1. o = p
      BY <1>8, <2>2, <2>3
    <3>2. p # NoOrder
      BY NamesAssumption
    <3>3. u.at = "commit"
      BY <2>3 DEF LeavesOpen
    <3>4. ~NoneLeft(o, t.done)
      BY <1>3, <1>6, <3>1, <3>2, <3>3 DEF Transactions
    <3>5. others # {}
      BY <1>4, <3>4 DEF NoneLeft
    <3>6. ~(others \subseteq LeftOpen)
      BY <1>5, <1>12, <3>1, <3>2, <3>5
    <3>7. PICK y \in others : y \notin LeftOpen
      BY <3>6
    <3>8. y \in Reservations /\ status[y] = "ACTIVE" /\ reference[y] = p /\ y \notin t.done
      BY <1>4, <3>1, <3>7 DEF ActiveFor, WithStatus
    <3>9. y \notin LeftOpen'
      BY <1>5, <1>6, <1>10, <3>7, <3>8, LeftOpenAfter
    <3>10. QED
      BY <1>9, <3>8, <3>9
  <2>4. CASE ~(LeavesOpen(u) /\ x \in t.done)
    <3>1. x \notin LeftOpen'
      BY <1>5, <1>6, <1>10, <2>2, <2>4, LeftOpenAfter
    <3>2. QED
      BY <1>9, <2>2, <3>1
  <2>5. QED
    BY <2>3, <2>4
<1>13. WaitingCovered'
  BY <1>12 DEF WaitingCovered
<1>14. QED
  BY <1>5, <1>9, <1>11, <1>13, SweepStep

\* The order that the sweep means to close waits no longer, or will be closed.
LEMMA CloseOrderSweeps ==
  ASSUME SweepInvariant, TxInvariant', NEW s \in Sessions, CloseOrder(s)
  PROVE  SweepInvariant'
<1>1. PICK t : t = tx[s]
  OBVIOUS
<1>2. /\ t \in Transactions /\ Phases(s, t) /\ Owns(t) /\ TxTypeOK /\ WaitingCovered
  BY <1>1 DEF SweepInvariant, TxInvariant, TxTypeOK, SessionOK
<1>3. t.at = "close" /\ UNCHANGED <<vars, orderVars>>
  BY <1>1 DEF CloseOrder
<1>4. t.op = "expire" /\ t.order \in Orders
  BY <1>2, <1>3 DEF Phases
<1>5. \A r \in t.done : reference[r] = t.order
  BY <1>2, <1>4 DEF Owns
<1>6. UNCHANGED <<reference, orderStatus, status, skewed>>
  BY <1>3 DEF vars, orderVars
<1>7. ASSUME NEW u, tx' = [tx EXCEPT ![s] = u], u.done = t.done,
             u.order = t.order \/ (u.order = NoOrder /\ orderStatus[t.order] # "Stock Reserved")
      PROVE  SweepInvariant'
  <2>1. Owns(u)'
    BY <1>5, <1>6, <1>7, NamesAssumption DEF Owns
  <2>2. ASSUME NEW p \in Orders \ skewed', NEW r \in Reservations,
               orderStatus'[p] = "Stock Reserved", reference'[r] = p
        PROVE  \E x \in Reservations :
                 reference'[x] = p /\ status'[x] # "EXPIRED" /\ x \notin LeftOpen'
    <3>1. PICK x \in Reservations : reference[x] = p /\ status[x] # "EXPIRED" /\ x \notin LeftOpen
      BY <1>2, <1>6, <2>2 DEF WaitingCovered
    <3>2. ~(LeavesOpen(u) /\ x \in u.done)
      BY <1>4, <1>5, <1>6, <1>7, <2>2, <3>1, NamesAssumption DEF LeavesOpen
    <3>3. x \notin LeftOpen'
      BY <1>2, <1>7, <3>1, <3>2, LeftOpenAfter
    <3>4. QED
      BY <1>6, <3>1, <3>3
  <2>3. WaitingCovered'
    BY <2>2 DEF WaitingCovered
  <2>4. QED
    BY <1>6, <1>7, <2>1, <2>3, SweepStep
<1>8. ASSUME tx' = [tx EXCEPT ![s].at = "commit"]
      PROVE  SweepInvariant'
  <2>1. PICK u : u = [t EXCEPT !.at = "commit"]
    OBVIOUS
  <2>2. u.done = t.done /\ u.order = t.order
    BY <1>2, <2>1 DEF Transactions
  <2>3. tx' = [tx EXCEPT ![s] = u]
    BY <1>1, <1>8, <2>1
  <2>4. QED
    BY <1>7, <2>2, <2>3
<1>9. ASSUME tx' = [tx EXCEPT ![s].at = "commit", ![s].order = NoOrder],
             orderStatus[t.order] # "Stock Reserved"
      PROVE  SweepInvariant'
  <2>1. PICK u : u = [t EXCEPT !.at = "commit", !.order = NoOrder]
    OBVIOUS
  <2>2. u.done = t.done /\ u.order = NoOrder
    BY <1>2, <2>1 DEF Transactions
  <2>3. tx' = [tx EXCEPT ![s] = u]
    BY <1>1, <1>2, <1>9, <2>1 DEF Transactions, TxTypeOK
  <2>4. QED
    BY <1>7, <1>9, <2>2, <2>3
<1>10. QED
  BY <1>1, <1>8, <1>9 DEF CloseOrder

\* COMMIT of the sweep's transaction: it closes the order, or it was among those
\* that leave it open, and the reservation that covers the order is another.
LEMMA CommitExpirySweeps ==
  ASSUME SweepInvariant, TxInvariant', NEW s \in Sessions, CommitSettle(s),
         tx[s].op = "expire", tx' = [tx EXCEPT ![s] = Idle]
  PROVE  SweepInvariant'
<1>1. PICK t : t = tx[s]
  OBVIOUS
<1>2. /\ t \in Transactions /\ Phases(s, t) /\ Owns(t) /\ TxTypeOK /\ WaitingCovered
  BY <1>1 DEF SweepInvariant, TxInvariant, TxTypeOK, SessionOK
<1>3. /\ t.op = "expire" /\ t.at = "commit" /\ reference' = reference /\ skewed' = skewed
      /\ Unreserve(t.done, "EXPIRED")
      /\ orderStatus' = [o \in Orders |-> IF o = t.order THEN "Cancelled" ELSE orderStatus[o]]
  BY <1>1 DEF CommitSettle, Outcome, OrderOutcome
<1>4. \A x \in Reservations : status'[x] = IF x \in t.done THEN "EXPIRED" ELSE status[x]
  BY <1>3 DEF Unreserve, SetStatus
<1>5. \A x : x \in LeftOpen' => x \in LeftOpen
  BY <1>2, IdleUndecided, UndecidedOwns, LeftOpenAfter
<1>6. ASSUME NEW o \in Orders \ skewed', NEW r \in Reservations,
             orderStatus'[o] = "Stock Reserved", reference'[r] = o
      PROVE  \E x \in Reservations :
               reference'[x] = o /\ status'[x] # "EXPIRED" /\ x \notin LeftOpen'
  <2>1. o # t.order /\ orderStatus[o] = "Stock Reserved"
    BY <1>3, <1>6
  <2>2. PICK x \in Reservations : reference[x] = o /\ status[x] # "EXPIRED" /\ x \notin LeftOpen
    BY <1>2, <1>3, <1>6, <2>1 DEF WaitingCovered
  <2>3. x \notin t.done
    <3>1. CASE t.order \in Orders
      BY <1>2, <1>3, <2>1, <2>2, <3>1 DEF Owns
    <3>2. CASE t.order \notin Orders
      <4>1. t.order = NoOrder
        BY <1>2, <3>2 DEF Transactions
      <4>2. t.done \subseteq LeftOpen
        BY <1>1, <1>3, <4>1 DEF LeftOpen
      <4>3. QED
        BY <2>2, <4>2
    <3>3. QED
      BY <3>1, <3>2
  <2>4. QED
    BY <1>3, <1>4, <1>5, <2>2, <2>3
<1>7. WaitingCovered'
  BY <1>6 DEF WaitingCovered
<1>8. Owns(Idle)'
  BY IdleUndecided, UndecidedOwns
<1>9. QED
  BY <1>3, <1>7, <1>8, SweepStep

\* Every other COMMIT.
LEMMA CommitSweeps ==
  ASSUME SweepInvariant, TxInvariant', NEW s \in Sessions, Commit(s)
  PROVE  SweepInvariant'
<1>1. PICK t : t = tx[s]
  OBVIOUS
<1>2. /\ t \in Transactions /\ SessionOK(s, t) /\ tx \in [Sessions -> Transactions]
      /\ TxTypeOK /\ StockInvariant
  BY <1>1 DEF SweepInvariant, TxInvariant, TxTypeOK
<1>3. tx' = [tx EXCEPT ![s] = Idle]
  BY DEF Commit
<1>4. ASSUME ExpiresNothing PROVE SweepInvariant'
  BY <1>3, <1>4, IdleUndecided, UndecidedStep
<1>5. CASE CommitCreate(s)
  <2>1. /\ t.op = "create" /\ t.at = "commit"
        /\ status'    = [status EXCEPT ![t.now] = "ACTIVE"]
        /\ reference' = [reference EXCEPT ![t.now] = t.request.order]
        /\ orderStatus' = orderStatus /\ skewed' = skewed
    BY <1>1, <1>5 DEF CommitCreate
  <2>2. status[t.now] = "NONE"
    BY <1>2, <2>1 DEF SessionOK, Makes
  <2>3. status \in [Reservations -> Statuses] /\ reference \in [Reservations -> Orders \cup {NoOrder}]
    BY <1>2 DEF StockInvariant, TypeOK, TxTypeOK
  <2>4. ExpiresNothing
    BY <2>1, <2>2, <2>3 DEF ExpiresNothing
  <2>5. QED
    BY <1>4, <2>4
<1>6. CASE CommitSettle(s) /\ t.op = "expire"
  BY <1>1, <1>3, <1>6, CommitExpirySweeps
<1>7. CASE CommitSettle(s) /\ t.op # "expire"
  <2>1. /\ t.op # "create" /\ t.at = "commit" /\ reference' = reference /\ skewed' = skewed
        /\ IF Outcome(t.op) = "FULFILLED" THEN Sell(t.done) ELSE Unreserve(t.done, Outcome(t.op))
        /\ orderStatus' =
             [o \in Orders |-> IF o = t.order THEN OrderOutcome(t.op) ELSE orderStatus[o]]
    BY <1>1, <1>7 DEF CommitSettle
  <2>2. t.op \in {"release", "cancel", "fulfill", "cancelOrder", "fulfillOrder"}
    BY <1>2, <1>7, <2>1 DEF Transactions, SettleOps, OrderOps, SessionOK, Phases
  <2>3. Outcome(t.op) # "EXPIRED"
    BY <2>2 DEF Outcome
  <2>4. status' = SetStatus(t.done, Outcome(t.op))
    BY <2>1 DEF Sell, Unreserve
  <2>5. ExpiresNothing
    BY <2>1, <2>3, <2>4 DEF ExpiresNothing, SetStatus, OrderOutcome
  <2>6. QED
    BY <1>4, <2>5
<1>8. QED
  BY <1>5, <1>6, <1>7 DEF Commit

\* A step that leaves the transactions alone.
LEMMA OutsideSweeps ==
  ASSUME SweepInvariant, TxInvariant', ExpiresNothing, tx' = tx
  PROVE  SweepInvariant'
<1>1. WaitingCovered'
  <2>1. \A x : x \in LeftOpen' => x \in LeftOpen
    BY DEF LeftOpen
  <2>2. QED
    BY <2>1, CoverKept
<1>2. ASSUME NEW x \in Sessions PROVE Owns(tx[x])'
  <2>1. PICK t : t = tx[x]
    OBVIOUS
  <2>2. Owns(t)'
    BY <2>1, OwnsKept DEF SweepInvariant, ExpiresNothing
  <2>3. QED
    BY <2>1, <2>2
<1>3. QED
  BY <1>1, <1>2 DEF SweepInvariant

LEMMA OneStatementSweeps ==
  ASSUME SweepInvariant, TxInvariant', OneStatement
  PROVE  SweepInvariant'
<1>1. orderStatus \in [Orders -> {"Stock Reserved", "Payment Confirmed", "Completed", "Cancelled"}]
  BY DEF SweepInvariant, TxInvariant, TxTypeOK
<1>2. /\ UNCHANGED <<status, reference, skewed, tx>>
      /\ orderStatus' = orderStatus
           \/ \E o \in Orders : orderStatus' = [orderStatus EXCEPT ![o] = "Payment Confirmed"]
  BY DEF OneStatement, ConfirmPayment, AdjustStock, RecordAdjustment, ExpiryPasses, vars, orderVars
<1>3. ExpiresNothing
  BY <1>1, <1>2 DEF ExpiresNothing
<1>4. QED
  BY <1>2, <1>3, OutsideSweeps

LEMMA SweepNext ==
  ASSUME SweepInvariant, [TxNext]_txVars
  PROVE  SweepInvariant'
<1>1. TxInvariant'
  BY TxStepIsSound DEF SweepInvariant, Sound
<1>2. ASSUME NEW s \in Sessions, Statement(s)
      PROVE  SweepInvariant'
  <2>1. CASE DeadlockVictim(s)
    BY <1>1, <2>1, LeaveSweeps DEF DeadlockVictim
  <2>2. CASE \/ LockOrder(s) \/ LockReservation(s) \/ LockBalance(s)
             \/ LockForCreate(s) \/ InsertReservation(s)
    BY <1>1, <2>2, LockingSweeps
  <2>3. CASE ListOthers(s) \/ CloseOrder(s)
    BY <1>1, <2>3, ListOthersSweeps, CloseOrderSweeps
  <2>4. CASE Commit(s)
    BY <1>1, <2>4, CommitSweeps
  <2>5. QED
    BY <1>2, <2>1, <2>2, <2>3, <2>4 DEF Statement
<1>3. ASSUME NEW s \in Sessions, Crash(s)
      PROVE  SweepInvariant'
  BY <1>1, <1>3, LeaveSweeps DEF Crash
<1>4. ASSUME NEW s \in Sessions,
             BeginSettle(s) \/ BeginExpire(s) \/ BeginOrder(s) \/ BeginCreate(s)
      PROVE  SweepInvariant'
  BY <1>1, <1>4, BeginSweeps
<1>5. CASE OneStatement
  BY <1>1, <1>5, OneStatementSweeps
<1>6. CASE UNCHANGED txVars
  <2>1. ExpiresNothing /\ tx' = tx
    BY <1>6 DEF ExpiresNothing, txVars, vars, orderVars
  <2>2. QED
    BY <1>1, <2>1, OutsideSweeps
<1>7. QED
  BY <1>2, <1>3, <1>4, <1>5, <1>6 DEF TxNext

\* However many sweeps overlap, an order whose every reservation has expired does
\* not go on waiting for a payment, unless two of them have seen each other's
\* mark on its last reservations as not there yet: any other interleaving of
\* their statements, of payments, cancellations and crashes leaves one to close
\* it.
THEOREM SweptOrdersCancelled == TxSpec => []SweptOrderIsCancelled
<1>1. TxInit => SweepInvariant
  <2> SUFFICES ASSUME TxInit PROVE SweepInvariant
    OBVIOUS
  <2>1. \A s \in Sessions : Owns(tx[s])
    BY DEF TxInit, Owns, Idle, Tx
  <2>2. WaitingCovered
    BY NamesAssumption DEF TxInit, WaitingCovered
  <2>3. QED
    BY <2>1, <2>2, TxInitIsSound DEF SweepInvariant
<1>2. SweepInvariant /\ [TxNext]_txVars => SweepInvariant'
  BY SweepNext
<1>3. SweepInvariant => SweptOrderIsCancelled
  BY DEF SweepInvariant, WaitingCovered, SweptOrderIsCancelled, WithStatus
<1>4. QED
  BY <1>1, <1>2, <1>3, PTL DEF TxSpec

-----------------------------------------------------------------------------
(* Locks do not outlive their transactions.                                *)

\* Whoever has something locked is in a transaction.
LocksOwned == \A x \in Lockable : lock[x] = Nobody \/ tx[lock[x]] # Idle

\* A step of one session keeps this if it gives up all that the session had
\* locked, or goes on with the transaction.
LEMMA LockingIsOwned ==
  ASSUME TxTypeOK, TxTypeOK', LocksOwned, NEW s \in Sessions, NEW u,
         tx' = [tx EXCEPT ![s] = u],
         \/ lock' = Unlocked(s)
         \/ u # Idle /\ \A x \in Lockable : lock'[x] = lock[x] \/ lock'[x] = s
  PROVE  LocksOwned'
<1>1. tx'[s] = u /\ \A r \in Sessions : r # s => tx'[r] = tx[r]
  BY DEF TxTypeOK
<1>2. \A x \in Lockable : lock[x] = Nobody \/ lock[x] \in Sessions
  BY DEF TxTypeOK, Lockable
<1>3. CASE lock' = Unlocked(s)
  <2>1. DOMAIN lock = Lockable
    BY DEF TxTypeOK, Lockable
  <2>2. \A x \in Lockable : lock'[x] = IF lock[x] = s THEN Nobody ELSE lock[x]
    BY <1>3, <2>1 DEF Unlocked
  <2>3. QED
    BY <1>1, <1>2, <2>2 DEF LocksOwned, Idle, Tx, NoRequest, Lockable
<1>4. CASE u # Idle /\ \A x \in Lockable : lock'[x] = lock[x] \/ lock'[x] = s
  BY <1>1, <1>2, <1>4 DEF LocksOwned, Idle, Tx, NoRequest, Lockable
<1>5. QED
  BY <1>3, <1>4

\* A transaction that goes on is one.
LEMMA NotIdle ==
  ASSUME NEW u, u.op # "none"
  PROVE  u # Idle
BY DEF Idle, Tx

LEMMA LocksOwnedStep ==
  ASSUME TxInvariant, LocksOwned, [TxNext]_txVars
  PROVE  LocksOwned'
<1>1. TxTypeOK /\ TxTypeOK'
  BY TxStepIsSound DEF TxInvariant, Sound
<1>2. lock \in [Lockable -> Sessions \cup {Nobody}] /\ tx \in [Sessions -> Transactions]
  BY <1>1 DEF TxTypeOK, Lockable
<1>3. ASSUME NEW s \in Sessions, NEW u, tx' = [tx EXCEPT ![s] = u], u.op # "none",
             lock' = lock \/ \E x \in Lockable : LockFor(s, x)
      PROVE  LocksOwned'
  <2>1. \A x \in Lockable : lock'[x] = lock[x] \/ lock'[x] = s
    BY <1>2, <1>3 DEF LockFor
  <2>2. QED
    BY <1>1, <1>3, <2>1, NotIdle, LockingIsOwned
<1>4. ASSUME NEW s \in Sessions, tx' = [tx EXCEPT ![s] = Idle], lock' = Unlocked(s)
      PROVE  LocksOwned'
  BY <1>1, <1>4, LockingIsOwned
<1>5. ASSUME NEW s \in Sessions, Leave(s)
      PROVE  LocksOwned'
  BY <1>4, <1>5 DEF Leave
<1>6. ASSUME NEW s \in Sessions,
             BeginSettle(s) \/ BeginExpire(s) \/ BeginOrder(s) \/ BeginCreate(s)
      PROVE  LocksOwned'
  <2>1. ASSUME NEW op \in SettleOps \cup OrderOps \cup {"create", "expire"}, NEW at, NEW now,
               NEW todo, NEW order, NEW request, Begin(s, Tx(op, at, now, todo, order, request))
        PROVE  LocksOwned'
    <3>1. Tx(op, at, now, todo, order, request).op # "none"
      BY DEF Tx, SettleOps, OrderOps
    <3>2. QED
      BY <1>3, <2>1, <3>1 DEF Begin
  <2>2. QED
    BY <1>6, <2>1 DEF BeginSettle, BeginExpire, BeginOrder, BeginCreate
<1>7. ASSUME NEW s \in Sessions,
             \/ LockOrder(s) \/ LockReservation(s) \/ LockBalance(s) \/ ListOthers(s)
             \/ CloseOrder(s) \/ LockForCreate(s) \/ InsertReservation(s)
      PROVE  LocksOwned'
  <2>1. PICK t : t = tx[s]
    OBVIOUS
  <2>2. t \in Transactions /\ SessionOK(s, t) /\ MadeKnown
    BY <1>2, <2>1 DEF TxInvariant
  <2>3. Phases(s, t) /\ Settles(s, t) /\ t.op # "none"
    <3>1. t.at # "start"
      BY <1>7, <2>1 DEF LockOrder, LockReservation, LockBalance, ListOthers, CloseOrder,
         LockForCreate, InsertReservation
    <3>2. QED
      BY <2>2, <3>1 DEF SessionOK, Phases
  <2>4. ASSUME NEW u, u.op = t.op, tx' = [tx EXCEPT ![s] = u],
               lock' = lock \/ \E x \in Lockable : LockFor(s, x)
        PROVE  LocksOwned'
    BY <1>3, <2>3, <2>4
  <2>5. ASSUME NEW v \in Transactions, v.op = t.op, NEW todo, NEW then, NEW u \in NextOf(v, todo, then)
        PROVE  u.op = t.op
    BY <2>5 DEF NextOf, Transactions
  <2>6. CASE LockOrder(s)
    <3>1. t.order \in Lockable
      BY <2>1, <2>3, <2>6 DEF LockOrder, Phases, Lockable
    <3>2. \/ \E u \in NextOf(t, ActiveFor(t.order), "commit") :
               tx' = [tx EXCEPT ![s] = u] /\ LockFor(s, t.order)
          \/ Leave(s)
      BY <2>1, <2>6 DEF LockOrder
    <3>3. QED
      BY <1>5, <2>2, <2>4, <2>5, <3>1, <3>2
  <2>7. CASE LockReservation(s)
    <3>1. t.now \in Lockable
      BY <2>1, <2>2, <2>3, <2>7 DEF LockReservation, Phases, Lockable, Transactions
    <3>2. \/ /\ tx' = [tx EXCEPT ![s] = [t EXCEPT !.at = "stock"]]
             /\ LockFor(s, t.now)
          \/ \E u \in NextOf(t, t.todo \ {t.now}, "commit") :
               tx' = [tx EXCEPT ![s] = u] /\ LockFor(s, t.now)
          \/ Leave(s)
      BY <2>1, <2>7 DEF LockReservation
    <3>3. [t EXCEPT !.at = "stock"].op = t.op
      BY <2>2 DEF Transactions
    <3>4. QED
      BY <1>5, <2>2, <2>4, <2>5, <3>1, <3>2, <3>3
  <2>8. CASE LockBalance(s)
    <3> DEFINE v    == [t EXCEPT !.done = @ \cup {t.now}]
               then == IF t.op = "expire" THEN "others" ELSE "commit"
    <3>1. t.now \in Reservations /\ rowOf[t.now] \in Lockable
      BY <2>1, <2>2, <2>3, <2>8 DEF LockBalance, Phases, Settles, Lockable, Transactions, MadeKnown
    <3>2. v \in Transactions /\ v.op = t.op
      BY <2>2, <3>1 DEF Transactions
    <3>3. \/ \E u \in NextOf(v, t.todo \ {t.now}, then) :
               tx' = [tx EXCEPT ![s] = u] /\ LockFor(s, rowOf[t.now])
          \/ Leave(s)
      BY <2>1, <2>8 DEF LockBalance
    <3> HIDE DEF v, then
    <3>4. QED
      BY <1>5, <2>4, <2>5, <3>1, <3>2, <3>3
  <2>9. CASE ListOthers(s)
    <3> DEFINE o == CHOOSE x \in {reference[r] : r \in t.done} : TRUE
               u == IF o # NoOrder /\ NoneLeft(o, t.done)
                    THEN [t EXCEPT !.at = "close", !.order = o]
                    ELSE [t EXCEPT !.at = "commit"]
    <3>1. tx' = [tx EXCEPT ![s] = u] /\ lock' = lock
      BY <2>1, <2>9 DEF ListOthers
    <3> HIDE DEF o
    <3>2. u.op = t.op
      BY <2>2 DEF Transactions
    <3> HIDE DEF u
    <3>3. QED
      BY <2>4, <3>1, <3>2
  <2>10. CASE CloseOrder(s)
    <3>1. t.order \in Lockable
      BY <2>1, <2>3, <2>10 DEF CloseOrder, Phases, Lockable
    <3>2. \/ tx' = [tx EXCEPT ![s] = [t EXCEPT !.at = "commit"]] /\ LockFor(s, t.order)
          \/ tx' = [tx EXCEPT ![s] = [t EXCEPT !.at = "commit", !.order = NoOrder]] /\ lock' = lock
      BY <1>2, <2>1, <2>10 DEF CloseOrder, Transactions
    <3>3. /\ [t EXCEPT !.at = "commit"].op = t.op
          /\ [t EXCEPT !.at = "commit", !.order = NoOrder].op = t.op
      BY <2>2 DEF Transactions
    <3>4. QED
      BY <2>4, <3>1, <3>2, <3>3
  <2>11. CASE LockForCreate(s)
    <3>1. t.request.row \in Lockable
      BY <2>1, <2>3, <2>11 DEF LockForCreate, Phases, Lockable, Requests
    <3>2. \/ tx' = [tx EXCEPT ![s] = [t EXCEPT !.at = "insert"]] /\ LockFor(s, t.request.row)
          \/ Leave(s)
      BY <2>1, <2>11 DEF LockForCreate
    <3>3. [t EXCEPT !.at = "insert"].op = t.op
      BY <2>2 DEF Transactions
    <3>4. QED
      BY <1>5, <2>4, <3>1, <3>2, <3>3
  <2>12. CASE InsertReservation(s)
    <3>1. t.now \in Lockable
      BY <2>1, <2>3, <2>12 DEF InsertReservation, Phases, Lockable
    <3>2. \/ /\ tx' = [tx EXCEPT ![s] = [t EXCEPT !.at = "commit", !.done = {t.now}]]
             /\ LockFor(s, t.now)
          \/ Leave(s)
      BY <1>2, <2>1, <2>12 DEF InsertReservation, Transactions
    <3>3. [t EXCEPT !.at = "commit", !.done = {t.now}].op = t.op
      BY <2>2 DEF Transactions
    <3>4. QED
      BY <1>5, <2>4, <3>1, <3>2, <3>3
  <2>13. QED
    BY <1>7, <2>6, <2>7, <2>8, <2>9, <2>10, <2>11, <2>12
<1>8. ASSUME NEW s \in Sessions, Statement(s)
      PROVE  LocksOwned'
  BY <1>4, <1>5, <1>7, <1>8 DEF Statement, Commit, DeadlockVictim
<1>9. CASE OneStatement \/ UNCHANGED txVars
  <2>1. UNCHANGED <<lock, tx>>
    BY <1>9 DEF OneStatement, ConfirmPayment, AdjustStock, txVars
  <2>2. QED
    BY <2>1 DEF LocksOwned, Idle, Tx, NoRequest, Lockable
<1>10. QED
  BY <1>5, <1>6, <1>8, <1>9 DEF TxNext, Crash

\* However a transaction ends, by its commit, an error, a deadlock or the death of
\* its client, nothing that it locked stays locked.
THEOREM LocksEndWithTransactions == TxSpec => []LocksOwned
<1>1. TxInit => LocksOwned
  BY DEF TxInit, LocksOwned, Lockable
<1>2. TxInvariant /\ LocksOwned /\ [TxNext]_txVars => LocksOwned'
  BY LocksOwnedStep
<1>3. QED
  BY <1>1, <1>2, TxIsSafe, PTL DEF TxSpec
=============================================================================
