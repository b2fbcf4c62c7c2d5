------------------------------ MODULE Inventory ------------------------------
(***************************************************************************)
(* Stock balances, reservations and the movement ledger of one             *)
(* organization, as the inventory service, the reservation service and the *)
(* expiry worker change them.  Each of their operations is one database    *)
(* transaction that locks the rows it reads (SELECT ... FOR UPDATE), so    *)
(* here each is one action; ReservationTx.tla takes them apart into        *)
(* statements.                                                             *)
(*                                                                         *)
(* The reservations of this module are those that clients make through     *)
(* POST /reservations for something other than a storefront order;         *)
(* Storefront.tla extends it with the orders.                              *)
(***************************************************************************)
EXTENDS Integers, FiniteSets

CONSTANTS
  Rows,          \* the (location, variant) pairs that have a balance row
  NoRow,         \* what a reservation refers to before it is made
  Reservations,  \* reservation identities: one per idempotency key
  MaxQuantity,   \* the largest quantity one operation asks for (a bound)
  ColumnMax      \* the largest magnitude the on_hand column stores

ASSUME NoRowAssumption        == NoRow \notin Rows
ASSUME ReservationsAssumption == IsFiniteSet(Reservations)
ASSUME MaxQuantityAssumption  == MaxQuantity \in Nat \ {0}
ASSUME ColumnMaxAssumption    == ColumnMax \in Nat

VARIABLES
  onHand,      \* inventory_balances.on_hand
  reserved,    \* inventory_balances.reserved
  damaged,     \* inventory_balances.damaged
  expired,     \* inventory_balances.expired
  stockMoved,  \* the sum of the ledger's quantity_change, but for saleMoved
  saleMoved,   \* the part of it that fulfilled reservations account for
  status,      \* inventory_reservations.status, "NONE" before the insert
  rowOf,       \* the balance row a reservation holds stock of
  quantity,    \* the quantity it holds
  expiry,      \* its expires_at: "never", or "ahead" of or "past" the clock
  overridden   \* history: rows adjusted under allowNegativeStock

balanceVars == <<onHand, reserved, damaged, expired>>
ledgerVars  == <<stockMoved, saleMoved>>
holdVars    == <<rowOf, quantity>>
vars == <<balanceVars, ledgerVars, status, holdVars, expiry, overridden>>

-----------------------------------------------------------------------------
Quantities == 1 .. MaxQuantity
Column     == -ColumnMax .. ColumnMax
Kinds      == {"damage", "expired"}
Settled    == {"RELEASED", "FULFILLED", "CANCELLED", "EXPIRED"}
Statuses   == {"NONE", "ACTIVE"} \cup Settled

(* The units that the reservations S hold of a row when rows and amounts    *)
(* give their rows and quantities: a pair <<r, i>> for each unit of r, so    *)
(* that the sum of the quantities is a cardinality.                          *)
Units(S, rows, amounts, row) ==
  {u \in S \X Quantities : rows[u[1]] = row /\ u[2] <= amounts[u[1]]}

Total(S, rows, amounts, row) == Cardinality(Units(S, rows, amounts, row))

Held(S, row) == Total(S, rowOf, quantity, row)

WithStatus(s) == {r \in Reservations : status[r] = s}

RowsOf(S) == {rowOf[r] : r \in S}

SetStatus(S, s) == [r \in Reservations |-> IF r \in S THEN s ELSE status[r]]

\* calculateAvailableExact, and its call with a reserved quantity of zero.
Available(row)    == onHand[row] - reserved[row] - damaged[row] - expired[row]
Unquarantined(row) == onHand[row] - damaged[row] - expired[row]

\* What recordMovement accepts while `held' units are reserved: the result is
\* a value of the column and, but for an override, neither on_hand nor (for a
\* deduction) available goes below zero.
MovementAccepted(row, held, change, allowNegativeStock) ==
  /\ onHand[row] + change \in Column
  /\ \/ allowNegativeStock
     \/ /\ onHand[row] + change >= 0
        /\ change < 0 => Unquarantined(row) - held + change >= 0

\* A faulty variant, for NeverOversold: it forgets quarantined stock.
ReservedIgnoringQuarantine(row, change) ==
  reserved[row] + change \in 0 .. onHand[row]

\* What adjustReserved accepts; the second test is made of decrements too.
ReservedAccepted(row, change) ==
  /\ reserved[row] + change >= 0
  /\ reserved[row] + change <= Unquarantined(row)

Init ==
  /\ onHand     = [row \in Rows |-> 0]
  /\ reserved   = [row \in Rows |-> 0]
  /\ damaged    = [row \in Rows |-> 0]
  /\ expired    = [row \in Rows |-> 0]
  /\ stockMoved = [row \in Rows |-> 0]
  /\ saleMoved  = [row \in Rows |-> 0]
  /\ status     = [r \in Reservations |-> "NONE"]
  /\ rowOf      = [r \in Reservations |-> NoRow]
  /\ quantity   = [r \in Reservations |-> 0]
  /\ expiry     = [r \in Reservations |-> "never"]
  /\ overridden = {}

-----------------------------------------------------------------------------
\* inventoryService.recordOpeningBalance
RecordOpeningBalance(row, q) ==
  /\ MovementAccepted(row, reserved[row], q, FALSE)
  /\ onHand'     = [onHand EXCEPT ![row] = @ + q]
  /\ stockMoved' = [stockMoved EXCEPT ![row] = @ + q]
  /\ UNCHANGED <<reserved, damaged, expired, saleMoved, status, holdVars,
                 expiry, overridden>>

\* inventoryService.recordAdjustment: the merchant may ask for an override.
RecordAdjustment(row, change, allowNegativeStock) ==
  /\ change # 0
  /\ MovementAccepted(row, reserved[row], change, allowNegativeStock)
  /\ onHand'     = [onHand EXCEPT ![row] = @ + change]
  /\ stockMoved' = [stockMoved EXCEPT ![row] = @ + change]
  /\ overridden' = IF allowNegativeStock THEN overridden \cup {row}
                                         ELSE overridden
  /\ UNCHANGED <<reserved, damaged, expired, saleMoved, status, holdVars,
                 expiry>>

\* inventoryService.quarantineStock: the ledger row it adds changes nothing.
QuarantineStock(row, kind, q) ==
  /\ q <= Available(row)
  /\ damaged' = [damaged EXCEPT ![row] = IF kind = "damage" THEN @ + q ELSE @]
  /\ expired' = [expired EXCEPT ![row] = IF kind = "expired" THEN @ + q ELSE @]
  /\ UNCHANGED <<onHand, reserved, ledgerVars, status, holdVars, expiry,
                 overridden>>

\* The columns a write-off changes.
TakeQuarantined(row, kind, q) ==
  /\ onHand'     = [onHand EXCEPT ![row] = @ - q]
  /\ damaged' = [damaged EXCEPT ![row] = IF kind = "damage" THEN @ - q ELSE @]
  /\ expired' = [expired EXCEPT ![row] = IF kind = "expired" THEN @ - q ELSE @]
  /\ stockMoved' = [stockMoved EXCEPT ![row] = @ - q]
  /\ UNCHANGED <<reserved, saleMoved, status, holdVars, expiry, overridden>>

\* A faulty variant, for TypeOK: more is written off than was quarantined.
WriteOffUnchecked(row, kind, q) ==
  onHand[row] - q \in Column /\ TakeQuarantined(row, kind, q)

\* inventoryService.writeOffStock
WriteOffStock(row, kind, q) ==
  /\ q <= IF kind = "damage" THEN damaged[row] ELSE expired[row]
  /\ onHand[row] - q \in Column
  /\ TakeQuarantined(row, kind, q)

\* What createReservation does for the reservations S of one transaction.
Hold(S, rows, amounts, expires) ==
  /\ S \subseteq WithStatus("NONE")
  /\ \A r \in S : ReservedAccepted(rows[r], Total(S, rows, amounts, rows[r]))
  /\ reserved' = [row \in Rows |-> reserved[row] + Total(S, rows, amounts, row)]
  /\ status'   = SetStatus(S, "ACTIVE")
  /\ rowOf'    = [r \in Reservations |-> IF r \in S THEN rows[r] ELSE rowOf[r]]
  /\ quantity' = [r \in Reservations |-> IF r \in S THEN amounts[r]
                                                   ELSE quantity[r]]
  /\ expiry'   = [r \in Reservations |-> IF r \in S THEN expires ELSE expiry[r]]
  /\ UNCHANGED <<onHand, damaged, expired, ledgerVars, overridden>>

\* The columns that change when the reservations S give their stock back.
Unreserve(S, outcome) ==
  /\ reserved' = [row \in Rows |-> reserved[row] - Held(S, row)]
  /\ status'   = SetStatus(S, outcome)
  /\ UNCHANGED <<onHand, damaged, expired, ledgerVars, holdVars, expiry,
                 overridden>>

\* Faulty variants of GiveBack: reservations are given back whatever their
\* status, for ReservedIsHeld and SettledForGood; the sign of the check is
\* wrong, for StaleReservationsExpire.
GiveBackAgain(S, outcome) ==
  /\ S \cap WithStatus("NONE") = {}
  /\ \A r \in S : ReservedAccepted(rowOf[r], -quantity[r])
  /\ Unreserve(S, outcome)

GiveBackIfStockIsLeft(S, outcome) ==
  /\ S \subseteq WithStatus("ACTIVE")
  /\ \A r \in S : ReservedAccepted(rowOf[r], quantity[r])
  /\ Unreserve(S, outcome)

\* What release, cancel and expire share for the reservations S of one
\* transaction: the stock goes back to available.  Of the reservations of one
\* row the first to be given back meets the strictest test.
GiveBack(S, outcome) ==
  /\ S \subseteq WithStatus("ACTIVE")
  /\ \A row \in RowsOf(S) :
       \E r \in S : rowOf[r] = row /\ ReservedAccepted(row, -quantity[r])
  /\ Unreserve(S, outcome)

\* The columns that change when the reservations S are sold.
Sell(S) ==
  /\ reserved'  = [row \in Rows |-> reserved[row] - Held(S, row)]
  /\ onHand'    = [row \in Rows |-> onHand[row] - Held(S, row)]
  /\ saleMoved' = [row \in Rows |-> saleMoved[row] - Held(S, row)]
  /\ status'    = SetStatus(S, "FULFILLED")
  /\ UNCHANGED <<damaged, expired, stockMoved, holdVars, expiry, overridden>>

\* A faulty variant, for LedgerAccountsForStock: what was sold is sold again.
FulfillAgain(S) ==
  /\ S \subseteq WithStatus("ACTIVE") \cup WithStatus("FULFILLED")
  /\ \A row \in RowsOf(S) : ReservedAccepted(row, -Held(S, row))
  /\ Sell(S)

\* What fulfillReservation does for the reservations S of one transaction: the
\* reserved quantity is taken off first, and the sale is recorded against the
\* balance which that leaves.
Fulfill(S) ==
  /\ S \subseteq WithStatus("ACTIVE")
  /\ \A row \in RowsOf(S) :
       /\ ReservedAccepted(row, -Held(S, row))
       /\ MovementAccepted(row, reserved[row] - Held(S, row), -Held(S, row), FALSE)
  /\ Sell(S)

\* reservationService.createReservation.  A reservation that exists already
\* is returned, or refused as a conflict: neither changes the state.
CreateReservation(r, row, q, expires) ==
  Hold({r}, [x \in {r} |-> row], [x \in {r} |-> q], expires)

\* reservationService.releaseReservation
ReleaseReservation(r) == GiveBack({r}, "RELEASED")

\* reservationService.cancelReservation
CancelReservation(r) == GiveBack({r}, "CANCELLED")

\* reservationService.fulfillReservation
FulfillReservation(r) == Fulfill({r})

\* One reservation of the expiry worker's sweep: it was due when the sweep
\* listed it and is still ACTIVE when its own transaction reads it again.
ExpireReservation(r) ==
  /\ expiry[r] = "past"
  /\ GiveBack({r}, "EXPIRED")

\* The clock passes a reservation's expires_at.
ExpiryPasses(r) ==
  /\ status[r] = "ACTIVE"
  /\ expiry[r] = "ahead"
  /\ expiry' = [expiry EXCEPT ![r] = "past"]
  /\ UNCHANGED <<balanceVars, ledgerVars, status, holdVars, overridden>>

StockOn(row) ==
  \/ \E q \in 0 .. MaxQuantity : RecordOpeningBalance(row, q)
  \/ \E change \in -MaxQuantity .. MaxQuantity, allow \in BOOLEAN :
       RecordAdjustment(row, change, allow)
  \/ \E kind \in Kinds, q \in Quantities :
       \/ QuarantineStock(row, kind, q)
       \/ WriteOffStock(row, kind, q)

StockNext == \E row \in Rows : StockOn(row)

ReservationNext ==
  \E r \in Reservations :
    \/ \E row \in Rows, q \in Quantities, expires \in {"never", "ahead"} :
         CreateReservation(r, row, q, expires)
    \/ ReleaseReservation(r)
    \/ CancelReservation(r)
    \/ FulfillReservation(r)
    \/ ExpireReservation(r)
    \/ ExpiryPasses(r)

Next == StockNext \/ ReservationNext

Spec == Init /\ [][Next]_vars

(* What the services that build on these operations may do to the stock:    *)
(* any of them for a whole set of reservations, or movements on several      *)
(* rows, in one transaction.  Inventory's own Next is the case of one        *)
(* reservation.                                                              *)

\* Movements that take goods in or out without an override: recordMovement as
\* the other services call it.
Post(change) ==
  /\ \A row \in Rows :
       change[row] # 0 => MovementAccepted(row, reserved[row], change[row], FALSE)
  /\ onHand'     = [row \in Rows |-> onHand[row] + change[row]]
  /\ stockMoved' = [row \in Rows |-> stockMoved[row] + change[row]]
  /\ UNCHANGED <<reserved, damaged, expired, saleMoved, status, holdVars,
                 expiry, overridden>>

PromiseNext ==
  \/ StockNext
  \/ \E S \in SUBSET Reservations :
       \/ \E rows \in [S -> Rows], amounts \in [S -> Quantities],
             expires \in {"never", "ahead"} : Hold(S, rows, amounts, expires)
       \/ \E outcome \in Settled \ {"FULFILLED"} : GiveBack(S, outcome)
       \/ Fulfill(S)
  \/ \E r \in Reservations : ExpiryPasses(r)
  \/ \E change \in [Rows -> -2 * ColumnMax .. 2 * ColumnMax] : Post(change)

PromiseSpec == Init /\ [][PromiseNext]_vars

\* The expiry worker sweeps every minute, lists every due reservation, and an
\* error on one does not keep it from the others; time passes.
ExpiryFairness ==
  \A r \in Reservations : WF_vars(ExpiryPasses(r)) /\ WF_vars(ExpireReservation(r))

FairSpec == Spec /\ ExpiryFairness

-----------------------------------------------------------------------------
TypeOK ==
  /\ onHand     \in [Rows -> Column]
  /\ reserved   \in [Rows -> Nat]
  /\ damaged    \in [Rows -> Nat]
  /\ expired    \in [Rows -> Nat]
  /\ stockMoved \in [Rows -> Int]
  /\ saleMoved  \in [Rows -> Int]
  /\ status     \in [Reservations -> Statuses]
  /\ rowOf      \in [Reservations -> Rows \cup {NoRow}]
  /\ quantity   \in [Reservations -> 0 .. MaxQuantity]
  /\ expiry     \in [Reservations -> {"never", "ahead", "past"}]
  /\ overridden \subseteq Rows

\* Whatever order reservations are made, released, cancelled, fulfilled and
\* expired in, a balance row's reserved column is exactly what its ACTIVE
\* reservations hold: no unit is given back twice and none leaks.
ReservedIsHeld ==
  \A row \in Rows : reserved[row] = Held(WithStatus("ACTIVE"), row)

\* The ledger accounts for every unit: on_hand is the sum of the movements,
\* and the sales in it are the FULFILLED reservations, each exactly once.
LedgerAccountsForStock ==
  \A row \in Rows :
    /\ onHand[row] = stockMoved[row] + saleMoved[row]
    /\ saleMoved[row] = -Held(WithStatus("FULFILLED"), row)

\* Stock that nobody overrode is never promised twice: available, which is
\* on_hand less reserved, damaged and expired, does not go below zero.
NeverOversold ==
  \A row \in Rows \ overridden : Available(row) >= 0

\* A reservation keeps its row and quantity and does not leave a final status.
KeepsSettlement(r) ==
  status[r] # "NONE" =>
    /\ rowOf'[r] = rowOf[r]
    /\ quantity'[r] = quantity[r]
    /\ status'[r] \in Settled \cup {status[r]}
    /\ status[r] \in Settled => status'[r] = status[r]

\* A reservation leaves ACTIVE once, for one outcome, and what it held is not
\* rewritten: a replay, a late worker and a second click all find it settled.
SettledForGood ==
  [][\A r \in Reservations : KeepsSettlement(r)]_vars

\* The worker gets to every stale reservation of a row that no override has
\* touched, whatever the merchant does to the stock in the meantime.
StaleReservationsExpire ==
  \A r \in Reservations :
    (status[r] = "ACTIVE" /\ expiry[r] # "never")
      ~> (status[r] # "ACTIVE" \/ rowOf[r] \in overridden)
=============================================================================
