# TLA+ development of the POS / e-commerce server

The repository is a multi-tenant shop: a TypeScript API server over PostgreSQL
(or an embedded database) and a React client. What can go quietly wrong in it
is the **stock**, the **documents that move or hold it** (orders, sales,
transfers, counts, purchases), the **money** of those documents, and the
**subscriptions** by which tenants pay for the service. Each is spread over
several columns and tables, is changed by merchants, customers, background
workers and repeated requests at the same time, and has to add up afterwards.
These modules model that core, TLC checks it on small instances, and TLAPS
proves the main results for every size.

Paths below are relative to `src/`. `PROJECT.json` maps every definition to the
lines that it stands for.

## 1. The system

Components in bold are modelled.

| Component | State | Operations | What is hard in it |
|---|---|---|---|
| **Stock balances and ledger**: `server/inventory/inventoryService.ts`, `server/repositories/inventoryRepository.ts` | `inventory_balances` (`on_hand`, `reserved`, `damaged`, `expired`, `in_transit`), the append-only `inventory_movements` | opening balance, adjustment (with or without `allowNegativeStock`), quarantine, write-off, `recordMovement`, `adjustReserved` | columns of one row that constrain each other and are written by separate statements; the ledger has to account for `on_hand` |
| **Reservations**: `server/inventory/reservationService.ts` | `inventory_reservations` (status, row, quantity, `expires_at`, the order they refer to) | create, release, cancel, fulfil, expire | two callers settle the same reservation; idempotency keys race to the unique index |
| **Expiry worker**: `server/inventory/reservationExpiryWorker.ts` | none | a sweep each 60 s, or on request | runs beside payments and other sweeps, and may cancel an order |
| **Storefront orders**: `server/services/orderService.ts` | `orders` (status, payment status), `payments`, `payment_transactions`, checkout claims | place, confirm / fail / void payment, cancel, fulfil, refund | status machines of three tables and the reservations have to agree after any sequence of calls |
| **Refund amounts**: `refundOrder` of the same file | returned quantities and cents by line, `REFUND` rows | partial and final returns, with idempotency keys | rounding, the residual of the last return, replays |
| **Database transactions**: `server/db/client.ts` | locks, uncommitted changes | BEGIN, COMMIT, ROLLBACK, savepoints | READ COMMITTED: a read without a lock is stale at once; crashes |
| **Stock transfers**: `server/inventory/transferService.ts` | transfer status, quantities, `in_transit`, events | create, request, approve, reject, dispatch, mark in transit, receive, cancel | one document, two rows and a column that all transfers to a row share; short and over-receipts |
| **Stock counts**: `server/inventory/stockCountService.ts` | count status, counted and system quantities | create, submit, approve | submission and approval read without a lock, against an old snapshot |
| **Purchasing**: `server/services/purchasingService.ts` | purchase orders, their lines, receipts | create, send, approve, cancel, receive | receipts in parts and sent again, two lines of one variant |
| **Point of sale**: `server/services/posService.ts` | cash sessions, drawer movements, sales, returns | open, close, cash movement, checkout, return | one drawer for a terminal; running cash against what the records say; returns to the cent |
| **Tenants, subscriptions, billing**: `server/services/tenantProvisioningService.ts`, `subscriptionService.ts`, `billingService.ts`, `recurringBillingService.ts` | lifecycle status, subscription, invoices, webhook events | provision, suspend / reactivate / archive, edits of the subscription, invoices, webhooks, billing cycle | a worker, webhooks in any order and operators change one row without knowing of each other |
| Authentication: `server/services/authService.ts`, `server/auth/` | sessions, refresh-token families, reset tokens | login, refresh, logout, revoke | rotation of a token that is used twice |
| Storefront cart, MFA, email verification | rows of one user | validation, one-time codes | none that spans rows |
| Catalog, customers, audit, discovery, reporting, support, web client | records | reads and single-row writes | no protocol of their own |

How they interact: an order's checkout, cancellation, fulfilment and refund
call the reservation service and the movement ledger **inside their own
transaction**; so do sales at the till, transfers, counts and receipts with the
movement ledger, **on the same balance rows**. The expiry worker calls the
reservation service, which writes the order; the inventory routes let a client
settle one reservation of an order without the order service. There are no
messages: everything meets in the database, and the row locks
(`SELECT ... FOR UPDATE`) are the only synchronisation. Billing shares nothing
with the stock: there the billing worker, the payment provider's webhooks, the
platform's operators and the clock meet in the rows of a subscription and its
invoices. In-process state matters to none of the modelled operations.

What makes each of the modelled components correct:

* balances: `reserved` is what ACTIVE reservations hold; `on_hand` is what the
  ledger says; stock is not promised twice, whoever takes it;
* reservations: settled once, for one outcome; stale ones are given back;
* orders: forward-only, charged once, never cancelled once paid, and holding
  once closed none of the stock that a listing shows;
* refunds: to the cent, never more than was captured, once for each key;
* transactions: what is committed is what whole transactions could have done
  one after the other, whatever interleaves, fails or dies; and each one ends;
* transfers: sent off once and settled once; `in_transit` is what is under way;
* counts: the stock is corrected once, by the variance that was approved;
* purchases: no line gets more than was ordered, and order, receipts and ledger
  say the same;
* the till: one open drawer, whose running cash is what its records add up to;
  returns never exceed the sale and settle it to the cent;
* billing: a period is renewed only from the moment the last one ended and on the
  invoice for it; what is final stays final in spite of late events; nobody is
  put in arrears without a cause; no ended period is left unsettled.

The hazards in `PROJECT.json` name the line at which each of these could break.

## 2. The modules

```
Inventory            one action per transaction; the abstract PromiseSpec
  |-- InventoryProofs     StockInvariant; Spec => PromiseSpec
  |-- Storefront          orders, payments, returns
  |     |-- StorefrontProofs    StoreInvariant; StoreSpec => PromiseSpec
  |-- ReservationTx       reservations and orders, statement by statement
  |     |-- ReservationTxProofs TxInvariant; TxSpec => PromiseSpec
  |-- Transfers           implements Consignment (an abstract specification)
  |-- StockCounts         reading and writing are separate steps
  |-- Purchasing          orders of several lines, receipts
  |-- BackOffice          composes Transfers, StockCounts, Purchasing
  |     |-- BackOfficeProofs    each part's steps, and all of them together
  |-- PointOfSale         drawers, sales, returns of one terminal (uses Sums)
        |-- PointOfSaleProofs   TillInvariant, DrawerInvariant
Refund               the cents of one order's returns (uses Sums)
  |-- RefundProofs        RefundInvariant, LedgerInvariant, FairInvariant
Sums                 the sum of a column, as the number of pieces it consists of
  |-- SumsProofs          SumUnion, SumInsert, SumChange, SumPlus, ...
Billing              tenants, subscriptions, invoices, webhooks, the worker
  |-- BillingProofs       BillingInvariant
MCStorefront, MCReservationTx, MCRefund, MCBackOffice, MCPointOfSale   symmetry
```

**Inventory.** A balance row is a (location, variant) pair. The variables are
the columns; `stockMoved` and `saleMoved` are the sums of `quantity_change` over
the ledger, the sales apart; `status`, `rowOf`, `quantity` and `expiry` are the
columns of the reservations. A reservation's identity is its idempotency key,
and its status is `"NONE"` before it is inserted. `expires_at` is only ever
compared with the clock, so it is `"never"`, `"ahead"` or `"past"`, and the
clock is the action `ExpiryPasses`. `overridden` is history: the rows adjusted
under `allowNegativeStock`. Each operation is one action, since the code locks
what it reads; the actions share the transactions' cores `Hold`, `GiveBack`,
`Fulfill` and `Post`. The first three take a *set* of reservations, because an
order settles its lines in one transaction; `Post(amounts)` is a movement on any
number of rows without an override, with which the till, transfers, counts,
receipts and returns change the stock. `ReservedAccepted` and
`MovementAccepted` are the checks of `adjustReserved` and `recordMovement`, in
the code's order: a fulfilment takes the reserved quantity off first and checks
the sale against what that leaves. What a replayed request returns is not state
and is no step.

`PromiseSpec` is the abstract specification: the steps that a service built on
these operations may make on the stock, with any set of reservations or rows at
a time. The storefront, the interleaved transactions, the back office and the
till are each shown to implement it, so that what is proved of it
(`PromiseKept`) holds in all of them.

**Storefront.** Adds the orders. `charges` and `voids` count POSTED rows of
`payment_transactions`; `lines` are the reservations that the checkout made,
and `items[r]` is how many lines of the cart stand behind `r`: the route passes
the cart on as it comes (`storefrontRoutes.ts:594`), two lines of one variant
have one reservation key (`orderService.ts:553`), and the second creation replays
the first (`reservationService.ts:66`), so that two items are charged and one is
reserved. `reference` is the order that a reservation names, which a client of
`POST /reservations` may choose freely. `Listed(o)` is what `listReservations`
returns: all the ACTIVE reservations of the order, or some `ListLimit` of them
when there are more. `ExpireForOrder` is a sweep's transaction with its write
to the order. `SettleOne` is the inventory routes, which leave the order alone.
Money is whole charges, a return takes whole lines: the cents are in Refund.

**ReservationTx.** Takes the transactions apart into statements. `Inventory`'s
variables hold what is *committed*; `tx[s]` is the session's transaction (its
next statement, the reservations still to settle and those settled but not
committed); `lock` is the owner of each locked row. A statement reads what is
committed and its own changes. `LockFor` waits; `Leave` is ROLLBACK;
`DeadlockVictim` is the database ending one transaction of a cycle of waiting
ones; `Crash` is a connection that is lost at any point. `CloseOrder` is the
sweep's `UPDATE orders ... WHERE status = 'Stock Reserved'`, which tests the row
that it finds when it gets the lock, and waits for it only if the committed
status is that one. `ListOthers` is the sweep's listing of the order's
other reservations, a statement before it; `skewed` is history: the orders that
a sweep left open only for reservations which another sweep had marked and not
committed. `InsertReservation` is the INSERT that meets the unique
index, and the savepoint that takes the balance back. That each `Commit` is a
step of `PromiseSpec` says that the locks make the transactions serializable
for the stock. The payment confirmation, the merchant's adjustments and the
clock are transactions of one statement; the other operations on one balance
are like the adjustments and are left out.

**Refund.** One order that was completed and charged, its variants, cents and
keys. `sold`, `lineTotal` and `total` are inputs: every combination within the
bounds is an initial state. `Return` is `refundOrder`: proportional amounts
rounded half up, the last return taking all that is left, the residual put on
the last line of the request.

**Transfers.** A transfer has one item here (the code repeats what it does for
each) and goes from one balance row to another. Every operation locks the
transfer before it looks at its status, so each is one action; a request for a
status that was reached already is answered with the transfer and is no step.
`transferMoved` sums the TRANSFER_OUT and TRANSFER_IN movements of the ledger.
A receipt closes the transfer, whether less came than was sent or, with an
authorization, more. **Consignment** says what a transfer promises without any
of its statuses or columns: goods go under way once, to the place that was
named, and settle there once. `Goods` maps the statuses to phases and
`in_transit` to what a place knows to be under way to it.

**StockCounts.** `submitStockCount` and `approveStockCount` read the count
without a lock, its row in one statement and its items in another, and set its
status without testing it again. So `ReadCount`, `ReadItems`, and the write with
its commit are separate steps of a clerk, and `read[k]` is what the clerk's
transaction holds in between. `raced` is history: the counts that a request wrote
though another had written them since it read them.

**Purchasing.** An order has lines, two of which may be of one variant; a
receipt is keyed, names variants and takes one line of each. It posts all its
goods at once, hence `Total(S, lineRow, amounts, row)` on each row.

**BackOffice** composes the three over one set of balances with adjustments and
reservations going on: `OfficeNext` has one disjunct per service, and each
leaves the others' variables as they are.

**PointOfSale.** The sessions of one terminal. `openSession` asks for an open
session in one transaction and inserts its own in another, which the unique
index `uq_active_pos_session` may refuse: `CheckActive` and `InsertSession`. The
other operations lock the session or the order they work on. A sale has one
variant; discounts and taxes are in its total, which is an input. `expected` is
the running `expected_cash`; `ClosingCash` is what closing computes afresh. The
storefront's routes take any order of the organization, so the till's sales too:
`RefundOrder` is `orderService.refundOrder` on a sale, which writes the same
return and payment rows as `ProcessReturn` (`GiveMoneyBack`) and leaves the
drawer alone, and `CancelSale` is `cancelStorefrontOrder` on one that was
refunded. Confirming, failing, voiding and fulfilling refuse a sale of the till
or change nothing of it: its payment is not pending and it has no reservation.
(One could be attached to it by a client of `POST /reservations`, which names
any order; that is followed for the storefront's orders and not here.)

**Billing.** `now` counts invoice lead times (weeks). `bill[t]` has a renewal
invoice for each possible `renewal_period_start` (which is what the unique index
allows) and one made by hand. `Receive` is the store of processed events;
`AfterPayment` is the renewal, shared by operators and webhooks, for the invoice's period; that period
is `span[t][b]`, fixed by the plan's interval when the invoice is made, while
`ChangePlan` may switch the plan between monthly and yearly afterwards and the
worker renews by the plan of the moment. `exact` says whether
`current_period_end` is a whole millisecond: what the program writes is, but a
merchant's sign-up (`authService.ts:433`) and migration 014 write PostgreSQL's
`CURRENT_TIMESTAMP`, with microseconds, and the worker's UPDATE
(`recurringBillingService.ts:48`) compares the column with a JavaScript `Date`.
`Process(batch,
late)` is one cycle of the worker, for a batch that skips locked rows, including
the sweep that makes open invoices past due. The due date of an invoice made by
hand is its maker's, so whether it has passed is the input `late`. `edits`
bounds the operators and is no state of the code.

**Faulty variants.** Some definitions have a neighbour that is wrong on purpose
(`ReservedIgnoringQuarantine` beside `ReservedAccepted`, `DispatchAgain` beside
`DispatchTransfer`, ...). Each says which property it is for. No specification
uses one; put in the place of its neighbour it breaks that property, which
shows that the property can fail.

## 3. What TLC checks

| Run | Instance | Checks | Shows |
|---|---|---|---|
| `Inventory` | 1 row, 3 reservations, quantities 1-2, column up to 2, `FairSpec` (473,000 states) | `TypeOK`, `ReservedIsHeld`, `LedgerAccountsForStock`, `NeverOversold`, `SettledForGood`, `StaleReservationsExpire` | any order of stock operations, holds, settlements and expiry keeps columns, reservations and ledger in agreement; the worker gets to every stale reservation of a row that nobody overrode |
| `Storefront` | 2 rows, 2 reservations, 2 orders, quantity 1, carts that name a line twice, `ListLimit` 1 (1.72 million states) | `StoreTypeOK`, `PaidOrderStands`, `ChargedOnce`, `ClosedOrderSettled`, `OrdersMoveForward`, `PromiseSpec` | orders, payments, expiry and returns keep their promises and implement the stock's; a closed order holds nothing that its listing showed, and the listing is shorter than a cart |
| `StorefrontReturns` | 2 rows, 1 order, carts that name a line twice | `ReturnsWereSold` **violated** | a variant on two cart lines is reserved and sold once and returned twice |
| `ReservationTx` | 2 sessions, both of which sweep; 1 row, 2 reservations, 1 order (811,000 states) | `TxTypeOK`, `SweptOrderIsCancelled`, `PromiseSpec`, `PaidOrderKept` | locks make the statements' interleavings, crashes and deadlocks equivalent to whole transactions |
| `TransactionsEnd` | 2 sessions, 1 row, 1 reservation, 1 order, `FairTxSpec` | `TransactionsEnd` | no transaction waits for ever, though orders and sweeps lock in opposite orders |
| `SweepSkew` | 2 sessions that both sweep, 2 rows | `ExpiredOrderIsCancelled` **violated** | two sweeps each see the other's reservation as still ACTIVE |
| `Refund` | 2 variants, up to 4 units and 6 cents, shipping up to 1, 2 keys | `RefundTypeOK`, `RefundedToTheCent`, `LedgersAgree`, `FairShares`, `KeyRefundsOnce` | every way of splitting an order into returns adds up |
| `BackOffice` | 2 rows, 1 reservation, 2 transfers, 1 count and 2 clerks, 1 order of 2 lines with 2 receipts, quantities up to 2, 2 of these documents or the count with its clerks (1.19 million states) | `OfficeTypeOK`, `TransfersAddUp`, `PostedUnlessRaced`, `ReceiptsAddUp`, `PromiseSpec`, `ConsignmentSpec` | each document accounts for its movements whatever the others do; transfers are consignments; all is the stock's promise |
| `CountTwice` | 2 clerks, 1 count | `CountPostedOnce` **violated** | two approvals at once both read SUBMITTED and post the variance twice |
| `PointOfSale` | 2 sessions, 2 sales of up to 3 units for 4 cents, 1 row, a float of 1, one cash movement of 1 (2.53 million states) | `PosTypeOK`, `OneOpenSession`, `DrawerReconciles`, `ReturnsSettleSale` | overlapping openings, sales, returns by any method and either route and cash movements keep one drawer; its running cash adds up but for what the storefront's route paid out of it |
| `DrawerClose` | 1 session, 1 sale | `CloseCountsTheDrawer` **violated** | closing takes a wholly returned cash sale off twice |
| `Billing` | 1 tenant, 2 events, `MaxTime` 3, `Month` 2, `Year` 3, `Lead` 1, `MaxTrial` 1, `MaxEdits` 2, `FairSpec` (336,000 states) | `BillingTypeOK`, `RenewsExactBoundary`, `PastDueForCause`, `ClosedForBilling`, `SettledBillStands`, `EndedSubscriptionIsSettled`, `OwedRenewalIsHonoured`, `OwingCustomerHasBill` | worker, webhooks in any order, operators and the clock renew, suspend and settle with cause, and settle every ended period |

**Bounds.** *Orders*: `ListLimit` 1 is below the two lines that an order may
have, as the code's 50 is below a cart's 100. *Stock*: two reservations can compete for one row, share an order or
belong to two; the run without orders has three, so that a row holds two while a
third is refused or settled. Two rows let one operation touch a row that another
does not. Quantity 2 in a column of 2 allows one reservation to fill a row, two
to share it, or one unit to be left over; `ColumnMax` stands for the range of
`NUMERIC(14, 4)`, and the code's error when it is exceeded is a guard. Negative
`on_hand` is reached through overrides. *Transactions*: two sessions are enough
for every conflict of the code, which is between two transactions (two sweeps,
sweep and order, settle and settle); a third would lengthen cycles of waiting,
not add a kind. In `ReservationTx` both reservations are of one row, so the lock
on the balance is contended; `SweepSkew` has them on two rows, because with one
row the second sweep waits for the first at the balance and sees its commit
(`SweptOrderIsCancelled` was also checked with `SweepSkew`'s constants: it holds
in all 6.25 million states).
*Refunds and sales*: six cents for four units, or four for three, round both
ways and, in `Refund`, to nothing. *Back office*: two clerks are the least whose
requests on a count cross. two documents meet on two rows:
two transfers in opposite directions or to one row, a count during a transfer,
an order of two lines of one variant with receipts in two parts; a third
document repeats one of these. *Billing*: within three weeks a trial of one
ends, a month of two weeks is renewed from there, fails, is edited and ends
again, and a year of three is long enough to be told from it; two events are the least that
arrive out of order, and two edits the least that undo each other. Tenants do
not share state. The proofs below depend on none of these bounds.

**Symmetry** is declared only in runs whose properties are invariants or action
properties and step simulations (`PromiseSpec` and `ConsignmentSpec` have no
fairness); runs with liveness have none.

**Deadlock** is checked in all runs but two. In `Refund` an order that was
returned altogether, or of which nothing is refundable, allows no further
return, and that is the end of its life. In `Billing` clock, events and edits
are bounded, so that the instance runs out of things to happen.

**Fairness.** `ExpiryFairness`: time passes, and the worker expires a reservation
that stays stale and can be expired. It sweeps every 60 seconds, lists all due
reservations and goes on after an error on one of them
(`server/inventory/reservationService.ts`, `expireStaleReservations`), hence weak
fairness for each reservation. `FairTxSpec`: strong fairness of each session's
next statement, since the database queues those that wait for a lock and the
process issues the next statement when one returns; beginning and crashing are
not fair. `Billing!FairSpec`: weak fairness of a cycle that finds no row locked.
The worker runs its cycle on a timer and again after an error, and the
transactions that lock a subscription are short. No merchant, customer, operator
or webhook is fair, and the billing clock need not go on: what must happen
happens once the period *has* ended. The three billing properties hold in spite
of edits and late events, which may themselves end what was owed.

**Disagreements with the repository's own words** (the quotations are in
`PROJECT.json`, `findings`):

* goods that never left can be returned to stock (`StorefrontReturns`);
* two concurrent sweeps leave an order waiting for payment with all its
  reservations expired (`SweepSkew`);
* two concurrent approvals of a stock count post its variance twice
  (`CountTwice`); that a write on a stale read is the only way to it is checked,
  and proved, with any number of clerks (`PostedUnlessRaced`);
* a drawer that is closed after a cash sale was wholly returned is expected to
  hold less than it does: the sale no longer counts and its refund still does
  (`DrawerClose`). If the result is negative the session cannot be closed at all,
  which is the guard `ClosingCash(s) >= 0`.

**Where the code falls short of its words, inside a property that holds.** These
have no run of their own. The property that meets them names the exception, as
narrowly as the code allows, and says that nothing else breaks it.

* *Listings.* `orderService.ts:851` says that cancelling will "atomically release
  all ACTIVE reservations", `:920` that "every active reservation becomes
  fulfilled". Both list 50 rows once (`inventoryReservationRepository.ts:221`),
  and a cart may have 100 lines: the rest stays reserved after the order is
  closed. `ClosedOrderSettled` allows it only for an order of which as many
  reservations as a listing returns were let go.
* *Refunds of the till's cash.* `orderService.ts:994` calls its return ledger
  "authoritative for both POS and storefront sales". `refundOrder` pays cash back
  for a sale of the till and does not touch `pos_sessions.expected_cash`, so that
  the open drawer is expected to hold more than it does, until closing counts the
  refund from the ledger. `DrawerReconciles` says that the running cash is ahead
  by exactly those refunds (`webRefunded`).
* *Voided invoices.* `billingService.ts:348` says that "A paid invoice advances
  access only when it is a recurring renewal for the exact ended period". The
  renewal below it looks at the event and not at the invoice's status: a
  `payment.succeeded` for a voided renewal invoice leaves it void and renews the
  subscription. It is the disjunct `VoidRenewed` of `RenewsExactBoundary`, which
  needs a void invoice for just that boundary and a new event; the worker and the
  operator renew on paid invoices only.
* *Intervals.* `billingService.ts:204` says that manual settlement "must use the
  same period boundary rules as the recurring worker". It starts the period at
  the same moment; but after a change between monthly and yearly plans it, like
  the webhook, ends it where the invoice says, and the worker where the plan of
  the moment says, whichever comes first. `WorkerRenewed` and
  `SettlementRenewed` keep the two lengths apart.
* *Microseconds.* A renewal that was paid before the period ended is the worker's
  to make, and its UPDATE finds no row whose end has microseconds, which is what
  a merchant's own sign-up has until something rewrites it. The subscription
  then stays on trial, paid for and not renewed. `EndedSubscriptionIsSettled` and
  `OwedRenewalIsHonoured` leave out just that case (`Unmatched`, `exact`).
* *Late payment of a trial.* A trial that was cut short of its period and went
  past due has forgotten its own boundary: its invoice, paid late, renews
  nothing. `OwedRenewalIsHonoured` is about the invoice for the period's end.

Two more limits are stated as exceptions or guards. The check on `adjustReserved`
is applied to decrements too, so that stale reservations of a row that an override
took below its reserved quantity are not released (`StaleReservationsExpire`
leaves such rows out). Returns whose shares were rounded up can leave so little
that the last one is refused (the guards of `Return` and `Refundable`).

## 4. What is proved

TLAPS proves the following for every set of rows, reservations, orders,
transfers, sales and tenants, every quantity, column width, amount and length of
time; the sets of documents are finite.

* **`InventoryProofs`.** The inductive invariant `StockInvariant` is
  `TypeOK /\ ReservedIsHeld /\ LedgerAccountsForStock /\ NeverOversold`. No
  conjunct is inductive alone: that `reserved` stays a natural number when stock
  is given back needs `ReservedIsHeld`; `NeverOversold` is kept by a hold because
  `ReservedAccepted` tests the same difference that `Available` is. A hold of
  many reservations changes `reserved` by a sum; sums are cardinalities of sets
  of units (`Units`, `Total`), which lets `TotalUnion`, `TotalDifference`,
  `TotalInsert`, `TotalRemove`, `TotalAgrees` and `TotalElsewhere` do with
  `FiniteSetTheorems` what an induction over lists would. `PromiseKept` is the
  invariance under the abstract specification, so that whatever implements it
  inherits it; `InventoryKeepsPromise` is `Spec => PromiseSpec`; the invariants
  of the runs follow. `SettlementIsFinal` is the action property.
* **`StorefrontProofs`.** `StoreInvariant` adds `StoreTypeOK`, `PaidOrderStands`,
  `ChargedOnce` and `LinesOwned`: an order's lines refer to it, which is how
  cancelling finds them and why no other order settles them. `StoreKeepsPromise`
  is `StoreSpec => PromiseSpec`, and `StoreNeverOversells` and
  `StoreReservedExact` follow from it. `PaidOrdersStand`, `OrdersChargedOnce`,
  `OrdersAreMonotonic` are about the orders. `ClosedOrdersSettled` is proved for
  every length of listing and cart: a closed order's own lines hold nothing, or
  the listing was full and all it returned was let go. Its step is a cardinality:
  what a listing leaves out of `ActiveFor(o)` it leaves out only when it is full.
* **`RefundProofs`.** `OrdersRefundedToTheCent`: `RefundedToTheCent` is inductive
  with the types of what it compares and with `returned[v] <= sold[v]`, which the
  test "nothing remains" needs to mean that all came back. It assumes that an
  order has an item. `SharesAreFair` is about the rounding: until the last return
  a line has been paid back its proportional share within half a cent for each
  unit (`HalfUpIsNear`, `FairStepOfLine`). `LedgerInvariant` is about the sums:
  the order's `refunded` is what its lines got back together, and what came back
  of a variant is what requests without a key returned and what each key's record
  stands for. `LinesMatchLedger` and `RepeatedKeysRefundOnce` read their
  properties off it, and `RefundTypesCorrect` the ranges.
* **`ReservationTxProofs`.** `TxKeepsPromise` is `TxSpec => PromiseSpec`: for any
  number of sessions, sweepers, orders, rows and reservations, with deadlocks,
  errors and crashes, each commit is one whole transaction on the stock. The
  invariant `TxInvariant` says of every session what it may rely on at the
  statement it has come to: where it can be and what it then has (`Phases`);
  that what it has settled is ACTIVE and locked, with its balances, which still
  accept all of it together (`Settles`, with `SaleAccepted` and
  `ReturnAccepted` for what `Fulfill` and `GiveBack` ask); that a creation has
  the balance and then its key locked (`Makes`); that an order to be closed is
  locked in the status that closing it asks for (`Closes`). The acceptance is
  tested at one statement and used at a later one, which is why it has to be in
  the invariant. The argument has two halves: a statement that commits nothing
  changes only what its own session relies on (`StatementIsSound`), and a commit
  `Spares` every other session, because what it changes it has locked
  (`StepIsSound`, by `Undisturbed`). `AcceptOneMore` is the arithmetic: the
  balance accepts a reservation more along with those of the row that this
  transaction took already. From it follow `TxNeverOversells`,
  `TxSettlesForGood`, `TxTypeCorrect` and `TxOrdersMoveForward`, the steps that an
  order's status takes, of which `PaidOrdersKept` is a case.
  `LocksEndWithTransactions`: whoever holds a lock is in a transaction, however
  others ended. `SweptOrdersCancelled` holds for any number of
  sweepers: an order that is left waiting with nothing but expired reservations is
  one that two sweeps left to each other (`skewed`). Its invariant adds that any
  other waiting order keeps a reservation that has not expired and that no sweep
  is about to expire while leaving the order open (`WaitingCovered`), and that the
  order a sweep closes is that of the reservation it has marked (`Owns`).
* **`BackOfficeProofs`.** `OfficeInvariant` conjoins the stock's invariant with
  one for each service. `TransfersInvariant` adds `Routed`, that a transfer which has
  been created has both its rows: only then do the sums over `source` and
  `destination` change by what a dispatch or a receipt moves.
  `PurchasesInvariant` adds `NothingYet`, that an order which was not made has
  received nothing; the sum that a receipt adds to a row is taken off its lines
  by `TotalSum`, which matches units of two amounts with units of their sum.
  `OfficeStep` shows at once that every step keeps the invariant, is a step of
  the promise and a step of a consignment; from it follow `OfficeKeepsPromise`
  (and with it `OfficeNeverOversells`), `TransfersExact`,
  `TransfersAreConsignments` and `ReceiptsExact`. `CountsPostOnce` is about any
  number of clerks; its invariant adds that what a clerk has read of a count is
  still so unless another has overtaken it (`FreshFor`, `ReadIsFresh`), so that a
  count which nobody wrote on a stale read was approved once.
* **`PointOfSaleProofs`.** `TillInvariant` adds to the stock's invariant the
  types that the money needs, `SaleComesFirst` (nothing comes back from a sale
  that was not made), `OneOpenSession` and `ReturnsSettleSale`. The refund of the
  last return is what is left, which is why the sale settles to the cent;
  `Refundable` is what keeps the others from passing the total.
  `DrawersReconcile`: the running cash is what the drawer's records add up to, and
  the cash refunds of the storefront's route, of which `webRefunded` is the sum.
  Its invariant `DrawerInvariant` adds `SessionsComeFirst`: a session has no cash
  movement and no sale before it is opened, so that it opens with its float.
* **`SumsProofs`.** A sum is a cardinality (`Pieces`), for the same reason as
  `Total`: `SumUnion`, `SumInsert`, `SumChange`, `SumOfPart` and `SumPlus` are
  facts about finite sets where a fold would need an induction.
* **`BillingProofs`.** `BillingInvariant` is `BillingTypeOK` and
  `NobodyIsBilled`: who has no subscription has no invoice, so that no payment
  can create one. `StepChanges` lists every change that any step can make to a
  tenant's subscription and invoices, and for each renewal who made it, on which
  invoice and for how long (`Renews`); `RenewalsAreExact`, `ArrearsHaveCause`,
  `ClosedStaysClosed` and `SettledBillsStand` each read their property off it.

**Only model-checked.** Liveness (`StaleReservationsExpire`, `TransactionsEnd`,
`EndedSubscriptionIsSettled`, `OwedRenewalIsHonoured`, `OwingCustomerHasBill`),
which needs `ENABLED` and fairness and which the prover does not reach. Every
other property that a passing run checks is a theorem: the invariants, the
action properties and the refinements. None assumes a bound on the numbers of
sessions, clerks or reservations or on the listing; the theorems about refunds
assume that an order has an item.

## 5. What is not modelled, and the plan

Done, in this order: `Inventory` and its promise; `Storefront` over it;
`ReservationTx` under it; `Refund`; `Transfers`, `StockCounts` and `Purchasing`,
composed in `BackOffice`; `PointOfSale`; `Billing`. Next:

1. The orders of `ReservationTx` against those of `Storefront`: that a commit
   there is one of the order steps here, and not only one of the stock's.
2. Rotation of refresh tokens: a token that is used twice, at once or after it
   was rotated.

Parts of modelled components that are left out:

* idempotency keys of single movements: `recordMovement` reads again in an
  aborted transaction after a unique violation, and the request fails;
* the moving average cost, prices, taxes and discounts, which the modelled
  operations take as inputs;
* transactions of the till, of transfers, purchases and billing statement by
  statement: each locks the one row that it decides by first, so they are whole
  actions; the interleavings inside a transaction are explored in
  `ReservationTx`, and in `StockCounts` and `openSession`, which do not lock;
* transfers, counts and sales of several items, each of which repeats what the
  modelled one does;
* a billing batch that is full of subscriptions in arrears, which stay in it: the
  liveness above is for a subscription that the batch reaches;
* plan limits, the catalogue of plans and the users a tenant is provisioned with.

Components that are left out: authentication, MFA and email verification (a row
of one user at a time; hashing and token formats); catalog, customers, audit,
discovery, reporting and support (queries and single-row writes); migrations and
seeds; the storefront cart, which keeps no state; request parsing, validation and
formatting. The web client keeps no state that the server relies on: what it
shows is fetched, and what it sends is validated again. Client, marketplace and
seed data are most of the repository's lines, so the mapped lines are a small
part of it, though they are most of what changes stock, orders and money.

All modelled rows belong to one organization: every query is restricted to it,
and organizations share no rows. The embedded database runs its transactions one
at a time, which is a special case of `ReservationTx`.
