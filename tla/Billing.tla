------------------------------- MODULE Billing -------------------------------
(***************************************************************************)
(* Tenants, their subscriptions and the invoices of the platform.  Four    *)
(* actors change one subscription without knowing of each other: the       *)
(* recurring billing worker, the payment provider's webhooks, the operator *)
(* who settles invoices and edits subscriptions, and the operator who      *)
(* suspends, reactivates and archives the tenant.  Each operation is one   *)
(* transaction that locks the subscription or the invoice it changes, so   *)
(* each is one action.                                                     *)
(*                                                                         *)
(* A tenant gets its only subscription when it is provisioned.  Time is    *)
(* counted in invoice lead times (a week).                                 *)
(***************************************************************************)
EXTENDS Integers, FiniteSets

CONSTANTS
  Tenants,    \* organizations, each with the subscription it is given
  Events,     \* identities of the provider's webhook events
  MaxTime,    \* the last moment of the clock (a bound)
  Month,      \* a monthly billing interval, and the 30 days of a restored period
  Year,       \* a yearly billing interval
  Lead,       \* invoiceLeadDays, and the seven days to an invoice's due date
  MaxTrial,   \* the longest trial or extension an operator grants (a bound)
  MaxEdits,   \* how often operators intervene (a bound)
  BatchSize   \* how many subscriptions one cycle of the worker takes

ASSUME TenantsAssumption   == IsFiniteSet(Tenants)
ASSUME MaxTimeAssumption   == MaxTime \in Nat
ASSUME MonthAssumption     == Month \in Nat \ {0}
ASSUME YearAssumption      == Year \in Nat /\ Month < Year
ASSUME LeadAssumption      == Lead \in Nat
ASSUME MaxTrialAssumption  == MaxTrial \in Nat
ASSUME MaxEditsAssumption  == MaxEdits \in Nat
ASSUME BatchSizeAssumption == BatchSize \in Nat \ {0}

VARIABLES
  now,      \* the clock
  tenant,   \* organizations.lifecycle_status, "none" before it is provisioned
  sub,      \* organization_subscriptions: the row of each tenant
  bill,     \* billing_invoices.status: a tenant's renewal invoice for each
            \* renewal_period_start, and the one made by hand
  span,     \* billing_invoices.period_end of the renewal invoices: how long
            \* the period is that each of them is for
  handled,  \* billing_events: the events that are PROCESSED
  edits     \* how often operators have intervened so far

vars == <<now, tenant, sub, bill, span, handled, edits>>

-----------------------------------------------------------------------------
Horizon == MaxTime + Lead + Year     \* the latest end of a period (a bound)
Times   == 0 .. Horizon
Intervals == {Month, Year}           \* subscription_plans.billing_interval
NoTrial == -1                        \* trial_ends_at IS NULL
Manual  == -1                        \* the invoice that createInvoice makes
Bills   == Times \cup {Manual}

Billed       == {"active", "trialing", "past_due"}
Closed       == {"cancelled", "expired"}
SubStatuses  == {"none", "paused"} \cup Billed \cup Closed
Final        == {"paid", "void"}
BillStatuses == {"open", "past_due", "uncollectible"} \cup Final
Lifecycle    == {"none", "active", "suspended", "archived"}

\* free and interval belong to the plan.  current_period_end is exact when it is
\* a whole number of milliseconds, as whatever the program writes is; the row of
\* a sign-up, and those that migration 014 made, have PostgreSQL's microseconds.
Subscription ==
  [status : SubStatuses, start : Times, end : Times, trial : Times \cup {NoTrial},
   cancelAtEnd : BOOLEAN, free : BOOLEAN, interval : Intervals, exact : BOOLEAN]

Plans == [free : BOOLEAN, interval : Intervals]

NoSubscription ==
  [status |-> "none", start |-> 0, end |-> 0, trial |-> NoTrial,
   cancelAtEnd |-> FALSE, free |-> FALSE, interval |-> Month, exact |-> TRUE]

Later(a, b) == IF a < b THEN b ELSE a

TrialRuns(t)   == sub[t].trial > now
Trialing(t)    == sub[t].status = "trialing" /\ sub[t].trial # NoTrial
PeriodEnded(t) == sub[t].end <= now
TrialEnded(t)  == Trialing(t) /\ sub[t].trial <= now

\* A faulty variant, for BillingTypeOK: trial_ends_at may be NULL.
EarlierEnd(t) == IF sub[t].trial < sub[t].end THEN sub[t].trial ELSE sub[t].end

\* Where the next period starts, for the worker: at the end of the trial if it
\* comes first.
RenewalStart(t) ==
  IF Trialing(t) /\ sub[t].trial < sub[t].end THEN sub[t].trial ELSE sub[t].end

Active(s, start, end) ==
  [s EXCEPT !.status = "active", !.start = start, !.end = end, !.exact = TRUE,
            !.trial = NoTrial]

SetStatus(t, status) == sub' = [sub EXCEPT ![t].status = status]

Init ==
  /\ now     = 0
  /\ tenant  = [t \in Tenants |-> "none"]
  /\ sub     = [t \in Tenants |-> NoSubscription]
  /\ bill    = [t \in Tenants |-> [b \in Bills |-> "none"]]
  /\ span    = [t \in Tenants |-> [b \in Bills |-> Month]]
  /\ handled = {}
  /\ edits   = 0

-----------------------------------------------------------------------------
(* Tenants.                                                                *)

\* tenantProvisioningService.provisionTenant, which writes milliseconds, and a
\* merchant's own sign-up, which writes CURRENT_TIMESTAMP.
ProvisionTenant(t, days, plan, exact) ==
  /\ tenant[t] = "none"
  /\ now + days <= Horizon
  /\ tenant' = [tenant EXCEPT ![t] = "active"]
  /\ sub' = [sub EXCEPT ![t] =
               [status |-> "trialing", start |-> now, end |-> now + days,
                trial |-> now + days, cancelAtEnd |-> FALSE,
                free |-> plan.free, interval |-> plan.interval, exact |-> exact]]
  /\ UNCHANGED <<now, bill, span, handled, edits>>

\* suspendTenant.  A tenant that is suspended already is left as it is.
SuspendTenant(t) ==
  /\ tenant[t] = "active"
  /\ tenant' = [tenant EXCEPT ![t] = "suspended"]
  /\ IF sub[t].status \in Billed THEN SetStatus(t, "paused") ELSE UNCHANGED sub
  /\ UNCHANGED <<now, bill, span, handled>>

\* reactivateTenant, which writes the period's end anew in milliseconds.
ReactivateTenant(t) ==
  /\ tenant[t] = "suspended"
  /\ sub[t].status = "paused"
  /\ tenant' = [tenant EXCEPT ![t] = "active"]
  /\ sub' = [sub EXCEPT ![t] =
       [@ EXCEPT !.status = IF TrialRuns(t) THEN "trialing" ELSE "active",
                 !.start  = IF TrialRuns(t) THEN sub[t].start ELSE now,
                 !.end    = IF ~TrialRuns(t) /\ PeriodEnded(t)
                              THEN now + sub[t].interval ELSE sub[t].end,
                 !.exact  = TRUE,
                 !.cancelAtEnd = FALSE]]
  /\ UNCHANGED <<now, bill, span, handled>>

\* archiveTenant
ArchiveTenant(t) ==
  /\ tenant[t] \in {"active", "suspended"}
  /\ tenant' = [tenant EXCEPT ![t] = "archived"]
  /\ IF sub[t].status \in Closed
       THEN UNCHANGED sub
       ELSE sub' = [sub EXCEPT ![t].status = "cancelled", ![t].cancelAtEnd = FALSE]
  /\ UNCHANGED <<now, bill, span, handled>>

-----------------------------------------------------------------------------
(* What an operator does to a subscription: subscriptionService.  None of   *)
(* these looks at the tenant's lifecycle_status.                            *)

\* changePlan, to any other plan: one that costs nothing or something, monthly
\* or yearly.  The period and the invoices made for the next one stay.
ChangePlan(t, plan) ==
  /\ sub[t].status \notin Closed \cup {"none"}
  /\ sub' = [sub EXCEPT ![t].free = plan.free, ![t].interval = plan.interval]
  /\ UNCHANGED <<now, tenant, bill, span, handled>>

ExtendTrial(t, days) ==
  LET trial == days + IF TrialRuns(t) THEN sub[t].trial ELSE now
  IN  /\ sub[t].status \notin Closed \cup {"none"}
      /\ trial <= Horizon
      /\ sub' = [sub EXCEPT ![t].status = "trialing", ![t].trial = trial,
                            ![t].end = Later(@, trial), ![t].exact = TRUE]
      /\ UNCHANGED <<now, tenant, bill, span, handled>>

SuspendSubscription(t) ==
  /\ sub[t].status \in Billed
  /\ SetStatus(t, "paused")
  /\ UNCHANGED <<now, tenant, bill, span, handled>>

ReactivateSubscription(t) ==
  /\ sub[t].status \in {"past_due", "paused"}
  /\ SetStatus(t, IF TrialRuns(t) THEN "trialing" ELSE "active")
  /\ UNCHANGED <<now, tenant, bill, span, handled>>

CancelNow(t) ==
  /\ sub[t].status \notin {"none", "cancelled"}
  /\ sub' = [sub EXCEPT ![t].status = "cancelled", ![t].cancelAtEnd = FALSE]
  /\ UNCHANGED <<now, tenant, bill, span, handled>>

CancelAtPeriodEnd(t) ==
  /\ sub[t].status # "none"
  /\ ~sub[t].cancelAtEnd
  /\ sub' = [sub EXCEPT ![t].cancelAtEnd = TRUE]
  /\ UNCHANGED <<now, tenant, bill, span, handled>>

\* restoreSubscription.  It is refused while the plan is not for sale, which
\* is not followed here.
RestoreSubscription(t) ==
  /\ sub[t].status \in Closed \cup {"paused"}
  /\ sub' = [sub EXCEPT ![t] =
       [@ EXCEPT !.status = "active",
                 !.start  = IF PeriodEnded(t) THEN now ELSE sub[t].start,
                 !.end    = IF PeriodEnded(t) THEN now + Month ELSE sub[t].end,
                 !.exact  = TRUE,
                 !.cancelAtEnd = FALSE]]
  /\ UNCHANGED <<now, tenant, bill, span, handled>>

SubscriptionEdited(t) ==
  \/ \E plan \in Plans : ChangePlan(t, plan)
  \/ \E days \in 1 .. MaxTrial : ExtendTrial(t, days)
  \/ SuspendSubscription(t)
  \/ ReactivateSubscription(t)
  \/ CancelNow(t)
  \/ CancelAtPeriodEnd(t)
  \/ RestoreSubscription(t)

TenantEdited(t) ==
  \/ SuspendTenant(t)
  \/ ReactivateTenant(t)
  \/ ArchiveTenant(t)

-----------------------------------------------------------------------------
(* Invoices and the provider's events: billingService.                     *)

\* createInvoice, for the current period.  It is no renewal invoice, so that its
\* period is not asked for again.  One for each tenant (a bound).
CreateInvoice(t) ==
  /\ sub[t].status # "none"
  /\ bill[t][Manual] = "none"
  /\ bill' = [bill EXCEPT ![t][Manual] = "open"]
  /\ UNCHANGED <<now, tenant, sub, span, handled>>

\* A faulty variant, for RenewsExactBoundary: any renewal invoice will do.
AnyBoundary(t, b) == PeriodEnded(t) \/ TrialEnded(t)

\* The renewal boundary: the invoice's period starts where the current period,
\* or the trial, has just ended.
BoundaryMatches(t, b) ==
  \/ sub[t].end = b /\ PeriodEnded(t)
  \/ Trialing(t) /\ sub[t].trial = b /\ TrialEnded(t)

\* The subscription after the payment of invoice b, for whose period it is
\* renewed.
AfterPayment(t, b) ==
  IF /\ b # Manual
     /\ ~sub[t].cancelAtEnd
     /\ sub[t].status \in Billed
     /\ BoundaryMatches(t, b)
  THEN Active(sub[t], b, b + span[t][b])
  ELSE sub[t]

\* A faulty variant, for SettledBillStands: the last notice counts.
LastNotice(t, b, status) == status

\* A final status stays, whatever arrives.
AfterNotice(t, b, status) ==
  IF bill[t][b] \in Final THEN bill[t][b] ELSE status

\* transitionInvoiceStatus, by an operator.
SetInvoiceStatus(t, b, status) ==
  /\ bill[t][b] \in BillStatuses \ (Final \cup {status})
  /\ bill' = [bill EXCEPT ![t][b] = status]
  /\ sub'  = [sub EXCEPT ![t] = IF status = "paid" THEN AfterPayment(t, b) ELSE @]
  /\ UNCHANGED <<now, tenant, span, handled>>

\* A faulty variant, for PastDueForCause: an event is taken again.
ReceiveAgain(e) == handled' = handled \cup {e}

\* processWebhook takes an event once.  One that names an invoice nobody has
\* made is not acknowledged: nothing is stored, and the provider sends it again.
Receive(e) ==
  /\ e \notin handled
  /\ handled' = handled \cup {e}

\* invoice.paid, payment.succeeded.  The renewal asks what the event says and
\* not what became of the invoice.
PaymentSucceeded(e, t, b) ==
  /\ Receive(e)
  /\ bill[t][b] # "none"
  /\ bill' = [bill EXCEPT ![t][b] = AfterNotice(t, b, "paid")]
  /\ sub'  = [sub EXCEPT ![t] = AfterPayment(t, b)]
  /\ UNCHANGED <<now, tenant, span>>

\* A faulty variant, for ClosedForBilling: whatever the status is.
PastDueAlways(t) == SetStatus(t, "past_due")

\* A failure puts a subscription in arrears, unless it is closed.
PastDue(t) ==
  IF sub[t].status \in Closed THEN UNCHANGED sub ELSE SetStatus(t, "past_due")

\* invoice.payment_failed, payment.failed
PaymentFailed(e, t, b) ==
  /\ Receive(e)
  /\ bill[t][b] # "none"
  /\ bill' = [bill EXCEPT ![t][b] = AfterNotice(t, b, "past_due")]
  /\ IF bill[t][b] \in Final THEN UNCHANGED sub ELSE PastDue(t)
  /\ UNCHANGED <<now, tenant, span>>

\* invoice.voided
InvoiceVoided(e, t, b) ==
  /\ Receive(e)
  /\ bill[t][b] # "none"
  /\ bill' = [bill EXCEPT ![t][b] = AfterNotice(t, b, "void")]
  /\ UNCHANGED <<now, tenant, sub, span>>

\* subscription.past_due, with no invoice
SubscriptionPastDue(e, t) ==
  /\ Receive(e)
  /\ sub[t].status # "none"
  /\ PastDue(t)
  /\ UNCHANGED <<now, tenant, bill, span>>

WebhookNext ==
  /\ UNCHANGED edits
  /\ \E e \in Events, t \in Tenants :
       \/ \E b \in Bills : \/ PaymentSucceeded(e, t, b)
                           \/ PaymentFailed(e, t, b)
                           \/ InvoiceVoided(e, t, b)
       \/ SubscriptionPastDue(e, t)

OperatorNext ==
  /\ edits < MaxEdits
  /\ edits' = edits + 1
  /\ \E t \in Tenants :
       \/ TenantEdited(t)
       \/ SubscriptionEdited(t)
       \/ CreateInvoice(t)
       \/ \E b \in Bills, status \in BillStatuses : SetInvoiceStatus(t, b, status)

-----------------------------------------------------------------------------
(* The recurring billing worker.                                           *)

Due(t) ==
  /\ sub[t].status \in Billed
  /\ \/ sub[t].end <= now + Lead
     \/ Trialing(t) /\ sub[t].trial <= now + Lead

\* What one cycle takes: of the due subscriptions that nobody else has locked,
\* the BatchSize whose periods end first.
Batches(locked) ==
  LET free == {t \in Tenants \ locked : Due(t)}
  IN  {batch \in SUBSET free :
         /\ Cardinality(batch) <= BatchSize
         /\ batch # free => Cardinality(batch) = BatchSize
         /\ \A t \in batch, u \in free \ batch : sub[t].end <= sub[u].end}

Elapsed(t) == PeriodEnded(t) \/ TrialEnded(t)

\* A faulty variant, for OwedRenewalIsHonoured: the invoice of the period that
\* ended is looked up, not that of the next one.
PaidBefore(t) == bill[t][sub[t].start] = "paid"

Paid(t) == bill[t][RenewalStart(t)] = "paid"

\* A faulty variant, for EndedSubscriptionIsSettled: periods are left alone.
CycleTrialOnly(t) ==
  IF ~TrialEnded(t) THEN sub[t] ELSE [sub[t] EXCEPT !.status = "past_due"]

\* The renewal on an invoice paid ahead is for the interval of the plan of now.
\* Its UPDATE asks for the current_period_end that was read, in milliseconds,
\* and finds no row that has microseconds.
CycleSub(t) ==
  IF sub[t].cancelAtEnd /\ PeriodEnded(t)
  THEN [sub[t] EXCEPT !.status = "cancelled", !.cancelAtEnd = FALSE]
  ELSE IF ~Elapsed(t) THEN sub[t]
  ELSE IF Paid(t)
  THEN IF sub[t].cancelAtEnd \/ ~sub[t].exact
         THEN sub[t]
         ELSE Active(sub[t], RenewalStart(t), RenewalStart(t) + sub[t].interval)
  ELSE IF TrialEnded(t) /\ sub[t].free
  THEN [sub[t] EXCEPT !.status = "expired"]
  ELSE [sub[t] EXCEPT !.status = "past_due"]

\* A faulty variant, for OwingCustomerHasBill: only the advance window counts.
InvoicesAhead(t) ==
  /\ ~Elapsed(t)
  /\ ~(Trialing(t) /\ sub[t].free)
  /\ bill[t][RenewalStart(t)] = "none"

\* Does the cycle make the renewal invoice, if there is none?  Not for a trial
\* of a plan that costs nothing.
Invoices(t) ==
  /\ ~(sub[t].cancelAtEnd /\ PeriodEnded(t))
  /\ ~(Trialing(t) /\ sub[t].free /\ (TrialEnded(t) \/ ~Elapsed(t)))
  /\ bill[t][RenewalStart(t)] = "none"

\* Renewal invoices are due a week into their period.  When the one made by
\* hand is due its maker said: the cycle finds that moment past, or not.
Overdue(b) == b # Manual /\ b + Lead < now

CycleBill(t, b, batch, late) ==
  LET made == t \in batch /\ Invoices(t) /\ b = RenewalStart(t)
      open == made \/ bill[t][b] = "open"
  IN  IF open /\ (Overdue(b) \/ (b = Manual /\ t \in late)) THEN "past_due"
      ELSE IF made THEN "open"
      ELSE bill[t][b]

\* The period of an invoice is fixed when it is made.
CycleSpan(t, b, batch) ==
  IF t \in batch /\ Invoices(t) /\ b = RenewalStart(t) THEN sub[t].interval ELSE span[t][b]

\* processCycle for the subscriptions of one batch.
Process(batch, late) ==
  /\ sub'  = [t \in Tenants |-> IF t \in batch THEN CycleSub(t) ELSE sub[t]]
  /\ bill' = [t \in Tenants |-> [b \in Bills |-> CycleBill(t, b, batch, late)]]
  /\ span' = [t \in Tenants |-> [b \in Bills |-> CycleSpan(t, b, batch)]]
  /\ UNCHANGED <<now, tenant, handled, edits>>

Cycle(locked) ==
  \E batch \in Batches(locked), late \in SUBSET Tenants : Process(batch, late)

Tick ==
  /\ now < MaxTime
  /\ now' = now + 1
  /\ UNCHANGED <<tenant, sub, bill, span, handled, edits>>

Next ==
  \/ \E t \in Tenants, days \in 0 .. MaxTrial, plan \in Plans, exact \in BOOLEAN :
       ProvisionTenant(t, days, plan, exact)
  \/ OperatorNext
  \/ WebhookNext
  \/ \E locked \in SUBSET Tenants : Cycle(locked)
  \/ Tick

Spec == Init /\ [][Next]_vars

\* The worker runs its cycle for as long as the server runs; an error is
\* retried by the next one.  The transactions that hold a subscription's lock
\* are short, so that it finds every one of them free again and again.
FairSpec == Spec /\ WF_vars(Cycle({}))

-----------------------------------------------------------------------------
BillingTypeOK ==
  /\ now     \in 0 .. MaxTime
  /\ tenant  \in [Tenants -> Lifecycle]
  /\ sub     \in [Tenants -> Subscription]
  /\ bill    \in [Tenants -> [Bills -> BillStatuses \cup {"none"}]]
  /\ span    \in [Tenants -> [Bills -> Intervals]]
  /\ handled \subseteq Events
  /\ edits   \in 0 .. MaxEdits

Renewed(t) ==
  /\ sub[t].status \in Billed
  /\ sub'[t].status = "active"
  /\ <<sub'[t].start, sub'[t].end>> # <<sub[t].start, sub[t].end>>

\* Who renewed subscription t from b in this step, and for how long: the worker
\* on an invoice paid ahead, for the plan's interval; an operator or the provider
\* who settles the invoice, for the invoice's period.
WorkerRenewed(t, b) ==
  /\ UNCHANGED <<handled, edits>>
  /\ bill[t][b] = "paid"
  /\ sub'[t].end = b + sub[t].interval

SettlementRenewed(t, b) ==
  /\ handled' # handled \/ edits' # edits
  /\ bill'[t][b] = "paid"
  /\ sub'[t].end = b + span[t][b]

\* The provider reports as paid what was voided before.
VoidRenewed(t, b) ==
  /\ handled' # handled
  /\ bill[t][b] = "void"
  /\ sub'[t].end = b + span[t][b]

\* Three paths renew a period: the worker, a webhook and an operator who marks
\* an invoice paid.  In any order they advance a subscription only from the
\* very moment its period or its trial ended, once that moment has passed, never
\* over a scheduled cancellation, and on the renewal invoice for just that start
\* once it is paid.  The last disjunct is what the code falls short of: its
\* comment says "A paid invoice advances access only when it is a recurring
\* renewal for the exact ended period", yet a provider's success that arrives
\* for a voided invoice leaves it void and advances access all the same; the
\* property says that nothing but a new event does so.  The paths also differ
\* in the length of the period after a change between monthly and yearly plans.
RenewsExactBoundary ==
  [][\A t \in Tenants :
       Renewed(t) =>
         LET b == sub'[t].start
         IN  /\ b <= now
             /\ b = sub[t].end \/ (sub[t].status = "trialing" /\ b = sub[t].trial)
             /\ ~sub[t].cancelAtEnd
             /\ \/ WorkerRenewed(t, b)
                \/ SettlementRenewed(t, b)
                \/ VoidRenewed(t, b)]_vars

\* A customer who may use the service is put in arrears for a reason: the
\* period or the trial is over, or the provider reports a failure that was not
\* reported before.  A notice delivered twice does not undo a reactivation.
PastDueForCause ==
  [][\A t \in Tenants :
       sub[t].status \in {"active", "trialing"} /\ sub'[t].status = "past_due"
         => \/ sub[t].end <= now
            \/ sub[t].status = "trialing" /\ sub[t].trial \in 0 .. now
            \/ handled' # handled]_vars

\* A subscription that was cancelled or has expired is out of billing's reach:
\* no late payment, failure or cycle revives it, and an operator who restores
\* it gives it a period that has not ended and no scheduled cancellation.
ClosedForBilling ==
  [][\A t \in Tenants :
       sub[t].status \in Closed =>
         \/ sub'[t].status \in Closed
         \/ /\ sub'[t].status = "active"
            /\ sub'[t].end > now
            /\ ~sub'[t].cancelAtEnd]_vars

\* Events arrive out of order: what was paid or voided stays so.
SettledBillStands ==
  [][\A t \in Tenants, b \in Bills :
       bill[t][b] \in Final => bill'[t][b] = bill[t][b]]_vars

\* A renewal that the worker cannot make: it was paid before the period ended,
\* and the worker's UPDATE does not find the microseconds of the row.
Unmatched(t) == ~sub[t].exact /\ Paid(t)

\* A subscription whose period is over does not stay active or on trial: it is
\* renewed, cancelled, expired or past due.  All but the one that cannot be
\* matched, which the code leaves as it is until an operator steps in.
EndedSubscriptionIsSettled ==
  \A t \in Tenants :
    (sub[t].status \in {"active", "trialing"} /\ sub[t].end <= now /\ ~Unmatched(t))
      ~> (sub[t].status \notin {"active", "trialing"} \/ sub[t].end > now)

OwedRenewal(t) ==
  /\ sub[t].status \in Billed
  /\ ~sub[t].cancelAtEnd
  /\ sub[t].end <= now
  /\ bill[t][sub[t].end] = "paid"
  /\ ~(Trialing(t) /\ sub[t].trial < sub[t].end)

\* Whoever paid for the period that follows the one that ended gets it, however
\* the payment and the end of the period fell: before it, after a failure, or
\* when the subscription was past due already.  Two customers who paid are left
\* out, because the code leaves them out: the one whose row cannot be matched,
\* and the one who pays for a trial that ended before the period did once the
\* subscription is past due and has forgotten the trial.
OwedRenewalIsHonoured ==
  \A t \in Tenants : (OwedRenewal(t) /\ sub[t].exact) ~> ~OwedRenewal(t)

\* Whoever is in arrears has an invoice to pay for the period that is owed, also
\* when the worker slept through the week before it.
OwingCustomerHasBill ==
  \A t \in Tenants :
    (sub[t].status = "past_due" /\ sub[t].end <= now)
      ~> \/ sub[t].status # "past_due"
         \/ sub[t].end > now
         \/ bill[t][sub[t].end] # "none"
         \/ sub[t].cancelAtEnd
=============================================================================
