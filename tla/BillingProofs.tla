---------------------------- MODULE BillingProofs ----------------------------
(***************************************************************************)
(* Proofs about Billing for any tenants, events, intervals and bounds: its *)
(* type invariant and its four action properties.                          *)
(***************************************************************************)
EXTENDS Billing, TLAPS

-----------------------------------------------------------------------------
(* The inductive invariant: types, and that nobody has a subscription      *)
(* without a tenant or an invoice without a subscription.                  *)

NobodyIsBilled ==
  \A t \in Tenants :
    /\ tenant[t] = "none" => sub[t].status = "none"
    /\ \A b \in Bills : bill[t][b] # "none" => sub[t].status # "none"

BillingInvariant == BillingTypeOK /\ NobodyIsBilled

\* The sets of moments, and what they leave room for.
LEMMA Moments ==
  /\ Horizon \in Nat
  /\ Intervals \subseteq Nat \ {0}
  /\ \A d \in Intervals : MaxTime + d <= Horizon
  /\ Times \subseteq Nat
  /\ -1 \notin Times
  /\ \A x : x \in Times <=> x \in Nat /\ x <= Horizon
  BY MaxTimeAssumption, LeadAssumption, MonthAssumption, YearAssumption
     DEF Horizon, Times, Intervals

\* What may be added to the time of now.
LEMMA LaterTimes ==
  ASSUME now \in 0 .. MaxTime, NEW b \in Times, b <= now, NEW d \in Intervals
  PROVE  b + d \in Times
<1>1. b \in Nat /\ d \in Nat /\ b + d <= MaxTime + d /\ MaxTime + d <= Horizon
  BY Moments, MaxTimeAssumption
<1>2. QED
  BY <1>1, Moments, MaxTimeAssumption

LEMMA InitBilling == Init => BillingInvariant
  BY Moments, MaxTimeAssumption, MaxEditsAssumption
     DEF Init, BillingInvariant, BillingTypeOK, NobodyIsBilled, NoSubscription,
         Subscription, SubStatuses, Lifecycle, BillStatuses, NoTrial, Intervals

\* What a subscription is made of.
LEMMA Fields ==
  ASSUME NEW s \in Subscription
  PROVE  /\ s.status \in SubStatuses
         /\ s.start \in Times /\ s.end \in Times
         /\ s.trial \in Times \cup {NoTrial}
         /\ s.cancelAtEnd \in BOOLEAN /\ s.free \in BOOLEAN
         /\ s.interval \in Intervals /\ s.exact \in BOOLEAN
  BY DEF Subscription

-----------------------------------------------------------------------------
(* What the steps do to one subscription and to one invoice.               *)

\* A renewal: from a boundary that has passed, for the interval d.
RenewedAt(s, b, d, new) ==
  /\ s.status \in Billed
  /\ ~s.cancelAtEnd
  /\ b \in Times /\ b <= now
  /\ b = s.end \/ (s.status = "trialing" /\ b = s.trial)
  /\ new = Active(s, b, b + d)

\* What an operator makes of a subscription: nothing that puts it in arrears or
\* renews it, and nothing stale of one that was closed.
Edited(s, new) ==
  /\ new.status # "none"
  /\ new.status = "past_due" => s.status = "past_due"
  /\ s.status \in Billed /\ new.status = "active" =>
       new.start = s.start /\ new.end = s.end
  /\ s.status \in Closed =>
       \/ new.status \in Closed
       \/ new.status = "active" /\ new.end > now /\ ~new.cancelAtEnd

\* A renewal by payment is one at the invoice's boundary.
LEMMA PaymentRenews ==
  ASSUME BillingTypeOK, NEW t \in Tenants, NEW b \in Bills
  PROVE  \/ AfterPayment(t, b) = sub[t]
         \/ RenewedAt(sub[t], b, span[t][b], AfterPayment(t, b))
<1>1. b \in Times \/ b = Manual
  BY DEF Bills
<1>2. sub[t] \in Subscription
  BY DEF BillingTypeOK
<1>3. QED
  BY <1>1, <1>2
     DEF AfterPayment, RenewedAt, BoundaryMatches, PeriodEnded, TrialEnded, Trialing

\* Where the worker renews from.
LEMMA StartOfRenewal ==
  ASSUME BillingTypeOK, NEW t \in Tenants
  PROVE  /\ RenewalStart(t) \in Times
         /\ \/ RenewalStart(t) = sub[t].end
            \/ sub[t].status = "trialing" /\ RenewalStart(t) = sub[t].trial
         /\ Elapsed(t) => RenewalStart(t) <= now
<1>1. sub[t] \in Subscription /\ now \in Nat
  BY MaxTimeAssumption DEF BillingTypeOK
<1>2. sub[t].end \in Times /\ sub[t].trial \in Times \cup {NoTrial}
  BY <1>1, Fields
<1>3. sub[t].end \in Nat /\ (Trialing(t) => sub[t].trial \in Times /\ sub[t].trial \in Nat)
  BY <1>2, Moments DEF Trialing
<1>4. QED
  BY <1>1, <1>2, <1>3
     DEF RenewalStart, Elapsed, PeriodEnded, TrialEnded, Trialing

\* A cycle leaves a subscription as it is, renews it on a paid invoice, or gives
\* it another status and nothing but that, and at most a cancellation.
LEMMA CycleOfOne ==
  ASSUME BillingTypeOK, NEW t \in Tenants, sub[t].status \in Billed
  PROVE  \/ CycleSub(t) = sub[t]
         \/ /\ Paid(t)
            /\ RenewedAt(sub[t], RenewalStart(t), sub[t].interval, CycleSub(t))
         \/ /\ Elapsed(t)
            /\ \E status \in {"cancelled", "expired", "past_due"}, cancel \in BOOLEAN :
                 CycleSub(t) = [sub[t] EXCEPT !.status = status, !.cancelAtEnd = cancel]
<1>1. sub[t] \in Subscription
  BY DEF BillingTypeOK
<1>2. sub[t].cancelAtEnd \in BOOLEAN
  BY <1>1, Fields
<1>3. \A status : [sub[t] EXCEPT !.status = status]
                    = [sub[t] EXCEPT !.status = status, !.cancelAtEnd = sub[t].cancelAtEnd]
  BY <1>1 DEF Subscription
<1>4. CASE sub[t].cancelAtEnd /\ PeriodEnded(t)
  BY <1>4 DEF CycleSub, Elapsed
<1>5. CASE ~(sub[t].cancelAtEnd /\ PeriodEnded(t)) /\ ~Elapsed(t)
  BY <1>5 DEF CycleSub
<1>6. CASE ~(sub[t].cancelAtEnd /\ PeriodEnded(t)) /\ Elapsed(t) /\ Paid(t)
  BY <1>6, StartOfRenewal DEF CycleSub, RenewedAt
<1>7. CASE ~(sub[t].cancelAtEnd /\ PeriodEnded(t)) /\ Elapsed(t) /\ ~Paid(t)
  <2>1. \/ CycleSub(t) = [sub[t] EXCEPT !.status = "expired"]
        \/ CycleSub(t) = [sub[t] EXCEPT !.status = "past_due"]
    BY <1>7 DEF CycleSub
  <2>2. QED
    BY <1>2, <1>3, <1>7, <2>1
<1>8. QED
  BY <1>4, <1>5, <1>6, <1>7

\* A renewed subscription is one.
LEMMA RenewedType ==
  ASSUME BillingTypeOK, NEW s \in Subscription, NEW b, NEW d \in Intervals, NEW new,
         RenewedAt(s, b, d, new)
  PROVE  new \in Subscription
<1>1. b \in Times /\ b + d \in Times
  BY LaterTimes DEF RenewedAt, BillingTypeOK
<1>2. new = [s EXCEPT !.status = "active", !.start = b, !.end = b + d,
                      !.exact = TRUE, !.trial = NoTrial]
  BY DEF RenewedAt, Active
<1>3. QED
  BY <1>1, <1>2 DEF Subscription, SubStatuses, Billed

-----------------------------------------------------------------------------
(* Types.                                                                  *)

SubType == sub \in [Tenants -> Subscription]

\* A subscription that is rewritten as one.
LEMMA Rewritten ==
  ASSUME SubType, NEW t \in Tenants, NEW new \in Subscription,
         sub' = [sub EXCEPT ![t] = new]
  PROVE  SubType' /\ sub'[t] = new /\ \A u \in Tenants \ {t} : sub'[u] = sub[u]
  BY DEF SubType

\* What the operators' and the provider's steps may write of a subscription.
LEMMA Statuses ==
  ASSUME NEW s \in Subscription, NEW status \in SubStatuses, NEW cancel \in BOOLEAN
  PROVE  /\ [s EXCEPT !.status = status] \in Subscription
         /\ [s EXCEPT !.status = status, !.cancelAtEnd = cancel] \in Subscription
  BY DEF Subscription

\* Suspending, reactivating and archiving a tenant.
LEMMA TenantTypes ==
  ASSUME BillingInvariant, NEW t \in Tenants, TenantEdited(t)
  PROVE  /\ SubType' /\ NobodyIsBilled'
         /\ tenant' \in [Tenants -> Lifecycle] /\ UNCHANGED <<now, bill, span, handled>>
         /\ \A u \in Tenants : sub'[u] = sub[u] \/ Edited(sub[u], sub'[u])
<1>1. /\ SubType /\ sub[t] \in Subscription /\ tenant \in [Tenants -> Lifecycle]
      /\ NobodyIsBilled
  BY DEF BillingInvariant, BillingTypeOK, SubType
<1>2. /\ now + sub[t].interval \in Times /\ now \in Times
      /\ sub[t].start \in Times /\ sub[t].end \in Times
  <2>1. /\ sub[t].start \in Times /\ sub[t].end \in Times
        /\ sub[t].interval \in Intervals
    BY <1>1, Fields
  <2>2. now \in 0 .. MaxTime /\ now \in Times /\ now <= now
    BY Moments, MaxTimeAssumption, MonthAssumption
       DEF BillingInvariant, BillingTypeOK, Intervals
  <2>3. QED
    BY <2>1, <2>2, LaterTimes
<1>3. {"paused", "active", "trialing", "cancelled"} \subseteq SubStatuses
  BY DEF SubStatuses, Billed, Closed
<1>4. tenant' \in [Tenants -> Lifecycle] /\ UNCHANGED <<now, bill, span, handled>>
  BY <1>1 DEF TenantEdited, SuspendTenant, ReactivateTenant, ArchiveTenant, Lifecycle
<1>5. \A u \in Tenants : tenant'[u] = "none" => tenant[u] = "none" /\ u # t
  BY <1>1 DEF TenantEdited, SuspendTenant, ReactivateTenant, ArchiveTenant, Lifecycle
<1>6. \/ UNCHANGED sub
      \/ \E new \in Subscription :
           sub' = [sub EXCEPT ![t] = new] /\ Edited(sub[t], new)
  <2>1. CASE SuspendTenant(t)
    <3> DEFINE new == [sub[t] EXCEPT !.status = "paused"]
    <3>1. new \in Subscription /\ new.status = "paused"
      BY <1>1, <1>3, Statuses DEF Subscription
    <3>2. sub[t].status \in Billed => Edited(sub[t], new)
      BY <3>1 DEF Edited, Billed, Closed
    <3>3. QED
      BY <2>1, <3>1, <3>2 DEF SuspendTenant, SetStatus
  <2>2. CASE ReactivateTenant(t)
    <3> DEFINE new == [sub[t] EXCEPT
                         !.status = IF TrialRuns(t) THEN "trialing" ELSE "active",
                         !.start  = IF TrialRuns(t) THEN sub[t].start ELSE now,
                         !.end    = IF ~TrialRuns(t) /\ PeriodEnded(t)
                                      THEN now + sub[t].interval ELSE sub[t].end,
                         !.exact  = TRUE,
                         !.cancelAtEnd = FALSE]
    <3>1. new \in Subscription /\ new.status \in {"trialing", "active"}
      BY <1>1, <1>2, <1>3 DEF Subscription
    <3>2. sub[t].status = "paused" => Edited(sub[t], new)
      BY <3>1 DEF Edited, Billed, Closed
    <3>3. QED
      BY <2>2, <3>1, <3>2 DEF ReactivateTenant
  <2>3. CASE ArchiveTenant(t)
    <3> DEFINE new == [sub[t] EXCEPT !.status = "cancelled", !.cancelAtEnd = FALSE]
    <3>1. new \in Subscription /\ new.status = "cancelled"
      BY <1>1, <1>3, Statuses DEF Subscription
    <3>2. Edited(sub[t], new)
      BY <3>1 DEF Edited, Closed
    <3>3. QED
      BY <2>3, <3>1, <3>2 DEF ArchiveTenant
  <2>4. QED
    BY <2>1, <2>2, <2>3 DEF TenantEdited
<1>7. SubType' /\ \A u \in Tenants : sub'[u] = sub[u] \/ Edited(sub[u], sub'[u])
  BY <1>1, <1>6, Rewritten DEF SubType
<1>8. \A u \in Tenants : tenant'[u] = "none" => sub'[u] = sub[u]
  BY <1>1, <1>5, <1>6, Rewritten
<1>9. QED
  BY <1>1, <1>4, <1>5, <1>7, <1>8 DEF NobodyIsBilled, Edited

\* Editing a subscription.
LEMMA SubscriptionTypes ==
  ASSUME BillingInvariant, NEW t \in Tenants, SubscriptionEdited(t)
  PROVE  /\ SubType' /\ NobodyIsBilled' /\ UNCHANGED <<now, tenant, bill, span, handled>>
         /\ \A u \in Tenants : sub'[u] = sub[u] \/ Edited(sub[u], sub'[u])
<1>1. SubType /\ sub[t] \in Subscription /\ NobodyIsBilled
  BY DEF BillingInvariant, BillingTypeOK, SubType
<1>2. /\ now \in Nat /\ now + Month \in Times /\ now \in Times
      /\ sub[t].start \in Times /\ sub[t].end \in Times
      /\ sub[t].trial \in Times \cup {NoTrial}
  <2>1. /\ sub[t].start \in Times /\ sub[t].end \in Times
        /\ sub[t].trial \in Times \cup {NoTrial}
    BY <1>1, Fields
  <2>2. now \in 0 .. MaxTime /\ now \in Nat /\ now \in Times /\ now <= now
    BY Moments, MaxTimeAssumption, MonthAssumption
       DEF BillingInvariant, BillingTypeOK, Intervals
  <2>3. QED
    BY <2>1, <2>2, LaterTimes DEF Intervals
<1>3. {"paused", "active", "trialing", "cancelled"} \subseteq SubStatuses
  BY DEF SubStatuses, Billed, Closed
<1>4. /\ \E new \in Subscription :
           sub' = [sub EXCEPT ![t] = new] /\ Edited(sub[t], new)
      /\ sub[t].status # "none"
      /\ UNCHANGED <<now, tenant, bill, span, handled>>
  <2>1. ASSUME NEW plan \in Plans, ChangePlan(t, plan)
        PROVE  /\ \E new \in Subscription :
                    sub' = [sub EXCEPT ![t] = new] /\ Edited(sub[t], new)
               /\ sub[t].status # "none"
               /\ UNCHANGED <<now, tenant, bill, span, handled>>
    <3> DEFINE new == [sub[t] EXCEPT !.free = plan.free, !.interval = plan.interval]
    <3>1. /\ new \in Subscription /\ new.status = sub[t].status
          /\ new.start = sub[t].start /\ new.end = sub[t].end
      BY <1>1 DEF Subscription, Plans
    <3>2. sub[t].status \notin Closed \cup {"none"} => Edited(sub[t], new)
      BY <3>1 DEF Edited
    <3>3. QED
      BY <2>1, <3>1, <3>2 DEF ChangePlan
  <2>2. ASSUME NEW days \in 1 .. MaxTrial, ExtendTrial(t, days)
        PROVE  /\ \E new \in Subscription :
                    sub' = [sub EXCEPT ![t] = new] /\ Edited(sub[t], new)
               /\ sub[t].status # "none"
               /\ UNCHANGED <<now, tenant, bill, span, handled>>
    <3> DEFINE trial == days + IF TrialRuns(t) THEN sub[t].trial ELSE now
               new   == [sub[t] EXCEPT !.status = "trialing", !.trial = trial,
                                       !.end = Later(sub[t].end, trial),
                                       !.exact = TRUE]
    <3>1. trial \in Times
      BY <1>2, <2>2, Moments, MaxTrialAssumption DEF ExtendTrial, TrialRuns, NoTrial
    <3>2. Later(sub[t].end, trial) \in Times
      BY <1>2, <3>1 DEF Later
    <3>3. new \in Subscription /\ new.status = "trialing"
      BY <1>1, <1>3, <3>1, <3>2 DEF Subscription
    <3>4. sub[t].status \notin Closed \cup {"none"} => Edited(sub[t], new)
      BY <3>3 DEF Edited
    <3>5. QED
      BY <2>2, <3>3, <3>4 DEF ExtendTrial
  <2>3. CASE SuspendSubscription(t)
    <3> DEFINE new == [sub[t] EXCEPT !.status = "paused"]
    <3>1. new \in Subscription /\ new.status = "paused"
      BY <1>1, <1>3, Statuses DEF Subscription
    <3>2. sub[t].status \in Billed => Edited(sub[t], new)
      BY <3>1 DEF Edited, Billed, Closed
    <3>3. QED
      BY <2>3, <3>1, <3>2 DEF SuspendSubscription, SetStatus, Billed
  <2>4. CASE ReactivateSubscription(t)
    <3> DEFINE status == IF TrialRuns(t) THEN "trialing" ELSE "active"
    <3> DEFINE new == [sub[t] EXCEPT !.status = status]
    <3>1. /\ new \in Subscription /\ new.status = status
          /\ new.start = sub[t].start /\ new.end = sub[t].end
      BY <1>1, <1>3, Statuses DEF Subscription
    <3>2. sub[t].status \in {"past_due", "paused"} => Edited(sub[t], new)
      BY <3>1 DEF Edited, Closed
    <3>3. QED
      BY <2>4, <3>1, <3>2 DEF ReactivateSubscription, SetStatus
  <2>5. CASE CancelNow(t)
    <3> DEFINE new == [sub[t] EXCEPT !.status = "cancelled", !.cancelAtEnd = FALSE]
    <3>1. new \in Subscription /\ new.status = "cancelled"
      BY <1>1, <1>3, Statuses DEF Subscription
    <3>2. Edited(sub[t], new)
      BY <3>1 DEF Edited, Closed
    <3>3. QED
      BY <2>5, <3>1, <3>2 DEF CancelNow
  <2>6. CASE CancelAtPeriodEnd(t)
    <3> DEFINE new == [sub[t] EXCEPT !.cancelAtEnd = TRUE]
    <3>1. /\ new \in Subscription /\ new.status = sub[t].status
          /\ new.start = sub[t].start /\ new.end = sub[t].end
      BY <1>1 DEF Subscription
    <3>2. sub[t].status # "none" => Edited(sub[t], new)
      BY <3>1 DEF Edited
    <3>3. QED
      BY <2>6, <3>1, <3>2 DEF CancelAtPeriodEnd
  <2>7. CASE RestoreSubscription(t)
    <3> DEFINE new == [sub[t] EXCEPT
                         !.status = "active",
                         !.start  = IF PeriodEnded(t) THEN now ELSE sub[t].start,
                         !.end    = IF PeriodEnded(t) THEN now + Month ELSE sub[t].end,
                         !.exact  = TRUE,
                         !.cancelAtEnd = FALSE]
    <3> DEFINE end == IF PeriodEnded(t) THEN now + Month ELSE sub[t].end
    <3>0. end \in Times /\ end > now
      BY <1>2, Moments, MonthAssumption DEF PeriodEnded
    <3>1. /\ new \in Subscription /\ new.status = "active"
          /\ new.end = end /\ new.cancelAtEnd = FALSE
      BY <1>1, <1>2, <1>3 DEF Subscription
    <3>2. sub[t].status \in Closed \cup {"paused"} => Edited(sub[t], new)
      BY <3>0, <3>1 DEF Edited, Closed, Billed
    <3>3. QED
      BY <2>7, <3>1, <3>2 DEF RestoreSubscription, Closed
  <2>8. QED
    BY <2>1, <2>2, <2>3, <2>4, <2>5, <2>6, <2>7 DEF SubscriptionEdited
<1>5. SubType' /\ \A u \in Tenants : sub'[u] = sub[u] \/ Edited(sub[u], sub'[u])
  BY <1>1, <1>4, Rewritten DEF SubType
<1>6. \A u \in Tenants : tenant[u] = "none" => sub'[u] = sub[u]
  BY <1>1, <1>4, Rewritten DEF NobodyIsBilled
<1>7. QED
  BY <1>1, <1>4, <1>5, <1>6 DEF NobodyIsBilled, Edited

\* The payment of an invoice keeps a subscription's type.
LEMMA PaymentType ==
  ASSUME BillingTypeOK, NEW t \in Tenants, NEW b \in Bills
  PROVE  /\ AfterPayment(t, b) \in Subscription
         /\ sub[t].status = "none" => AfterPayment(t, b) = sub[t]
<1>1. sub[t] \in Subscription /\ span[t][b] \in Intervals
  BY DEF BillingTypeOK
<1>2. QED
  BY <1>1, PaymentRenews, RenewedType DEF RenewedAt, Billed

-----------------------------------------------------------------------------
(* Invoices.                                                               *)

BillType == bill \in [Tenants -> [Bills -> BillStatuses \cup {"none"}]]
SpanType == span \in [Tenants -> [Bills -> Intervals]]

\* The two steps of an invoice: it is made for a subscription, or it exists and
\* moves on unless its status is final.
BillMoves(t, b) ==
  \/ bill'[t][b] = bill[t][b]
  \/ /\ bill[t][b] \notin Final
     /\ sub[t].status # "none"

\* One invoice is written.
LEMMA BillWritten ==
  ASSUME BillType, NEW t \in Tenants, NEW b \in Bills,
         NEW status \in BillStatuses \cup {"none"},
         bill' = [bill EXCEPT ![t][b] = status],
         status = bill[t][b] \/ (bill[t][b] \notin Final /\ sub[t].status # "none")
  PROVE  /\ BillType'
         /\ bill'[t][b] = status
         /\ \A u \in Tenants, c \in Bills : BillMoves(u, c)
<1> DEFINE row == [bill[t] EXCEPT ![b] = status]
<1>1. row \in [Bills -> BillStatuses \cup {"none"}]
  BY DEF BillType
<1>2. bill' = [bill EXCEPT ![t] = row]
  OBVIOUS
<1>3. /\ bill'[t] = row /\ row[b] = status
      /\ \A u \in Tenants \ {t} : bill'[u] = bill[u]
      /\ \A c \in Bills \ {b} : row[c] = bill[t][c]
  BY <1>2 DEF BillType
<1>4. BillType'
  BY <1>1, <1>2 DEF BillType
<1>5. QED
  BY <1>3, <1>4 DEF BillMoves

\* A notice about an invoice.
LEMMA NoticeWrites ==
  ASSUME BillingInvariant, NEW t \in Tenants, NEW b \in Bills, NEW status \in BillStatuses,
         bill[t][b] # "none", bill' = [bill EXCEPT ![t][b] = AfterNotice(t, b, status)]
  PROVE  /\ BillType'
         /\ bill'[t][b] \in {bill[t][b], status}
         /\ status \in Final => bill'[t][b] \in Final
         /\ sub[t].status # "none"
         /\ \A u \in Tenants, c \in Bills : BillMoves(u, c)
<1>1. BillType /\ NobodyIsBilled
  BY DEF BillingInvariant, BillingTypeOK, BillType
<1>2. AfterNotice(t, b, status) \in BillStatuses \cup {"none"}
  BY <1>1 DEF AfterNotice, BillType
<1>3. sub[t].status # "none"
  BY <1>1 DEF NobodyIsBilled
<1>4. \/ AfterNotice(t, b, status) = bill[t][b] /\ bill[t][b] \in Final
      \/ AfterNotice(t, b, status) = status /\ bill[t][b] \notin Final
  BY DEF AfterNotice
<1>5. QED
  BY <1>1, <1>2, <1>3, <1>4, BillWritten

-----------------------------------------------------------------------------
(* What a step does to each subscription and each invoice.                 *)

\* A subscription that is put in arrears.
Defaults(t) ==
  /\ sub[t].status \notin Closed \cup {"none"}
  /\ sub'[t].status = "past_due"
  /\ \/ sub[t].end <= now
     \/ sub[t].status = "trialing" /\ sub[t].trial \in 0 .. now
     \/ handled' # handled

\* A subscription that a cycle ends.
Ends(t) == sub[t].status \in Billed /\ sub'[t].status \in Closed

\* A subscription that is renewed: by the worker, by who settles its invoice, or
\* by the provider on one that was voided.
Renews(t) ==
  \E b \in Times, d \in Intervals :
    /\ RenewedAt(sub[t], b, d, sub'[t])
    /\ \/ UNCHANGED <<handled, edits>> /\ bill[t][b] = "paid" /\ d = sub[t].interval
       \/ (handled' # handled \/ edits' # edits) /\ bill'[t][b] = "paid" /\ d = span[t][b]
       \/ handled' # handled /\ bill[t][b] = "void" /\ d = span[t][b]

\* All that may happen to a tenant's subscription and invoices in one step.
Changes(t) ==
  /\ \/ sub'[t] = sub[t]
     \/ tenant[t] = "none" /\ tenant'[t] = "active" /\ sub'[t].status = "trialing"
     \/ Edited(sub[t], sub'[t])
     \/ Defaults(t)
     \/ Ends(t)
     \/ Renews(t)
  /\ \A b \in Bills : BillMoves(t, b)

\* Who has no tenant after a step had none before, and no subscription.
StaysOut(t) == tenant'[t] = "none" => tenant[t] = "none" /\ sub'[t] = sub[t]

Typed ==
  /\ now \in 0 .. MaxTime /\ tenant \in [Tenants -> Lifecycle]
  /\ SubType /\ BillType /\ SpanType
  /\ handled \subseteq Events /\ edits \in 0 .. MaxEdits

\* Provisioning.
LEMMA ProvisionChanges ==
  ASSUME BillingInvariant, NEW t \in Tenants, NEW days \in 0 .. MaxTrial,
         NEW plan \in Plans, NEW exact \in BOOLEAN,
         ProvisionTenant(t, days, plan, exact)
  PROVE  Typed' /\ \A u \in Tenants : Changes(u) /\ StaysOut(u)
<1> DEFINE new == [status |-> "trialing", start |-> now, end |-> now + days,
                   trial |-> now + days, cancelAtEnd |-> FALSE,
                   free |-> plan.free, interval |-> plan.interval, exact |-> exact]
<1>1. Typed
  BY DEF BillingInvariant, BillingTypeOK, Typed, SubType, BillType, SpanType
<1>2. now \in Times /\ now + days \in Times
  BY <1>1, Moments, MaxTimeAssumption, MonthAssumption, MaxTrialAssumption
     DEF Typed, ProvisionTenant, Intervals
<1>3. new \in Subscription /\ new.status = "trialing"
  BY <1>2 DEF Subscription, SubStatuses, Billed, Plans
<1>4. sub' = [sub EXCEPT ![t] = new] /\ UNCHANGED <<now, bill, span, handled, edits>>
  BY DEF ProvisionTenant
<1>5. /\ tenant' \in [Tenants -> Lifecycle]
      /\ tenant[t] = "none" /\ tenant'[t] = "active"
  BY <1>1 DEF ProvisionTenant, Typed, Lifecycle
<1>6. QED
  BY <1>1, <1>3, <1>4, <1>5, Rewritten
     DEF Typed, SpanType, Changes, BillMoves, BillType, StaysOut, ProvisionTenant

\* Operators: TenantTypes and SubscriptionTypes, and the two steps on invoices.
LEMMA OperatorChanges ==
  ASSUME BillingInvariant, OperatorNext
  PROVE  Typed' /\ \A u \in Tenants : Changes(u) /\ StaysOut(u)
<1>1. Typed /\ NobodyIsBilled
  BY DEF BillingInvariant, BillingTypeOK, Typed, SubType, BillType, SpanType
<1>2. edits' \in 0 .. MaxEdits /\ edits' # edits
  BY <1>1, MaxEditsAssumption DEF OperatorNext, Typed
<1>3. PICK t \in Tenants :
        \/ TenantEdited(t)
        \/ SubscriptionEdited(t)
        \/ CreateInvoice(t)
        \/ \E b \in Bills, status \in BillStatuses : SetInvoiceStatus(t, b, status)
  BY DEF OperatorNext
<1>4. CASE TenantEdited(t)
  <2>1. /\ SubType' /\ NobodyIsBilled'
        /\ tenant' \in [Tenants -> Lifecycle] /\ UNCHANGED <<now, bill, span, handled>>
        /\ \A u \in Tenants : sub'[u] = sub[u] \/ Edited(sub[u], sub'[u])
    BY <1>4, TenantTypes
  <2>2. \A u \in Tenants : tenant'[u] = "none" => tenant[u] = "none"
    BY <1>1, <1>4
       DEF TenantEdited, SuspendTenant, ReactivateTenant, ArchiveTenant, Typed
  <2>3. \A u \in Tenants : StaysOut(u)
    BY <1>1, <2>1, <2>2 DEF NobodyIsBilled, Edited, StaysOut
  <2>4. QED
    BY <1>1, <1>2, <2>1, <2>3 DEF Typed, SpanType, Changes, StaysOut, BillMoves, BillType
<1>5. CASE SubscriptionEdited(t)
  <2>1. /\ SubType' /\ NobodyIsBilled' /\ UNCHANGED <<now, tenant, bill, span, handled>>
        /\ \A u \in Tenants : sub'[u] = sub[u] \/ Edited(sub[u], sub'[u])
    BY <1>5, SubscriptionTypes
  <2>2. \A u \in Tenants : StaysOut(u)
    BY <1>1, <2>1 DEF NobodyIsBilled, Edited, StaysOut
  <2>3. QED
    BY <1>1, <1>2, <2>1, <2>2 DEF Typed, SpanType, Changes, StaysOut, BillMoves, BillType
<1>6. CASE CreateInvoice(t)
  <2>1. Manual \in Bills /\ "open" \in BillStatuses /\ "none" \notin Final
    BY DEF Bills, BillStatuses, Final
  <2>2. BillType' /\ \A u \in Tenants, c \in Bills : BillMoves(u, c)
    BY <1>1, <1>6, <2>1, BillWritten DEF CreateInvoice, Typed
  <2>3. QED
    BY <1>1, <1>2, <1>6, <2>2 DEF CreateInvoice, Typed, SpanType, Changes, StaysOut, SubType
<1>7. ASSUME NEW b \in Bills, NEW status \in BillStatuses, SetInvoiceStatus(t, b, status)
      PROVE  Typed' /\ \A u \in Tenants : Changes(u) /\ StaysOut(u)
  <2>1. /\ bill[t][b] \in BillStatuses \ (Final \cup {status})
        /\ bill' = [bill EXCEPT ![t][b] = status]
        /\ UNCHANGED <<now, tenant, span, handled>>
    BY <1>7 DEF SetInvoiceStatus
  <2>2. sub[t].status # "none"
    BY <1>1, <2>1 DEF NobodyIsBilled, BillStatuses, Final
  <2>3. /\ BillType' /\ bill'[t][b] = status
        /\ \A u \in Tenants, c \in Bills : BillMoves(u, c)
    BY <1>1, <2>1, <2>2, BillWritten DEF Typed
  <2>4. CASE status # "paid"
    <3>1. UNCHANGED sub
      BY <1>1, <1>7, <2>4 DEF SetInvoiceStatus, Typed, SubType
    <3>2. QED
      BY <1>1, <1>2, <2>1, <2>3, <3>1 DEF Typed, SpanType, Changes, StaysOut, SubType
  <2>5. CASE status = "paid"
    <3>1. sub' = [sub EXCEPT ![t] = AfterPayment(t, b)]
      BY <1>7, <2>5 DEF SetInvoiceStatus
    <3>2. /\ SubType' /\ sub'[t] = AfterPayment(t, b)
          /\ \A u \in Tenants \ {t} : sub'[u] = sub[u]
      BY <1>1, <3>1, PaymentType, Rewritten DEF BillingInvariant, Typed
    <3>3. sub'[t] = sub[t] \/ Renews(t)
      <4>1. span[t][b] \in Intervals
        BY <1>1 DEF Typed, SpanType
      <4>2. CASE RenewedAt(sub[t], b, span[t][b], AfterPayment(t, b))
        BY <1>2, <2>3, <2>5, <3>2, <4>1, <4>2 DEF Renews, RenewedAt
      <4>3. QED
        BY <3>2, <4>2, PaymentRenews DEF BillingInvariant
    <3>4. tenant'[t] # "none"
      BY <1>1, <2>1, <2>2 DEF NobodyIsBilled
    <3>5. QED
      BY <1>1, <1>2, <2>1, <2>3, <3>2, <3>3, <3>4 DEF Typed, SpanType, Changes, StaysOut
  <2>6. QED
    BY <2>4, <2>5
<1>8. QED
  BY <1>3, <1>4, <1>5, <1>6, <1>7

\* A failure that is reported.
LEMMA FailureChanges ==
  ASSUME BillingInvariant, NEW t \in Tenants, NEW e \in Events, Receive(e),
         PastDue(t), sub[t].status # "none"
  PROVE  /\ SubType'
         /\ sub'[t] = sub[t] \/ Defaults(t)
         /\ \A u \in Tenants \ {t} : sub'[u] = sub[u]
<1>1. SubType /\ sub[t] \in Subscription /\ handled' # handled
  BY DEF BillingInvariant, BillingTypeOK, SubType, Receive
<1>2. CASE sub[t].status \in Closed
  BY <1>1, <1>2 DEF PastDue, SubType
<1>3. CASE sub[t].status \notin Closed
  <2> DEFINE new == [sub[t] EXCEPT !.status = "past_due"]
  <2>1. sub' = [sub EXCEPT ![t] = new]
    BY <1>3 DEF PastDue, SetStatus
  <2>2. new \in Subscription /\ new.status = "past_due"
    BY <1>1, Statuses DEF Subscription, SubStatuses, Billed
  <2>3. QED
    BY <1>1, <1>3, <2>1, <2>2, Rewritten DEF Defaults
<1>4. QED
  BY <1>2, <1>3

\* The provider's events.
LEMMA WebhookChanges ==
  ASSUME BillingInvariant, WebhookNext
  PROVE  Typed' /\ \A u \in Tenants : Changes(u) /\ StaysOut(u)
<1>1. Typed /\ NobodyIsBilled
  BY DEF BillingInvariant, BillingTypeOK, Typed, SubType, BillType, SpanType
<1>2. {"paid", "past_due", "void"} \subseteq BillStatuses
  BY DEF BillStatuses, Final
<1>3. PICK e \in Events, t \in Tenants :
        \/ \E b \in Bills : \/ PaymentSucceeded(e, t, b)
                            \/ PaymentFailed(e, t, b)
                            \/ InvoiceVoided(e, t, b)
        \/ SubscriptionPastDue(e, t)
  BY DEF WebhookNext
<1>4. handled' \subseteq Events /\ edits' \in 0 .. MaxEdits
      /\ handled' # handled /\ UNCHANGED <<now, tenant, span>>
  BY <1>1, <1>3 DEF WebhookNext, PaymentSucceeded, PaymentFailed, InvoiceVoided,
                    SubscriptionPastDue, Receive, Typed
<1>5. ASSUME NEW b \in Bills, PaymentSucceeded(e, t, b)
      PROVE  Typed' /\ \A u \in Tenants : Changes(u) /\ StaysOut(u)
  <2>1. /\ BillType' /\ sub[t].status # "none"
        /\ bill'[t][b] = "paid" \/ bill[t][b] = "void"
        /\ \A u \in Tenants, c \in Bills : BillMoves(u, c)
    <3>1. /\ bill[t][b] # "none"
          /\ bill' = [bill EXCEPT ![t][b] = AfterNotice(t, b, "paid")]
      BY <1>5 DEF PaymentSucceeded
    <3>2. /\ BillType' /\ sub[t].status # "none"
          /\ bill'[t][b] \in {bill[t][b], "paid"} /\ bill'[t][b] \in Final
          /\ \A u \in Tenants, c \in Bills : BillMoves(u, c)
      BY <1>2, <3>1, NoticeWrites DEF Final
    <3>3. QED
      BY <3>2 DEF Final
  <2>2. sub' = [sub EXCEPT ![t] = AfterPayment(t, b)]
    BY <1>5 DEF PaymentSucceeded
  <2>3. /\ SubType' /\ sub'[t] = AfterPayment(t, b)
        /\ \A u \in Tenants \ {t} : sub'[u] = sub[u]
    BY <1>1, <2>2, PaymentType, Rewritten DEF BillingInvariant, Typed
  <2>4. sub'[t] = sub[t] \/ Renews(t)
    <3>1. span[t][b] \in Intervals
      BY <1>1 DEF Typed, SpanType
    <3>2. CASE RenewedAt(sub[t], b, span[t][b], AfterPayment(t, b))
      BY <1>4, <2>1, <2>3, <3>1, <3>2 DEF Renews, RenewedAt
    <3>3. QED
      BY <2>3, <3>2, PaymentRenews DEF BillingInvariant
  <2>5. tenant'[t] # "none"
    BY <1>1, <1>4, <2>1 DEF NobodyIsBilled
  <2>6. QED
    BY <1>1, <1>4, <2>1, <2>3, <2>4, <2>5 DEF Typed, SpanType, Changes, StaysOut
<1>6. ASSUME NEW b \in Bills, PaymentFailed(e, t, b)
      PROVE  Typed' /\ \A u \in Tenants : Changes(u) /\ StaysOut(u)
  <2>1. /\ BillType' /\ sub[t].status # "none"
        /\ \A u \in Tenants, c \in Bills : BillMoves(u, c)
    BY <1>2, <1>6, NoticeWrites DEF PaymentFailed
  <2>2. UNCHANGED sub \/ (Receive(e) /\ PastDue(t))
    BY <1>6 DEF PaymentFailed
  <2>3. /\ SubType' /\ (sub'[t] = sub[t] \/ Defaults(t))
        /\ \A u \in Tenants \ {t} : sub'[u] = sub[u]
    BY <1>1, <2>1, <2>2, FailureChanges DEF Typed, SubType
  <2>4. tenant'[t] # "none"
    BY <1>1, <1>4, <2>1 DEF NobodyIsBilled
  <2>5. QED
    BY <1>1, <1>4, <2>1, <2>3, <2>4 DEF Typed, SpanType, Changes, StaysOut
<1>7. ASSUME NEW b \in Bills, InvoiceVoided(e, t, b)
      PROVE  Typed' /\ \A u \in Tenants : Changes(u) /\ StaysOut(u)
  <2>1. BillType' /\ \A u \in Tenants, c \in Bills : BillMoves(u, c)
    BY <1>2, <1>7, NoticeWrites DEF InvoiceVoided
  <2>2. QED
    BY <1>1, <1>4, <1>7, <2>1 DEF InvoiceVoided, Typed, SpanType, Changes, StaysOut, SubType
<1>8. CASE SubscriptionPastDue(e, t)
  <2>1. /\ SubType' /\ (sub'[t] = sub[t] \/ Defaults(t))
        /\ \A u \in Tenants \ {t} : sub'[u] = sub[u]
    BY <1>8, FailureChanges DEF SubscriptionPastDue
  <2>2. UNCHANGED bill /\ tenant'[t] # "none"
    BY <1>1, <1>4, <1>8 DEF SubscriptionPastDue, NobodyIsBilled
  <2>3. QED
    BY <1>1, <1>4, <2>1, <2>2 DEF Typed, SpanType, Changes, StaysOut, BillMoves, BillType
<1>9. QED
  BY <1>3, <1>5, <1>6, <1>7, <1>8

\* A cycle of the worker.
LEMMA CycleChanges ==
  ASSUME BillingInvariant, NEW locked \in SUBSET Tenants, Cycle(locked)
  PROVE  Typed' /\ \A u \in Tenants : Changes(u) /\ StaysOut(u)
<1>1. Typed /\ NobodyIsBilled /\ BillingTypeOK
  BY DEF BillingInvariant, BillingTypeOK, Typed, SubType, BillType, SpanType
<1>2. PICK batch \in Batches(locked), late \in SUBSET Tenants : Process(batch, late)
  BY DEF Cycle
<1>3. \A t \in batch : t \in Tenants /\ sub[t].status \in Billed
  BY <1>2 DEF Batches, Due
<1>4. ASSUME NEW t \in Tenants
      PROVE  /\ sub'[t] \in Subscription
             /\ StaysOut(t)
             /\ bill'[t] \in [Bills -> BillStatuses \cup {"none"}]
             /\ Changes(t)
  <2>1. sub'[t] = IF t \in batch THEN CycleSub(t) ELSE sub[t]
    BY <1>2 DEF Process
  <2>2. bill'[t] = [b \in Bills |-> CycleBill(t, b, batch, late)]
    BY <1>2 DEF Process
  <2>3. \A b \in Bills : /\ bill'[t][b] \in BillStatuses \cup {"none"}
                          /\ BillMoves(t, b)
    <3> SUFFICES ASSUME NEW b \in Bills
                 PROVE  /\ bill'[t][b] \in BillStatuses \cup {"none"}
                        /\ BillMoves(t, b)
      OBVIOUS
    <3> DEFINE made == t \in batch /\ Invoices(t) /\ b = RenewalStart(t)
    <3>1. \/ bill'[t][b] = bill[t][b]
          \/ /\ bill'[t][b] \in {"open", "past_due"}
             /\ made \/ bill[t][b] = "open"
      BY <2>2 DEF CycleBill
    <3>2. made => bill[t][b] = "none" /\ sub[t].status \in Billed
      BY <1>3 DEF Invoices
    <3>3. bill[t][b] \in BillStatuses \cup {"none"}
      BY <1>1 DEF Typed, BillType
    <3>4. bill[t][b] = "open" => sub[t].status # "none"
      BY <1>1 DEF NobodyIsBilled
    <3> HIDE DEF made
    <3>5. QED
      BY <3>1, <3>2, <3>3, <3>4 DEF BillMoves, BillStatuses, Final, Billed
  <2>4. sub[t] \in Subscription
    BY <1>1 DEF Typed, SubType
  <2>5. CASE sub'[t] = sub[t]
    BY <1>2, <2>2, <2>3, <2>4, <2>5 DEF Changes, StaysOut, Process
  <2>6. CASE sub'[t] # sub[t]
    <3>1. t \in batch /\ sub[t].status \in Billed /\ sub'[t] = CycleSub(t)
      BY <1>3, <2>1, <2>6
    <3>2. tenant'[t] # "none"
      BY <1>1, <1>2, <3>1 DEF NobodyIsBilled, Billed, Process
    <3>3. CASE /\ Paid(t)
               /\ RenewedAt(sub[t], RenewalStart(t), sub[t].interval, CycleSub(t))
      <4>1. RenewalStart(t) \in Times /\ sub[t].interval \in Intervals
        BY <1>1, <2>4, StartOfRenewal, Fields
      <4>2. bill[t][RenewalStart(t)] = "paid" /\ UNCHANGED <<handled, edits>>
        BY <1>2, <3>3 DEF Paid, Process
      <4>3. Renews(t)
        BY <3>1, <3>3, <4>1, <4>2 DEF Renews
      <4>4. CycleSub(t) \in Subscription
        BY <1>1, <2>4, <3>3, <4>1, RenewedType
      <4>5. QED
        BY <2>2, <2>3, <3>1, <3>2, <4>3, <4>4 DEF Changes, StaysOut
    <3>4. ASSUME NEW status \in {"cancelled", "expired", "past_due"}, NEW cancel \in BOOLEAN,
                 Elapsed(t),
                 CycleSub(t) = [sub[t] EXCEPT !.status = status, !.cancelAtEnd = cancel]
          PROVE  /\ sub'[t] \in Subscription
                 /\ StaysOut(t)
                 /\ bill'[t] \in [Bills -> BillStatuses \cup {"none"}]
                 /\ Changes(t)
      <4>1. CycleSub(t) \in Subscription /\ CycleSub(t).status = status
        <5>1. status \in SubStatuses
          BY <3>4 DEF SubStatuses, Billed, Closed
        <5>2. CycleSub(t) \in Subscription
          BY <2>4, <3>4, <5>1 DEF Subscription
        <5>3. CycleSub(t).status = status
          BY <2>4, <3>4 DEF Subscription
        <5>4. QED
          BY <5>2, <5>3
      <4>2. \/ sub[t].end <= now
            \/ sub[t].status = "trialing" /\ sub[t].trial \in 0 .. now
        <5>1. sub[t].trial \in Times \cup {NoTrial} /\ now \in Nat
          BY <1>1, <2>4, Fields, MaxTimeAssumption DEF Typed
        <5>2. QED
          BY <3>4, <5>1, Moments DEF Elapsed, PeriodEnded, TrialEnded, Trialing
      <4>3. Ends(t) \/ Defaults(t)
        BY <3>1, <4>1, <4>2 DEF Ends, Defaults, Closed, Billed
      <4>4. QED
        BY <2>2, <2>3, <3>1, <3>2, <4>1, <4>3 DEF Changes, StaysOut
    <3>5. QED
      BY <1>1, <2>6, <3>1, <3>3, <3>4, CycleOfOne
  <2>7. QED
    BY <2>5, <2>6
<1>5. SubType' /\ BillType' /\ SpanType'
  <2>1. /\ sub' = [t \in Tenants |-> sub'[t]]
        /\ bill' = [t \in Tenants |-> bill'[t]]
        /\ span' = [t \in Tenants |-> [b \in Bills |-> CycleSpan(t, b, batch)]]
    BY <1>2 DEF Process
  <2>2. \A t \in Tenants, b \in Bills : CycleSpan(t, b, batch) \in Intervals
    BY <1>1, Fields DEF CycleSpan, Typed, SubType, SpanType
  <2>3. QED
    BY <1>4, <2>1, <2>2 DEF SubType, BillType, SpanType
<1>6. QED
  BY <1>1, <1>2, <1>4, <1>5 DEF Process, Typed

\* Every step.
LEMMA StepChanges ==
  ASSUME BillingInvariant, [Next]_vars
  PROVE  Typed' /\ \A u \in Tenants : Changes(u) /\ StaysOut(u)
<1>1. Typed /\ NobodyIsBilled
  BY DEF BillingInvariant, BillingTypeOK, Typed, SubType, BillType, SpanType
<1>2. CASE Tick \/ UNCHANGED vars
  <2>1. UNCHANGED <<tenant, sub, bill, span, handled, edits>>
    BY <1>2 DEF Tick, vars
  <2>2. now' \in 0 .. MaxTime
    BY <1>1, <1>2, MaxTimeAssumption DEF Tick, vars, Typed
  <2>3. QED
    BY <1>1, <2>1, <2>2 DEF Typed, SpanType, SubType, BillType, Changes, BillMoves, StaysOut
<1>3. QED
  BY <1>2, ProvisionChanges, OperatorChanges, WebhookChanges, CycleChanges DEF Next

\* The invariant is inductive.
LEMMA BillingStep == BillingInvariant /\ [Next]_vars => BillingInvariant'
<1> SUFFICES ASSUME BillingInvariant, [Next]_vars PROVE BillingInvariant'
  OBVIOUS
<1>1. Typed' /\ \A u \in Tenants : Changes(u) /\ StaysOut(u)
  BY StepChanges
<1>2. NobodyIsBilled /\ Typed
  BY DEF BillingInvariant, BillingTypeOK, Typed, SubType, BillType, SpanType
<1>3. \A u \in Tenants : sub[u].status # "none" => sub'[u].status # "none"
  <2> SUFFICES ASSUME NEW u \in Tenants, sub[u].status # "none"
               PROVE  sub'[u].status # "none"
    OBVIOUS
  <2>1. sub[u] \in Subscription
    BY <1>2 DEF Typed, SubType
  <2>2. Renews(u) => sub'[u].status = "active"
    BY <2>1 DEF Renews, RenewedAt, Active, Subscription
  <2>3. QED
    BY <1>1, <2>2 DEF Changes, Edited, Defaults, Ends, Closed
<1>4. \A u \in Tenants : tenant'[u] = "none" => sub'[u].status = "none"
  <2> SUFFICES ASSUME NEW u \in Tenants, tenant'[u] = "none"
               PROVE  sub'[u].status = "none"
    OBVIOUS
  <2>1. tenant[u] = "none" /\ sub'[u] = sub[u]
    BY <1>1 DEF StaysOut
  <2>2. QED
    BY <1>2, <2>1 DEF NobodyIsBilled
<1>5. \A u \in Tenants, b \in Bills : bill'[u][b] # "none" => sub'[u].status # "none"
  BY <1>1, <1>2, <1>3 DEF Changes, BillMoves, NobodyIsBilled
<1>6. QED
  BY <1>1, <1>4, <1>5
     DEF BillingInvariant, BillingTypeOK, NobodyIsBilled, Typed, SubType, BillType, SpanType

-----------------------------------------------------------------------------
(* The theorems.                                                           *)

\* The invariant, for any number of tenants and events and any intervals.
THEOREM BillingIsSafe == Spec => []BillingInvariant
<1>1. QED
  BY InitBilling, BillingStep, PTL DEF Spec

\* Every column of tenants, subscriptions and invoices keeps its range.
THEOREM BillingTypeCorrect == Spec => []BillingTypeOK
<1>1. BillingInvariant => BillingTypeOK
  BY DEF BillingInvariant
<1>2. QED
  BY BillingIsSafe, <1>1, PTL

\* What was paid or voided stays so: billingService's notices and transitions and
\* the worker's sweep of overdue invoices leave final statuses alone.
THEOREM SettledBillsStand == Spec => SettledBillStands
<1>1. BillingInvariant /\ [Next]_vars
        => [\A t \in Tenants, b \in Bills :
              bill[t][b] \in Final => bill'[t][b] = bill[t][b]]_vars
  BY StepChanges DEF Changes, BillMoves
<1>2. QED
  BY <1>1, BillingIsSafe, PTL DEF Spec, SettledBillStands

\* The worker, the webhooks and the operator renew at a boundary that has passed,
\* on the paid invoice for it and for the plan's interval or the invoice's period,
\* whatever the order they come in; on a voided invoice only when the provider
\* reports it as paid.
THEOREM RenewalsAreExact == Spec => RenewsExactBoundary
<1>1. BillingInvariant /\ [Next]_vars
        => [\A t \in Tenants :
              Renewed(t) =>
                LET b == sub'[t].start
                IN  /\ b <= now
                    /\ b = sub[t].end \/ (sub[t].status = "trialing" /\ b = sub[t].trial)
                    /\ ~sub[t].cancelAtEnd
                    /\ \/ WorkerRenewed(t, b)
                       \/ SettlementRenewed(t, b)
                       \/ VoidRenewed(t, b)]_vars
  <2> SUFFICES ASSUME BillingInvariant, [Next]_vars, NEW t \in Tenants, Renewed(t)
               PROVE  /\ sub'[t].start <= now
                      /\ \/ sub'[t].start = sub[t].end
                         \/ sub[t].status = "trialing" /\ sub'[t].start = sub[t].trial
                      /\ ~sub[t].cancelAtEnd
                      /\ \/ WorkerRenewed(t, sub'[t].start)
                         \/ SettlementRenewed(t, sub'[t].start)
                         \/ VoidRenewed(t, sub'[t].start)
    OBVIOUS
  <2>1. Changes(t) /\ sub[t] \in Subscription
    BY StepChanges DEF BillingInvariant, BillingTypeOK
  <2>2. Renews(t)
    BY <2>1 DEF Changes, Edited, Defaults, Ends, Renewed, Billed, Closed
  <2>3. PICK b \in Times, d \in Intervals :
          /\ RenewedAt(sub[t], b, d, sub'[t])
          /\ \/ UNCHANGED <<handled, edits>> /\ bill[t][b] = "paid" /\ d = sub[t].interval
             \/ /\ handled' # handled \/ edits' # edits
                /\ bill'[t][b] = "paid" /\ d = span[t][b]
             \/ handled' # handled /\ bill[t][b] = "void" /\ d = span[t][b]
    BY <2>2 DEF Renews
  <2>4. sub'[t].start = b /\ sub'[t].end = b + d
    BY <2>1, <2>3 DEF RenewedAt, Active, Subscription
  <2>5. QED
    BY <2>3, <2>4 DEF RenewedAt, WorkerRenewed, SettlementRenewed, VoidRenewed
<1>2. QED
  BY <1>1, BillingIsSafe, PTL DEF Spec, RenewsExactBoundary

\* Who may use the service is put in arrears by an end that has passed or by an
\* event that was not taken before.
THEOREM ArrearsHaveCause == Spec => PastDueForCause
<1>1. BillingInvariant /\ [Next]_vars
        => [\A t \in Tenants :
              sub[t].status \in {"active", "trialing"} /\ sub'[t].status = "past_due"
                => \/ sub[t].end <= now
                   \/ sub[t].status = "trialing" /\ sub[t].trial \in 0 .. now
                   \/ handled' # handled]_vars
  <2> SUFFICES ASSUME BillingInvariant, [Next]_vars, NEW t \in Tenants,
                      sub[t].status \in {"active", "trialing"}, sub'[t].status = "past_due"
               PROVE  \/ sub[t].end <= now
                      \/ sub[t].status = "trialing" /\ sub[t].trial \in 0 .. now
                      \/ handled' # handled
    OBVIOUS
  <2>1. Changes(t) /\ sub[t] \in Subscription
    BY StepChanges DEF BillingInvariant, BillingTypeOK
  <2>2. ~Renews(t)
    BY <2>1 DEF Renews, RenewedAt, Active, Subscription
  <2>3. QED
    BY <2>1, <2>2 DEF Changes, Edited, Defaults, Ends, Closed
<1>2. QED
  BY <1>1, BillingIsSafe, PTL DEF Spec, PastDueForCause

\* A closed subscription comes back only by an operator's hand, and then with a
\* period that has not ended.
THEOREM ClosedStaysClosed == Spec => ClosedForBilling
<1>1. BillingInvariant /\ [Next]_vars
        => [\A t \in Tenants :
              sub[t].status \in Closed =>
                \/ sub'[t].status \in Closed
                \/ /\ sub'[t].status = "active"
                   /\ sub'[t].end > now
                   /\ ~sub'[t].cancelAtEnd]_vars
  <2> SUFFICES ASSUME BillingInvariant, [Next]_vars, NEW t \in Tenants,
                      sub[t].status \in Closed
               PROVE  \/ sub'[t].status \in Closed
                      \/ /\ sub'[t].status = "active"
                         /\ sub'[t].end > now
                         /\ ~sub'[t].cancelAtEnd
    OBVIOUS
  <2>1. Changes(t) /\ tenant[t] # "none"
    BY StepChanges DEF BillingInvariant, NobodyIsBilled, Closed
  <2>2. ~Defaults(t) /\ ~Ends(t) /\ ~Renews(t)
    BY DEF Defaults, Ends, Renews, RenewedAt, Billed, Closed
  <2>3. QED
    BY <2>1, <2>2 DEF Changes, Edited
<1>2. QED
  BY <1>1, BillingIsSafe, PTL DEF Spec, ClosedForBilling
=============================================================================
