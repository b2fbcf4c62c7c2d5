SPECIFICATION FairSpec
CONSTANTS
  Tenants = {t1}
  Events = {e1, e2}
  MaxTime = 3
  Month = 2
  Year = 3
  Lead = 1
  MaxTrial = 1
  MaxEdits = 2
  BatchSize = 1
INVARIANT BillingTypeOK
PROPERTIES
  RenewsExactBoundary
  PastDueForCause
  ClosedForBilling
  SettledBillStands
  EndedSubscriptionIsSettled
  OwedRenewalIsHonoured
  OwingCustomerHasBill
CHECK_DEADLOCK FALSE
