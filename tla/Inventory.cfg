SPECIFICATION FairSpec
CONSTANTS
  Rows = {w1}
  NoRow = NoRow
  Reservations = {r1, r2, r3}
  MaxQuantity = 2
  ColumnMax = 2
INVARIANTS TypeOK ReservedIsHeld LedgerAccountsForStock NeverOversold
PROPERTIES SettledForGood StaleReservationsExpire
