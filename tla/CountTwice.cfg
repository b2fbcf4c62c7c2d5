SPECIFICATION OfficeSpec
CONSTANTS
  Rows = {w1}
  NoRow = NoRow
  Reservations = {}
  MaxQuantity = 1
  ColumnMax = 2
  Transfers = {}
  Counts = {c1}
  NoCount = NoCount
  Clerks = {k1, k2}
  Purchases = {}
  Lines = {}
  Receipts = {}
  MaxDocuments = 2
INVARIANT CountPostedOnce
