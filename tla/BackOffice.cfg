SPECIFICATION OfficeSpec
CONSTANTS
  Rows = {w1, w2}
  NoRow = NoRow
  Reservations = {r1}
  MaxQuantity = 2
  ColumnMax = 2
  Transfers = {t1, t2}
  Counts = {c1}
  NoCount = NoCount
  Clerks = {k1, k2}
  Purchases = {p1}
  Lines = {l1, l2}
  Receipts = {x1, x2}
  MaxDocuments = 2
SYMMETRY Symmetry
INVARIANTS OfficeTypeOK TransfersAddUp PostedUnlessRaced ReceiptsAddUp
PROPERTIES PromiseSpec ConsignmentSpec
