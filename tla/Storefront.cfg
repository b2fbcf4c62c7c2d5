SPECIFICATION StoreSpec
CONSTANTS
  Rows = {w1, w2}
  NoRow = NoRow
  Reservations = {r1, r2}
  MaxQuantity = 1
  ColumnMax = 1
  Orders = {o1, o2}
  NoOrder = NoOrder
  ListLimit = 1
  MaxRepeats = 2
SYMMETRY Symmetry
INVARIANTS StoreTypeOK PaidOrderStands ChargedOnce ClosedOrderSettled
PROPERTIES OrdersMoveForward PromiseSpec
