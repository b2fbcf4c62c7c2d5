SPECIFICATION StoreSpec
CONSTANTS
  Rows = {w1, w2}
  NoRow = NoRow
  Reservations = {r1, r2}
  MaxQuantity = 1
  ColumnMax = 2
  Orders = {o1}
  NoOrder = NoOrder
  ListLimit = 2
  MaxRepeats = 2
INVARIANT ReturnsWereSold
