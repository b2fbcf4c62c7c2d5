SPECIFICATION FairTxSpec
CONSTANTS
  Rows = {w1}
  NoRow = NoRow
  Reservations = {r1}
  MaxQuantity = 1
  ColumnMax = 1
  Sessions = {s1, s2}
  Sweepers = {s1}
  Nobody = Nobody
  NoReservation = NoReservation
  Orders = {o1}
  NoOrder = NoOrder
PROPERTY TransactionsEnd
