SPECIFICATION TxSpec
CONSTANTS
  Rows = {w1, w2}
  NoRow = NoRow
  Reservations = {r1, r2}
  MaxQuantity = 1
  ColumnMax = 1
  Sessions = {s1, s2}
  Sweepers = {s1, s2}
  Nobody = Nobody
  NoReservation = NoReservation
  Orders = {o1}
  NoOrder = NoOrder
SYMMETRY SweepSymmetry
INVARIANT ExpiredOrderIsCancelled
