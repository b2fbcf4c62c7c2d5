SPECIFICATION PosSpec
CONSTANTS
  Rows = {w1}
  NoRow = NoRow
  Reservations = {}
  MaxQuantity = 3
  ColumnMax = 3
  Sessions = {s1, s2}
  NoSession = NoSession
  Sales = {k1, k2}
  Floats = {1}
  MaxMoved = 1
  Totals = {4}
INVARIANTS PosTypeOK OneOpenSession DrawerReconciles ReturnsSettleSale
SYMMETRY Symmetry
