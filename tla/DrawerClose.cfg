SPECIFICATION PosSpec
CONSTANTS
  Rows = {w1}
  NoRow = NoRow
  Reservations = {}
  MaxQuantity = 2
  ColumnMax = 2
  Sessions = {s1}
  NoSession = NoSession
  Sales = {k1}
  Floats = {1}
  MaxMoved = 1
  Totals = {3}
PROPERTIES CloseCountsTheDrawer
