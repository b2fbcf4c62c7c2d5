SPECIFICATION RefundSpec
CONSTANTS
  Variants = {v1, v2}
  MaxSold = 4
  MaxCents = 6
  MaxShipping = 1
  Keys = {k1, k2}
  NoKey = NoKey
SYMMETRY Symmetry
INVARIANTS RefundTypeOK RefundedToTheCent LedgersAgree FairShares KeyRefundsOnce
CHECK_DEADLOCK FALSE
