----------------------------- MODULE RefundProofs -----------------------------
(***************************************************************************)
(* Proofs about Refund for any variants, quantities, amounts and keys.     *)
(***************************************************************************)
EXTENDS Refund, SumsProofs

\* What has to be known with RefundedToTheCent to show that a return keeps it:
\* the types of what it compares, and that no more came back than was sold.
RefundInvariant ==
  /\ sold     \in [Variants -> 1 .. MaxSold]
  /\ total    \in Nat
  /\ returned \in Amounts
  /\ \A v \in Variants : returned[v] <= sold[v]
  /\ refunded \in Nat
  /\ RefundedToTheCent

\* The invariant holds of a paid order of which nothing came back.  An order
\* has at least one item, and its quantity is positive.
LEMMA RefundInitInvariant ==
  ASSUME Variants # {}
  PROVE  RefundInit => RefundInvariant
<1> SUFFICES ASSUME RefundInit PROVE RefundInvariant
  OBVIOUS
<1>1. PICK v \in Variants : TRUE
  OBVIOUS
<1>2. sold[v] # returned[v]
  BY MaxSoldAssumption DEF RefundInit, Nothing
<1>3. returned # sold
  BY <1>2
<1>4. returned \in Amounts /\ \A w \in Variants : returned[w] <= sold[w]
  BY MaxSoldAssumption DEF RefundInit, Nothing, Amounts
<1>5. QED
  BY <1>3, <1>4 DEF RefundInit, RefundInvariant, RefundedToTheCent

\* A return keeps the invariant.
LEMMA RefundStep ==
  ASSUME RefundInvariant, NEW request \in Amounts, NEW k, Return(request, k)
  PROVE  RefundInvariant'
<1>1. sold' = sold /\ total' = total /\ refunded' = refunded + Amount(request)
  BY DEF Return, orderVars
<1>2. Amount(request) \in 1 .. total - refunded
  BY DEF Return
<1>3. returned' = [v \in Variants |-> returned[v] + request[v]]
  BY DEF Return, Plus
<1>4. ASSUME NEW v \in Variants
      PROVE  /\ returned'[v] \in 0 .. sold[v]
             /\ returned'[v] \in 0 .. MaxSold
             /\ request[v] = Remaining(v) <=> returned'[v] = sold[v]
  <2>1. returned[v] \in Nat /\ request[v] \in Nat /\ sold[v] \in 1 .. MaxSold
    BY MaxSoldAssumption DEF RefundInvariant, Amounts
  <2>2. request[v] <= sold[v] - returned[v]
    BY DEF Return, Remaining
  <2>3. returned'[v] = returned[v] + request[v]
    BY <1>3
  <2>4. QED
    BY <2>1, <2>2, <2>3, MaxSoldAssumption DEF Remaining
<1>5. returned' \in Amounts
  BY <1>3, <1>4 DEF Amounts
<1>6. refunded' \in 0 .. total
  BY <1>1, <1>2 DEF RefundInvariant
<1>7. TakesTheRest(request) <=> returned' = sold
  <2>1. TakesTheRest(request) <=> \A v \in Variants : returned'[v] = sold[v]
    BY <1>4 DEF TakesTheRest
  <2>2. (\A v \in Variants : returned'[v] = sold[v]) <=> returned' = sold
    BY <1>3 DEF RefundInvariant
  <2>3. QED
    BY <2>1, <2>2
<1>8. RefundedToTheCent'
  <2>1. CASE TakesTheRest(request)
    <3>1. Amount(request) = total - refunded
      BY <2>1 DEF Amount
    <3>2. refunded' = total'
      BY <3>1, <1>1 DEF RefundInvariant
    <3>3. orderPayment' = "Refunded"
      BY <2>1 DEF Return
    <3>4. refunded' <= total'
      BY <1>1, <1>6 DEF RefundInvariant
    <3>5. returned' = sold'
      BY <2>1, <1>1, <1>7
    <3>6. QED
      BY <3>2, <3>3, <3>4, <3>5, Zenon DEF RefundedToTheCent
  <2>2. CASE ~TakesTheRest(request)
    <3>1. orderPayment' # "Refunded"
      BY <2>2 DEF Return
    <3>2. refunded' <= total'
      BY <1>1, <1>6 DEF RefundInvariant
    <3>3. returned' # sold'
      BY <2>2, <1>1, <1>7
    <3>4. QED
      BY <3>1, <3>2, <3>3, Zenon DEF RefundedToTheCent
  <2>3. QED
    BY <2>1, <2>2
<1>9. refunded' \in Nat /\ total' \in Nat /\ sold' \in [Variants -> 1 .. MaxSold]
  BY <1>1, <1>6 DEF RefundInvariant
<1>10. \A v \in Variants : returned'[v] <= sold'[v]
  BY <1>1, <1>4, <1>9
<1>11. QED
  BY <1>5, <1>8, <1>9, <1>10 DEF RefundInvariant

\* However an order is split into returns, and whatever they round to, it is
\* refunded to the cent and never beyond what was captured.
THEOREM OrdersRefundedToTheCent ==
  ASSUME Variants # {}
  PROVE  RefundSpec => []RefundedToTheCent
<1>1. RefundInit => RefundInvariant
  BY RefundInitInvariant
<1>2. RefundInvariant /\ [RefundNext]_refundVars => RefundInvariant'
  <2> SUFFICES ASSUME RefundInvariant, [RefundNext]_refundVars
               PROVE  RefundInvariant'
    OBVIOUS
  <2>1. CASE RefundNext
    BY <2>1, RefundStep DEF RefundNext
  <2>2. CASE UNCHANGED refundVars
    BY <2>2 DEF refundVars, orderVars, RefundInvariant, RefundedToTheCent, Amounts
  <2>3. QED
    BY <2>1, <2>2
<1>3. RefundInvariant => RefundedToTheCent
  BY DEF RefundInvariant
<1>4. QED
  BY <1>1, <1>2, <1>3, PTL DEF RefundSpec

-----------------------------------------------------------------------------
(* The ledgers and the keys.                                               *)

\* Rounding half up is off by half a unit at most.
LEMMA HalfUpIsNear ==
  ASSUME NEW n \in Nat, NEW d \in Nat \ {0}
  PROVE  /\ RoundHalfUp(n, d) \in Int
         /\ 2 * (d * RoundHalfUp(n, d) - n) \in -d .. d
<1> DEFINE h == d \div 2
           r == RoundHalfUp(n, d)
<1>1. h \in Nat /\ 2 * h <= d /\ d <= 2 * h + 1
  OBVIOUS
<1>2. r \in Int /\ d * r <= n + h /\ n + h < d * r + d
  <2>1. \A m \in Nat : m \div d \in Int /\ d * (m \div d) <= m /\ m < d * (m \div d) + d
    OBVIOUS
  <2>2. n + h \in Nat /\ r = (n + h) \div d
    BY <1>1 DEF RoundHalfUp
  <2> HIDE DEF h, r
  <2>3. QED
    BY <2>1, <2>2
<1> HIDE DEF h, r
<1>3. d * r \in Int
  BY <1>2
<1>4. 2 * (d * r - n) \in -d .. d
  BY <1>1, <1>2, <1>3
<1>5. QED
  BY <1>2, <1>4 DEF r


\* Rounding half up takes a share to no less than nothing.
LEMMA HalfUpIsNatural ==
  ASSUME NEW n \in Nat, NEW d \in Nat \ {0}
  PROVE  RoundHalfUp(n, d) \in Nat
<1>1. \A m \in Nat : m \div d \in Nat
  OBVIOUS
<1>2. n + d \div 2 \in Nat
  OBVIOUS
<1>3. QED
  BY <1>1, <1>2 DEF RoundHalfUp

\* What the statements of a return write apart: the lines and the ledger row,
\* and what came back and the REFUND rows of the keys.
LedgerInvariant ==
  /\ RefundInvariant
  /\ lineTotal \in [Variants -> 0 .. MaxCents]
  /\ lineRefunded \in [Variants -> Nat]
  /\ orderPayment \in {"Paid", "Partially Refunded", "Refunded"}
  /\ answered \in [Keys -> Amounts]
  /\ unkeyed \in Amounts
  /\ LedgersAgree
  /\ KeyRefundsOnce

\* The numbers of one variant.
LEMMA VariantNumbers ==
  ASSUME LedgerInvariant, NEW request \in Amounts, NEW v \in Variants
  PROVE  /\ sold[v] \in Nat \ {0} /\ lineTotal[v] \in Nat /\ lineRefunded[v] \in Nat
         /\ returned[v] \in Nat /\ unkeyed[v] \in Nat /\ request[v] \in Nat
<1>1. /\ sold \in [Variants -> 1 .. MaxSold]
      /\ lineTotal \in [Variants -> 0 .. MaxCents]
      /\ lineRefunded \in [Variants -> Nat]
      /\ returned \in Amounts /\ unkeyed \in Amounts
  BY DEF LedgerInvariant, RefundInvariant
<1>2. \A n \in Amounts : n[v] \in Nat
  BY MaxSoldAssumption DEF Amounts
<1>3. sold[v] \in Nat \ {0} /\ lineTotal[v] \in Nat /\ lineRefunded[v] \in Nat
  BY <1>1, MaxSoldAssumption, MaxCentsAssumption
<1>4. QED
  BY <1>1, <1>2, <1>3

\* The refund of each line of a return is a number of cents.
LEMMA CentsType ==
  ASSUME LedgerInvariant, NEW request \in Amounts
  PROVE  /\ Cents(request) \in [Variants -> Nat]
         /\ IsFiniteSet(Listed(request)) /\ Calculated(request) \in Nat
<1>1. ASSUME NEW v \in Variants PROVE RoundHalfUp(lineTotal[v] * request[v], sold[v]) \in Nat
  <2>1. lineTotal[v] \in Nat /\ request[v] \in Nat /\ sold[v] \in Nat \ {0}
    BY VariantNumbers
  <2>2. lineTotal[v] * request[v] \in Nat
    BY <2>1
  <2>3. QED
    BY <2>1, <2>2, HalfUpIsNatural
<1>2. Cents(request) \in [Variants -> Nat]
  BY <1>1 DEF Cents
<1>3. IsFiniteSet(Listed(request))
  BY VariantsAssumption, FS_Subset DEF Listed
<1>4. \A v \in Listed(request) : Cents(request)[v] \in Nat
  BY <1>2 DEF Listed
<1>5. QED
  BY <1>2, <1>3, <1>4, SumType DEF Calculated

\* The lines of a return, the residual with the last of them, come to what its
\* ledger row says.
LEMMA LinesComeToAmount ==
  ASSUME LedgerInvariant, NEW request \in Amounts, NEW k, Return(request, k),
         NEW last \in Listed(request)
  PROVE  /\ LineCents(request, last) \in [Variants -> Nat]
         /\ Sum(Variants, LineCents(request, last)) = Amount(request)
<1> DEFINE base  == LinesWithoutResidual(request, last)
           lines == LineCents(request, last)
           L     == Listed(request)
           M     == Variants \ L
           rest  == Amount(request) - Calculated(request)
<1>1. /\ Cents(request) \in [Variants -> Nat]
      /\ Calculated(request) \in Nat
  BY CentsType
<1>2. L \subseteq Variants /\ L \cup M = Variants /\ L \cap M = {} /\ last \in Variants
  BY DEF Listed
<1>3. IsFiniteSet(L) /\ IsFiniteSet(M)
  BY <1>2, VariantsAssumption, FS_Subset
<1>4. rest \in Nat /\ Amount(request) \in Nat
  <2>1. total \in Nat /\ refunded \in Nat
    BY DEF LedgerInvariant, RefundInvariant
  <2>2. TakesTheRest(request) => Calculated(request) <= total - refunded
    BY DEF Return
  <2>3. Amount(request) \in 1 .. total - refunded
    BY DEF Return
  <2>4. Amount(request) = IF TakesTheRest(request) THEN total - refunded ELSE Calculated(request)
    BY DEF Amount
  <2>5. QED
    BY <1>1, <2>1, <2>2, <2>3, <2>4
<1>5. /\ \A v \in L : base[v] = Cents(request)[v]
      /\ \A v \in M : base[v] = 0
      /\ \A v \in Variants : base[v] \in Nat
  BY <1>1, <1>2 DEF LinesWithoutResidual
<1>6. /\ lines \in [Variants -> Nat]
      /\ \A v \in Variants \ {last} : lines[v] = base[v]
      /\ lines[last] = base[last] + rest
  BY <1>1, <1>2, <1>4 DEF LineCents, LinesWithoutResidual
<1> HIDE DEF base, lines, L, M, rest
<1>7. Sum(Variants, base) = Sum(L, base) + Sum(M, base)
  BY <1>2, <1>3, <1>5, SumUnion
<1>8. Sum(M, base) = 0
  BY <1>5, SumOfNothing
<1>9. Sum(L, base) = Calculated(request)
  BY <1>5, SumAgrees DEF Calculated, L
<1>10. Sum(Variants, lines) = Sum(Variants, base) - base[last] + lines[last]
  BY <1>2, <1>5, <1>6, VariantsAssumption, SumChange
<1>11. base[last] \in Nat
  BY <1>2, <1>5
<1>12. Sum(Variants, lines) = Calculated(request) + rest
  BY <1>1, <1>4, <1>6, <1>7, <1>8, <1>9, <1>10, <1>11
<1>13. QED
  BY <1>1, <1>4, <1>6, <1>12 DEF lines, rest

\* A return keeps the invariant.
LEMMA LedgerStep ==
  ASSUME LedgerInvariant, NEW request \in Amounts, NEW k \in Keys \cup {NoKey},
         Return(request, k)
  PROVE  LedgerInvariant'
<1>1. RefundInvariant' /\ RefundInvariant
  BY RefundStep DEF LedgerInvariant
<1>2. lineTotal' = lineTotal /\ orderPayment' \in {"Paid", "Partially Refunded", "Refunded"}
  BY DEF Return, orderVars
<1>3. PICK last \in Listed(request) :
        lineRefunded' = Plus(lineRefunded, LineCents(request, last))
  BY DEF Return
<1>4. /\ LineCents(request, last) \in [Variants -> Nat]
      /\ Sum(Variants, LineCents(request, last)) = Amount(request)
  BY LinesComeToAmount
<1>5. lineRefunded \in [Variants -> Nat] /\ Sum(Variants, lineRefunded) = refunded
  BY DEF LedgerInvariant, LedgersAgree
<1>6. lineRefunded' \in [Variants -> Nat]
  BY <1>3, <1>4, <1>5 DEF Plus
<1>7. LedgersAgree'
  <2> DEFINE lines == LineCents(request, last)
  <2>1. \A v \in Variants :
          /\ lineRefunded[v] \in Nat /\ lines[v] \in Nat
          /\ lineRefunded'[v] = lineRefunded[v] + lines[v]
    BY <1>3, <1>4, <1>5 DEF Plus
  <2>2. Sum(Variants, lines) = Amount(request)
    BY <1>4
  <2> HIDE DEF lines
  <2>3. Sum(Variants, lineRefunded') = Sum(Variants, lineRefunded) + Sum(Variants, lines)
    BY <2>1, VariantsAssumption, SumPlus
  <2>4. refunded' = refunded + Amount(request)
    BY DEF Return
  <2>5. QED
    BY <1>5, <2>2, <2>3, <2>4 DEF LedgersAgree
<1>8. answered' \in [Keys -> Amounts]
  BY DEF Return, LedgerInvariant
<1>9. ASSUME NEW v \in Variants
      PROVE  /\ unkeyed'[v] \in Nat
             /\ Sum(Keys, [x \in Keys |-> answered'[x][v]]) \in Nat
             /\ returned'[v] = unkeyed'[v] + Sum(Keys, [x \in Keys |-> answered'[x][v]])
  <2> DEFINE a == [x \in Keys |-> answered[x][v]]
             b == [x \in Keys |-> answered'[x][v]]
  <2>1. \A x \in Keys : a[x] \in Nat /\ b[x] \in Nat
    <3>1. answered \in [Keys -> Amounts]
      BY DEF LedgerInvariant
    <3>2. \A n \in Amounts : n[v] \in Nat
      BY MaxSoldAssumption DEF Amounts
    <3>3. QED
      BY <1>8, <3>1, <3>2
  <2>2. returned[v] = unkeyed[v] + Sum(Keys, a) /\ unkeyed[v] \in Nat /\ request[v] \in Nat
    BY VariantNumbers DEF LedgerInvariant, KeyRefundsOnce
  <2>3. returned'[v] = returned[v] + request[v]
    BY DEF Return, Plus
  <2>4. \A x \in Keys \ {k} : b[x] = a[x]
    BY DEF Return
  <2>5. CASE k = NoKey
    <3>1. unkeyed'[v] = unkeyed[v] + request[v]
      BY <2>5 DEF Return, Plus
    <3>2. \A x \in Keys : b[x] = a[x]
      BY <2>4, <2>5, NoKeyAssumption
    <3> HIDE DEF a, b
    <3>3. Sum(Keys, b) = Sum(Keys, a)
      BY <3>2, SumAgrees
    <3>4. Sum(Keys, a) \in Nat
      BY <2>1, KeysAssumption, SumType
    <3>5. Sum(Keys, b) \in Nat /\ returned'[v] = unkeyed'[v] + Sum(Keys, b)
      BY <2>2, <2>3, <3>1, <3>3, <3>4
    <3>6. QED
      BY <2>2, <3>1, <3>5 DEF b
  <2>6. CASE k \in Keys
    <3>1. unkeyed'[v] = unkeyed[v]
      BY <2>6, NoKeyAssumption DEF Return
    <3>2. a[k] = 0
      <4>1. answered[k] = Nothing
        BY <2>6, NoKeyAssumption DEF Return, FreshKey
      <4>2. QED
        BY <2>6, <4>1 DEF Nothing
    <3>3. b[k] = request[v]
      BY <2>6 DEF Return
    <3> HIDE DEF a, b
    <3>4. Sum(Keys, b) = Sum(Keys, a) - a[k] + b[k]
      BY <2>1, <2>4, <2>6, KeysAssumption, SumChange
    <3>5. Sum(Keys, a) \in Nat /\ Sum(Keys, b) \in Nat
      BY <2>1, KeysAssumption, SumType
    <3>6. returned'[v] = unkeyed'[v] + Sum(Keys, b)
      BY <2>2, <2>3, <3>1, <3>2, <3>3, <3>4, <3>5
    <3>7. QED
      BY <2>2, <3>1, <3>5, <3>6 DEF b
  <2>7. QED
    BY <2>5, <2>6
<1>10. KeyRefundsOnce'
  BY <1>9 DEF KeyRefundsOnce
<1>11. unkeyed' \in Amounts
  <2>1. ASSUME NEW v \in Variants PROVE unkeyed'[v] \in 0 .. MaxSold
    <3>1. returned'[v] \in 0 .. MaxSold
      BY <1>1 DEF RefundInvariant, Amounts
    <3> DEFINE n == Sum(Keys, [x \in Keys |-> answered'[x][v]])
    <3>2. n \in Nat /\ returned'[v] = unkeyed'[v] + n /\ unkeyed'[v] \in Nat
      BY <1>9
    <3> HIDE DEF n
    <3>3. QED
      BY <3>1, <3>2, MaxSoldAssumption
  <2>2. CASE k = NoKey
    <3>1. unkeyed' = Plus(unkeyed, request)
      BY <2>2 DEF Return
    <3>2. QED
      BY <2>1, <3>1 DEF Plus, Amounts
  <2>3. CASE k # NoKey
    BY <2>3 DEF Return, LedgerInvariant
  <2>4. QED
    BY <2>2, <2>3
<1>12. lineTotal' \in [Variants -> 0 .. MaxCents]
  BY <1>2 DEF LedgerInvariant
<1>13. QED
  BY <1>1, <1>2, <1>6, <1>7, <1>8, <1>10, <1>11, <1>12 DEF LedgerInvariant

\* However returns are split, rounded and sent again, the invariant holds.
THEOREM LedgersAreSafe ==
  ASSUME Variants # {}
  PROVE  RefundSpec => []LedgerInvariant
<1>1. RefundInit => LedgerInvariant
  <2> SUFFICES ASSUME RefundInit PROVE LedgerInvariant
    OBVIOUS
  <2>1. RefundInvariant
    BY RefundInitInvariant
  <2>2. Nothing \in Amounts /\ Nothing \in [Variants -> Nat]
    BY MaxSoldAssumption DEF Nothing, Amounts
  <2>3. LedgersAgree
    <3>1. \A v \in Variants : lineRefunded[v] = 0
      BY DEF RefundInit, Nothing
    <3>2. Sum(Variants, lineRefunded) = 0
      BY <3>1, SumOfNothing
    <3>3. QED
      BY <3>2 DEF LedgersAgree, RefundInit
  <2>4. KeyRefundsOnce
    <3> SUFFICES ASSUME NEW v \in Variants
                 PROVE  returned[v] = unkeyed[v] + Sum(Keys, [k \in Keys |-> answered[k][v]])
      BY DEF KeyRefundsOnce
    <3> DEFINE a == [k \in Keys |-> answered[k][v]]
    <3>1. \A k \in Keys : a[k] = 0
      BY DEF RefundInit, Nothing
    <3>2. returned[v] = 0 /\ unkeyed[v] = 0
      BY DEF RefundInit, Nothing
    <3> HIDE DEF a
    <3>3. Sum(Keys, a) = 0
      BY <3>1, SumOfNothing
    <3>4. returned[v] = unkeyed[v] + Sum(Keys, a)
      BY <3>2, <3>3
    <3>5. QED
      BY <3>4 DEF a
  <2>5. QED
    BY <2>1, <2>2, <2>3, <2>4 DEF RefundInit, LedgerInvariant
<1>2. LedgerInvariant /\ [RefundNext]_refundVars => LedgerInvariant'
  <2> SUFFICES ASSUME LedgerInvariant, [RefundNext]_refundVars
               PROVE  LedgerInvariant'
    OBVIOUS
  <2>1. CASE RefundNext
    BY <2>1, LedgerStep DEF RefundNext
  <2>2. CASE UNCHANGED refundVars
    BY <2>2 DEF refundVars, orderVars, LedgerInvariant, LedgersAgree, KeyRefundsOnce,
       RefundInvariant, RefundedToTheCent, Amounts
  <2>3. QED
    BY <2>1, <2>2
<1>3. QED
  BY <1>1, <1>2, PTL DEF RefundSpec

\* Quantities and amounts stay in their ranges: no line is refunded a negative
\* amount, and no more comes back than was sold.
THEOREM RefundTypesCorrect ==
  ASSUME Variants # {}
  PROVE  RefundSpec => []RefundTypeOK
<1>1. LedgerInvariant => RefundTypeOK
  BY DEF LedgerInvariant, RefundInvariant, RefundTypeOK
<1>2. QED
  BY LedgersAreSafe, <1>1, PTL

\* The return lines and the payment ledger tell the same refund.
THEOREM LinesMatchLedger ==
  ASSUME Variants # {}
  PROVE  RefundSpec => []LedgersAgree
<1>1. LedgerInvariant => LedgersAgree
  BY DEF LedgerInvariant
<1>2. QED
  BY LedgersAreSafe, <1>1, PTL

\* A key refunds once, however often its request is repeated.
THEOREM RepeatedKeysRefundOnce ==
  ASSUME Variants # {}
  PROVE  RefundSpec => []KeyRefundsOnce
<1>1. LedgerInvariant => KeyRefundsOnce
  BY DEF LedgerInvariant
<1>2. QED
  BY LedgersAreSafe, <1>1, PTL

-----------------------------------------------------------------------------
(* Fair shares.                                                            *)

\* What is off by half a cent for each unit stays so when some units are added
\* with half a cent of error at most for all of them together.
LEMMA FairStepOfLine ==
  ASSUME NEW s \in Nat \ {0}, NEW l \in Nat, NEW x \in Int, NEW r \in Nat,
         NEW q \in Nat \ {0}, NEW c \in Int,
         2 * (s * x - l * r) \in -s * r .. s * r,
         2 * (s * c - l * q) \in -s .. s
  PROVE  2 * (s * (x + c) - l * (r + q)) \in -s * (r + q) .. s * (r + q)
<1>1. /\ s * (x + c) = s * x + s * c
      /\ l * (r + q) = l * r + l * q
      /\ s * (r + q) = s * r + s * q
      /\ -s * (r + q) = -(s * r) - s * q
      /\ -s * r = -(s * r)
  OBVIOUS
<1>2. s <= s * q
  OBVIOUS
<1> DEFINE sx == s * x
           sc == s * c
           lr == l * r
           lq == l * q
           sr == s * r
           sq == s * q
<1>3. sx \in Int /\ sc \in Int /\ lr \in Int /\ lq \in Int /\ sr \in Int /\ sq \in Int
  OBVIOUS
<1>4. 2 * (sx - lr) \in -sr .. sr /\ 2 * (sc - lq) \in -s .. s /\ s <= sq
  BY <1>1, <1>2
<1>5. /\ s * (x + c) = sx + sc
      /\ l * (r + q) = lr + lq
      /\ s * (r + q) = sr + sq
      /\ -s * (r + q) = -sr - sq
  BY <1>1
<1> HIDE DEF sx, sc, lr, lq, sr, sq
<1>6. 2 * ((sx + sc) - (lr + lq)) \in -sr - sq .. sr + sq
  BY <1>3, <1>4
<1>7. QED
  BY <1>5, <1>6

\* What the fair shares rest on.
FairInvariant == LedgerInvariant /\ FairShares

LEMMA FairStep ==
  ASSUME FairInvariant, NEW request \in Amounts, NEW k \in Keys \cup {NoKey},
         Return(request, k)
  PROVE  FairInvariant'
<1>1. LedgerInvariant' /\ LedgerInvariant /\ RefundInvariant
  BY LedgerStep DEF FairInvariant, LedgerInvariant
<1>2. lineTotal' = lineTotal /\ sold' = sold
  BY DEF Return, orderVars
<1>3. CASE TakesTheRest(request)
  <2>1. orderPayment' = "Refunded"
    BY <1>3 DEF Return
  <2>2. QED
    BY <1>1, <1>2, <2>1 DEF FairInvariant, FairShares
<1>4. CASE ~TakesTheRest(request)
  <2>1. orderPayment # "Refunded"
    <3>1. refunded < total
      BY DEF Return
    <3>2. orderPayment = "Refunded" => refunded = total
      BY <1>1, Zenon DEF RefundInvariant, RefundedToTheCent
    <3>3. refunded \in Nat /\ total \in Nat
      BY <1>1 DEF RefundInvariant
    <3>4. QED
      BY <3>1, <3>2, <3>3
  <2>2. Amount(request) - Calculated(request) = 0
    <3>1. Amount(request) = Calculated(request)
      BY <1>4 DEF Amount
    <3>2. Amount(request) \in 1 .. total - refunded
      BY DEF Return
    <3>3. QED
      BY <3>1, <3>2
  <2>3. PICK last \in Listed(request) :
          lineRefunded' = Plus(lineRefunded, LineCents(request, last))
    BY DEF Return
  <2>4. ASSUME NEW v \in Variants
        PROVE  LET error == sold'[v] * lineRefunded'[v] - lineTotal'[v] * returned'[v]
               IN  2 * error \in -sold'[v] * returned'[v] .. sold'[v] * returned'[v]
    <3> DEFINE s == sold[v]
               l == lineTotal[v]
               x == lineRefunded[v]
               r == returned[v]
               q == request[v]
               c == RoundHalfUp(l * q, s)
    <3>1. s \in Nat \ {0} /\ l \in Nat /\ r \in Nat /\ q \in Nat /\ x \in Int
      BY <1>1, VariantNumbers
    <3>2. 2 * (s * x - l * r) \in -s * r .. s * r
      BY <2>1 DEF FairInvariant, FairShares
    <3>3. returned'[v] = r + q
      BY DEF Return, Plus
    <3>4. lineRefunded'[v] = x + LineCents(request, last)[v]
      BY <2>3 DEF Plus
    <3>5. CASE v \in Listed(request)
      <4>1. q \in Nat \ {0}
        BY <3>1, <3>5 DEF Listed
      <4>2. l * q \in Nat
        BY <3>1
      <4>3. c \in Int /\ 2 * (s * c - l * q) \in -s .. s
        BY <3>1, <4>2, HalfUpIsNear
      <4>4. LineCents(request, last)[v] = c + 0
        BY <2>2, <3>5, <4>3 DEF LineCents, Cents
      <4>5. lineRefunded'[v] = x + c
        BY <3>4, <4>3, <4>4
      <4> HIDE DEF s, l, x, r, q, c
      <4>6. 2 * (s * (x + c) - l * (r + q)) \in -s * (r + q) .. s * (r + q)
        BY <3>1, <3>2, <4>1, <4>3, FairStepOfLine
      <4>7. sold'[v] = s /\ lineTotal'[v] = l
        BY <1>2 DEF s, l
      <4>8. QED
        BY <3>1, <3>3, <4>3, <4>5, <4>6, <4>7
    <3>6. CASE v \notin Listed(request)
      <4>1. q = 0
        BY <3>1, <3>6 DEF Listed
      <4>2. LineCents(request, last)[v] = 0
        BY <3>6 DEF LineCents
      <4>3. lineRefunded'[v] = x /\ returned'[v] = r
        BY <3>1, <3>3, <3>4, <4>1, <4>2
      <4>4. QED
        BY <1>2, <3>1, <3>2, <4>3
    <3>7. QED
      BY <3>5, <3>6
  <2>5. FairShares'
    BY <2>4 DEF FairShares
  <2>6. QED
    BY <1>1, <2>5 DEF FairInvariant
<1>5. QED
  BY <1>3, <1>4

\* Until the last return, a customer who returns a variant bit by bit is within
\* half a cent for each unit of its share of the lines' total.
THEOREM SharesAreFair ==
  ASSUME Variants # {}
  PROVE  RefundSpec => []FairShares
<1>1. RefundInit => FairShares
  <2> SUFFICES ASSUME RefundInit, NEW v \in Variants
               PROVE  LET error == sold[v] * lineRefunded[v] - lineTotal[v] * returned[v]
                      IN  2 * error \in -sold[v] * returned[v] .. sold[v] * returned[v]
    BY DEF FairShares
  <2>1. sold[v] \in Int /\ lineTotal[v] \in Int /\ lineRefunded[v] = 0 /\ returned[v] = 0
    BY MaxSoldAssumption, MaxCentsAssumption DEF RefundInit, Nothing
  <2>2. QED
    BY <2>1
<1>2. LedgerInvariant /\ FairShares /\ [RefundNext]_refundVars => FairShares'
  <2> SUFFICES ASSUME FairInvariant, [RefundNext]_refundVars
               PROVE  FairShares'
    BY DEF FairInvariant
  <2>1. CASE RefundNext
    BY <2>1, FairStep DEF RefundNext, FairInvariant
  <2>2. CASE UNCHANGED refundVars
    BY <2>2 DEF refundVars, orderVars, FairInvariant, FairShares
  <2>3. QED
    BY <2>1, <2>2
<1>3. QED
  BY LedgersAreSafe, <1>1, <1>2, PTL DEF RefundSpec
=============================================================================
