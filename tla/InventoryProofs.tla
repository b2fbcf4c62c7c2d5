--------------------------- MODULE InventoryProofs ---------------------------
(***************************************************************************)
(* Proofs about Inventory for any rows, any finite set of reservations and *)
(* any quantities: its type invariant and three safety invariants.         *)
(***************************************************************************)
EXTENDS Inventory, FiniteSetTheorems, TLAPS

-----------------------------------------------------------------------------
(* Facts about the units that a set of reservations holds.                 *)

\* There are finitely many reservations.
LEMMA ReservationsFinite == \A S \in SUBSET Reservations : IsFiniteSet(S)
  BY FS_Subset, ReservationsAssumption

\* The units of a finite set, of reservations or of anything else that has a row
\* and an amount, can be counted.
LEMMA UnitsFinite ==
  ASSUME NEW S, IsFiniteSet(S), NEW rows, NEW amounts, NEW row
  PROVE  /\ IsFiniteSet(Units(S, rows, amounts, row))
         /\ Total(S, rows, amounts, row) \in Nat
<1>1. IsFiniteSet(S)
  OBVIOUS
<1>2. IsFiniteSet(Quantities)
  BY FS_Interval, MaxQuantityAssumption DEF Quantities
<1>3. IsFiniteSet(S \X Quantities)
  BY <1>1, <1>2, FS_Product
<1>4. Units(S, rows, amounts, row) \in SUBSET (S \X Quantities)
  BY DEF Units
<1>5. IsFiniteSet(Units(S, rows, amounts, row))
  BY <1>3, <1>4, FS_Subset
<1>6. QED
  BY <1>5, FS_CardinalityType DEF Total

\* Disjoint sets hold disjoint units.
LEMMA TotalUnion ==
  ASSUME NEW S, IsFiniteSet(S), NEW T, IsFiniteSet(T), S \cap T = {}, NEW rows, NEW amounts, NEW row
  PROVE  Total(S \cup T, rows, amounts, row)
           = Total(S, rows, amounts, row) + Total(T, rows, amounts, row)
<1> DEFINE US == Units(S, rows, amounts, row)
           UT == Units(T, rows, amounts, row)
<1>1. Units(S \cup T, rows, amounts, row) = US \cup UT
  BY DEF Units
<1>2. US \cap UT = {}
  BY DEF Units
<1>3. IsFiniteSet(US) /\ IsFiniteSet(UT)
  BY UnitsFinite
<1>4. Cardinality(US) \in Nat /\ Cardinality(UT) \in Nat
  BY <1>3, FS_CardinalityType
<1>5. Cardinality(US \cup UT) = Cardinality(US) + Cardinality(UT) - 0
  BY <1>2, <1>3, FS_Union, FS_EmptySet
<1>6. /\ Total(S \cup T, rows, amounts, row) = Cardinality(US \cup UT)
      /\ Total(S, rows, amounts, row) = Cardinality(US)
      /\ Total(T, rows, amounts, row) = Cardinality(UT)
  BY <1>1 DEF Total
<1> HIDE DEF US, UT
<1>7. QED
  BY <1>4, <1>5, <1>6

\* Taking members out of a set takes their units out of its total.
LEMMA TotalDifference ==
  ASSUME NEW T, IsFiniteSet(T), NEW S \in SUBSET T,
         NEW rows, NEW amounts, NEW row
  PROVE  /\ Total(T \ S, rows, amounts, row)
              = Total(T, rows, amounts, row) - Total(S, rows, amounts, row)
         /\ Total(S, rows, amounts, row) <= Total(T, rows, amounts, row)
<1>1. (T \ S) \cup S = T /\ (T \ S) \cap S = {}
  OBVIOUS
<1>2. IsFiniteSet(S) /\ IsFiniteSet(T \ S)
  BY FS_Subset
<1>3. Total(T, rows, amounts, row)
        = Total(T \ S, rows, amounts, row) + Total(S, rows, amounts, row)
  BY <1>1, <1>2, TotalUnion
<1>4. /\ Total(T, rows, amounts, row) \in Nat
      /\ Total(T \ S, rows, amounts, row) \in Nat
      /\ Total(S, rows, amounts, row) \in Nat
  BY <1>2, UnitsFinite
<1>5. QED
  BY <1>3, <1>4

\* One member holds its amount, on its row.
LEMMA TotalOfOne ==
  ASSUME NEW x, NEW rows, NEW amounts, NEW row, amounts[x] \in 0 .. MaxQuantity
  PROVE  Total({x}, rows, amounts, row) = IF rows[x] = row THEN amounts[x] ELSE 0
<1> DEFINE U == Units({x}, rows, amounts, row)
<1>1. CASE rows[x] # row
  <2>1. U = {}
    BY <1>1 DEF Units
  <2>2. QED
    BY <1>1, <2>1, FS_EmptySet DEF Total
<1>2. CASE rows[x] = row
  <2> DEFINE f == [n \in 1 .. amounts[x] |-> <<x, n>>]
  <2>1. U = {<<x, n>> : n \in 1 .. amounts[x]}
    BY <1>2, MaxQuantityAssumption DEF Units, Quantities
  <2>2. f \in Bijection(1 .. amounts[x], U)
    <3>1. f \in [1 .. amounts[x] -> U]
      BY <2>1
    <3>2. \A m, n \in 1 .. amounts[x] : f[m] = f[n] => m = n
      OBVIOUS
    <3>3. \A u \in U : \E n \in 1 .. amounts[x] : f[n] = u
      BY <2>1
    <3> HIDE DEF f, U
    <3>4. QED
      BY <3>1, <3>2, <3>3 DEF Bijection, Injection, Surjection, IsInjective
  <2>3. Cardinality(1 .. amounts[x]) = amounts[x] /\ IsFiniteSet(1 .. amounts[x])
    BY FS_Interval
  <2>4. Cardinality(U) = amounts[x]
    BY <2>2, <2>3, FS_Bijection DEF ExistsBijection
  <2>5. QED
    BY <1>2, <2>4 DEF Total
<1>3. QED
  BY <1>1, <1>2

\* Only the rows and quantities of the reservations counted matter.
LEMMA TotalAgrees ==
  ASSUME NEW S, NEW rows1, NEW amounts1, NEW rows2, NEW amounts2, NEW row,
         \A r \in S : rows1[r] = rows2[r] /\ amounts1[r] = amounts2[r]
  PROVE  Total(S, rows1, amounts1, row) = Total(S, rows2, amounts2, row)
<1>1. Units(S, rows1, amounts1, row) = Units(S, rows2, amounts2, row)
  BY DEF Units
<1>2. QED
  BY <1>1 DEF Total

\* Reservations of other rows hold nothing of a row.
LEMMA TotalElsewhere ==
  ASSUME NEW S, NEW rows, NEW amounts, NEW row, \A r \in S : rows[r] # row
  PROVE  Total(S, rows, amounts, row) = 0
<1>1. Units(S, rows, amounts, row) = {}
  BY DEF Units
<1>2. QED
  BY <1>1, FS_EmptySet DEF Total

\* A new member adds its amount to the total of its row.
LEMMA TotalInsert ==
  ASSUME NEW S, IsFiniteSet(S), NEW x, x \notin S, NEW row, NEW rows, NEW amounts,
         amounts[x] \in 0 .. MaxQuantity
  PROVE  Total(S \cup {x}, rows, amounts, row)
           = Total(S, rows, amounts, row) + IF rows[x] = row THEN amounts[x] ELSE 0
<1>1. IsFiniteSet({x}) /\ S \cap {x} = {}
  BY FS_Singleton
<1>2. Total(S \cup {x}, rows, amounts, row)
        = Total(S, rows, amounts, row) + Total({x}, rows, amounts, row)
  BY <1>1, TotalUnion
<1>3. Total({x}, rows, amounts, row) = IF rows[x] = row THEN amounts[x] ELSE 0
  BY TotalOfOne
<1>4. QED
  BY <1>2, <1>3

\* A member that is taken out takes its amount from the total of its row.
LEMMA TotalRemove ==
  ASSUME NEW S, IsFiniteSet(S), NEW x \in S, NEW row, NEW rows, NEW amounts,
         amounts[x] \in 0 .. MaxQuantity
  PROVE  Total(S \ {x}, rows, amounts, row)
           = Total(S, rows, amounts, row) - IF rows[x] = row THEN amounts[x] ELSE 0
<1>1. {x} \in SUBSET S
  OBVIOUS
<1>2. Total(S \ {x}, rows, amounts, row)
        = Total(S, rows, amounts, row) - Total({x}, rows, amounts, row)
  BY <1>1, TotalDifference
<1>3. Total({x}, rows, amounts, row) = IF rows[x] = row THEN amounts[x] ELSE 0
  BY TotalOfOne
<1>4. QED
  BY <1>2, <1>3

-----------------------------------------------------------------------------
(* The inductive invariant.  None of its parts is inductive alone: that    *)
(* reserved stays a natural number when stock is given back needs          *)
(* ReservedIsHeld, and NeverOversold needs the types.                      *)

StockInvariant ==
  TypeOK /\ ReservedIsHeld /\ LedgerAccountsForStock /\ NeverOversold

\* The invariant holds of the empty stock.
LEMMA InitStock == Init => StockInvariant
<1> SUFFICES ASSUME Init PROVE StockInvariant
  OBVIOUS
<1>1. TypeOK
  BY ColumnMaxAssumption, MaxQuantityAssumption
     DEF Init, TypeOK, Column, Statuses
<1>2. WithStatus("ACTIVE") = {} /\ WithStatus("FULFILLED") = {}
  BY DEF Init, WithStatus
<1>3. \A row \in Rows : /\ Held(WithStatus("ACTIVE"), row) = 0
                        /\ Held(WithStatus("FULFILLED"), row) = 0
  BY <1>2, TotalElsewhere DEF Held
<1>4. ReservedIsHeld /\ LedgerAccountsForStock
  BY <1>3 DEF Init, ReservedIsHeld, LedgerAccountsForStock
<1>5. NeverOversold
  BY DEF Init, NeverOversold, Available
<1>6. QED
  BY <1>1, <1>4, <1>5 DEF StockInvariant

\* Steps that touch no reservation leave what reservations hold as it was.
LEMMA HeldUnchanged ==
  ASSUME UNCHANGED <<status, holdVars>>
  PROVE  \A row : /\ Held(WithStatus("ACTIVE"), row)' = Held(WithStatus("ACTIVE"), row)
                  /\ Held(WithStatus("FULFILLED"), row)' = Held(WithStatus("FULFILLED"), row)
BY DEF Held, WithStatus, holdVars, Total, Units

\* The inventory service's operations preserve the invariant.
LEMMA StockStep ==
  ASSUME StockInvariant, StockNext
  PROVE  StockInvariant'
<1> PICK row \in Rows :
      \/ \E q \in 0 .. MaxQuantity : RecordOpeningBalance(row, q)
      \/ \E change \in -MaxQuantity .. MaxQuantity, allow \in BOOLEAN :
           RecordAdjustment(row, change, allow)
      \/ \E kind \in Kinds, q \in Quantities :
           \/ QuarantineStock(row, kind, q)
           \/ WriteOffStock(row, kind, q)
  BY DEF StockNext, StockOn
<1> USE MaxQuantityAssumption, ColumnMaxAssumption DEF StockInvariant
<1>1. ASSUME NEW q \in 0 .. MaxQuantity, RecordOpeningBalance(row, q)
      PROVE  StockInvariant'
  <2>1. TypeOK'
    BY <1>1 DEF RecordOpeningBalance, TypeOK, MovementAccepted, Column, holdVars
  <2>2. ReservedIsHeld'
    BY <1>1, HeldUnchanged DEF RecordOpeningBalance, holdVars, ReservedIsHeld
  <2>3. LedgerAccountsForStock'
    <3>1. saleMoved' = saleMoved /\ UNCHANGED <<status, holdVars>>
      BY <1>1 DEF RecordOpeningBalance
    <3>2. \A w \in Rows : onHand'[w] = stockMoved'[w] + saleMoved[w]
      BY <1>1 DEF RecordOpeningBalance, TypeOK, Column, LedgerAccountsForStock
    <3>3. QED
      BY <3>1, <3>2, HeldUnchanged DEF LedgerAccountsForStock
  <2>4. NeverOversold'
    BY <1>1 DEF RecordOpeningBalance, TypeOK, NeverOversold, Available, Column
  <2>5. QED
    BY <2>1, <2>2, <2>3, <2>4
<1>2. ASSUME NEW change \in -MaxQuantity .. MaxQuantity, NEW allow \in BOOLEAN,
             RecordAdjustment(row, change, allow)
      PROVE  StockInvariant'
  <2>1. TypeOK'
    BY <1>2 DEF RecordAdjustment, TypeOK, MovementAccepted, Column, holdVars
  <2>2. ReservedIsHeld'
    BY <1>2, HeldUnchanged DEF RecordAdjustment, holdVars, ReservedIsHeld
  <2>3. LedgerAccountsForStock'
    <3>1. saleMoved' = saleMoved /\ UNCHANGED <<status, holdVars>>
      BY <1>2 DEF RecordAdjustment
    <3>2. \A w \in Rows : onHand'[w] = stockMoved'[w] + saleMoved[w]
      BY <1>2 DEF RecordAdjustment, TypeOK, Column, LedgerAccountsForStock
    <3>3. QED
      BY <3>1, <3>2, HeldUnchanged DEF LedgerAccountsForStock
  <2>4. NeverOversold'
    BY <1>2 DEF RecordAdjustment, MovementAccepted, TypeOK, NeverOversold,
       Available, Unquarantined, Column
  <2>5. QED
    BY <2>1, <2>2, <2>3, <2>4
<1>3. ASSUME NEW kind \in Kinds, NEW q \in Quantities,
             QuarantineStock(row, kind, q)
      PROVE  StockInvariant'
  <2>1. TypeOK'
    BY <1>3 DEF QuarantineStock, TypeOK, Quantities, holdVars, ledgerVars
  <2>2. ReservedIsHeld' /\ LedgerAccountsForStock'
    BY <1>3, HeldUnchanged DEF QuarantineStock, TypeOK, holdVars, ledgerVars,
       ReservedIsHeld, LedgerAccountsForStock
  <2>3. NeverOversold'
    BY <1>3 DEF QuarantineStock, TypeOK, NeverOversold, Available, Column,
       Quantities, Kinds
  <2>4. QED
    BY <2>1, <2>2, <2>3
<1>4. ASSUME NEW kind \in Kinds, NEW q \in Quantities,
             WriteOffStock(row, kind, q)
      PROVE  StockInvariant'
  <2>1. TypeOK'
    BY <1>4
       DEF WriteOffStock, TakeQuarantined, TypeOK, Quantities, Column, Kinds, holdVars
  <2>2. ReservedIsHeld'
    BY <1>4, HeldUnchanged
       DEF WriteOffStock, TakeQuarantined, holdVars, ReservedIsHeld
  <2>3. LedgerAccountsForStock'
    <3>1. saleMoved' = saleMoved /\ UNCHANGED <<status, holdVars>>
      BY <1>4 DEF WriteOffStock, TakeQuarantined
    <3>2. \A w \in Rows : onHand'[w] = stockMoved'[w] + saleMoved[w]
      BY <1>4
         DEF WriteOffStock, TakeQuarantined, TypeOK, Column, Quantities, LedgerAccountsForStock
    <3>3. QED
      BY <3>1, <3>2, HeldUnchanged DEF LedgerAccountsForStock
  <2>4. NeverOversold'
    BY <1>4
       DEF WriteOffStock, TakeQuarantined, TypeOK, NeverOversold, Available, Column,
       Quantities, Kinds
  <2>5. QED
    BY <2>1, <2>2, <2>3, <2>4
<1>5. QED
  BY <1>1, <1>2, <1>3, <1>4

-----------------------------------------------------------------------------
(* The reservation service's operations.  Each lemma is about a set of     *)
(* reservations, so that it serves the transactions of an order too.       *)

\* Reservations made in one transaction add what they hold to reserved.
LEMMA HoldStep ==
  ASSUME StockInvariant,
         NEW S \in SUBSET Reservations, NEW rows \in [S -> Rows],
         NEW amounts \in [S -> Quantities], NEW expires \in {"never", "ahead"},
         Hold(S, rows, amounts, expires)
  PROVE  StockInvariant'
<1> USE DEF StockInvariant
<1> DEFINE A == WithStatus("ACTIVE")
<1>1. /\ WithStatus("ACTIVE")' = A \cup S
      /\ WithStatus("FULFILLED")' = WithStatus("FULFILLED")
      /\ A \cap S = {}
      /\ WithStatus("FULFILLED") \cap S = {}
  BY DEF Hold, WithStatus, SetStatus, TypeOK
<1>2. A \in SUBSET Reservations /\ WithStatus("FULFILLED") \in SUBSET Reservations
  BY DEF WithStatus
<1>3. ASSUME NEW row \in Rows
      PROVE  /\ Held(WithStatus("ACTIVE"), row)'
                   = Held(A, row) + Total(S, rows, amounts, row)
             /\ Held(WithStatus("FULFILLED"), row)'
                   = Held(WithStatus("FULFILLED"), row)
  <2>1. /\ \A r \in S : rowOf'[r] = rows[r] /\ quantity'[r] = amounts[r]
        /\ \A r \in Reservations \ S :
              rowOf'[r] = rowOf[r] /\ quantity'[r] = quantity[r]
    BY DEF Hold
  <2>2. Total(S, rowOf', quantity', row) = Total(S, rows, amounts, row)
    BY <2>1, TotalAgrees
  <2>3. Total(A, rowOf', quantity', row) = Held(A, row)
    <3>1. \A r \in A : rowOf'[r] = rowOf[r] /\ quantity'[r] = quantity[r]
      BY <1>1, <1>2, <2>1
    <3>2. QED
      BY <3>1, TotalAgrees DEF Held
  <2>4. Total(A \cup S, rowOf', quantity', row)
          = Total(A, rowOf', quantity', row) + Total(S, rowOf', quantity', row)
    BY <1>1, <1>2, TotalUnion, ReservationsFinite
  <2>5. Total(WithStatus("FULFILLED"), rowOf', quantity', row)
          = Held(WithStatus("FULFILLED"), row)
    <3>1. \A r \in WithStatus("FULFILLED") :
            rowOf'[r] = rowOf[r] /\ quantity'[r] = quantity[r]
      BY <1>1, <1>2, <2>1
    <3>2. QED
      BY <3>1, TotalAgrees DEF Held
  <2>6. /\ Held(WithStatus("ACTIVE"), row)' = Total(A \cup S, rowOf', quantity', row)
        /\ Held(WithStatus("FULFILLED"), row)'
             = Total(WithStatus("FULFILLED"), rowOf', quantity', row)
    BY <1>1 DEF Held, Total, Units
  <2>7. QED
    BY <2>2, <2>3, <2>4, <2>5, <2>6
<1>4. \A row \in Rows : Total(S, rows, amounts, row) \in Nat
  BY UnitsFinite, ReservationsFinite
<1>5. TypeOK'
  BY <1>4, MaxQuantityAssumption
     DEF Hold, TypeOK, SetStatus, Statuses, Quantities, ledgerVars
<1>6. ReservedIsHeld' /\ LedgerAccountsForStock'
  BY <1>3 DEF Hold, ReservedIsHeld, LedgerAccountsForStock, ledgerVars
<1>7. NeverOversold'
  <2> SUFFICES ASSUME NEW row \in Rows \ overridden
               PROVE  Available(row)' >= 0
    BY DEF NeverOversold, Hold
  <2>1. CASE \E r \in S : rows[r] = row
    BY <2>1, <1>4
       DEF Hold, ReservedAccepted, Unquarantined, Available, TypeOK, Column
  <2>2. CASE \A r \in S : rows[r] # row
    <3>1. Total(S, rows, amounts, row) = 0
      BY <2>2, TotalElsewhere
    <3>2. QED
      BY <3>1 DEF Hold, Available, NeverOversold, TypeOK, Column
  <2>3. QED
    BY <2>1, <2>2
<1>8. QED
  BY <1>5, <1>6, <1>7

\* Reservations given back take what they held off reserved.
LEMMA GiveBackStep ==
  ASSUME StockInvariant, NEW S \in SUBSET Reservations,
         NEW outcome \in {"RELEASED", "CANCELLED", "EXPIRED"},
         GiveBack(S, outcome)
  PROVE  StockInvariant'
<1> USE DEF StockInvariant
<1> DEFINE A == WithStatus("ACTIVE")
<1>1. /\ WithStatus("ACTIVE")' = A \ S
      /\ WithStatus("FULFILLED")' = WithStatus("FULFILLED")
      /\ S \in SUBSET A
      /\ A \in SUBSET Reservations
  BY DEF GiveBack, Unreserve, WithStatus, SetStatus, TypeOK
<1>2. ASSUME NEW row \in Rows
      PROVE  /\ Held(WithStatus("ACTIVE"), row)' = Held(A, row) - Held(S, row)
             /\ Held(WithStatus("FULFILLED"), row)'
                   = Held(WithStatus("FULFILLED"), row)
             /\ Held(S, row) \in Nat
             /\ Held(S, row) <= Held(A, row)
  <2>1. /\ Held(WithStatus("ACTIVE"), row)' = Held(A \ S, row)
        /\ Held(WithStatus("FULFILLED"), row)' = Held(WithStatus("FULFILLED"), row)
    BY <1>1 DEF GiveBack, Unreserve, holdVars, Held, Total, Units
  <2>2. IsFiniteSet(A) /\ IsFiniteSet(S)
    BY <1>1, ReservationsFinite
  <2>3. QED
    BY <1>1, <2>1, <2>2, TotalDifference, UnitsFinite DEF Held
<1>3. TypeOK'
  BY <1>2
     DEF GiveBack, Unreserve, TypeOK, SetStatus, Statuses, Settled, ReservedIsHeld,
     ledgerVars, holdVars
<1>4. ReservedIsHeld' /\ LedgerAccountsForStock'
  BY <1>2
     DEF GiveBack, Unreserve, ReservedIsHeld, LedgerAccountsForStock, ledgerVars
<1>5. NeverOversold'
  BY <1>2 DEF GiveBack, Unreserve, NeverOversold, Available, TypeOK, Column
<1>6. QED
  BY <1>3, <1>4, <1>5

\* Reservations fulfilled take what they held off reserved and off on_hand,
\* and the ledger records it as sold.
LEMMA FulfillStep ==
  ASSUME StockInvariant, NEW S \in SUBSET Reservations, Fulfill(S)
  PROVE  StockInvariant'
<1> USE DEF StockInvariant
<1> DEFINE A == WithStatus("ACTIVE")
           F == WithStatus("FULFILLED")
<1>1. /\ WithStatus("ACTIVE")' = A \ S
      /\ WithStatus("FULFILLED")' = F \cup S
      /\ F \cap S = {}
      /\ S \in SUBSET A
      /\ A \in SUBSET Reservations
      /\ F \in SUBSET Reservations
  BY DEF Fulfill, Sell, WithStatus, SetStatus, TypeOK
<1>2. ASSUME NEW row \in Rows
      PROVE  /\ Held(WithStatus("ACTIVE"), row)' = Held(A, row) - Held(S, row)
             /\ Held(WithStatus("FULFILLED"), row)' = Held(F, row) + Held(S, row)
             /\ Held(F, row) \in Nat
             /\ Held(S, row) \in Nat
             /\ Held(S, row) <= Held(A, row)
  <2>1. /\ Held(WithStatus("ACTIVE"), row)' = Held(A \ S, row)
        /\ Held(WithStatus("FULFILLED"), row)' = Held(F \cup S, row)
    BY <1>1 DEF Fulfill, Sell, holdVars, Held, Total, Units
  <2>2. Held(F \cup S, row) = Held(F, row) + Held(S, row)
    BY <1>1, TotalUnion, ReservationsFinite DEF Held
  <2>3. IsFiniteSet(A) /\ IsFiniteSet(S) /\ IsFiniteSet(F)
    BY <1>1, ReservationsFinite
  <2>4. QED
    BY <1>1, <2>1, <2>2, <2>3, TotalDifference, UnitsFinite DEF Held
<1>3. ASSUME NEW row \in Rows
      PROVE  onHand[row] - Held(S, row) \in Column
  <2>1. CASE row \in RowsOf(S)
    BY <2>1, <1>2 DEF Fulfill, Sell, MovementAccepted, TypeOK, Column
  <2>2. CASE row \notin RowsOf(S)
    <3>1. Held(S, row) = 0
      BY <2>2, TotalElsewhere DEF Held, RowsOf
    <3>2. QED
      BY <3>1, ColumnMaxAssumption DEF TypeOK, Column
  <2>3. QED
    BY <2>1, <2>2
<1>4. TypeOK'
  BY <1>2, <1>3 DEF Fulfill, Sell, TypeOK, SetStatus, Statuses, Settled,
     ReservedIsHeld, holdVars
<1>5. ReservedIsHeld' /\ LedgerAccountsForStock'
  BY <1>2
     DEF Fulfill, Sell, ReservedIsHeld, LedgerAccountsForStock, TypeOK, Column
<1>6. NeverOversold'
  BY <1>2 DEF Fulfill, Sell, NeverOversold, Available, TypeOK, Column
<1>7. QED
  BY <1>4, <1>5, <1>6

\* Movements change on_hand and the ledger alike.
LEMMA PostStep ==
  ASSUME StockInvariant, NEW change \in [Rows -> -2 * ColumnMax .. 2 * ColumnMax], Post(change)
  PROVE  StockInvariant'
<1> USE ColumnMaxAssumption DEF StockInvariant
<1>1. \A row \in Rows : onHand[row] + change[row] \in Column
  BY DEF Post, MovementAccepted, TypeOK, Column
<1>2. TypeOK'
  BY <1>1 DEF Post, TypeOK, Column, holdVars
<1>3. ReservedIsHeld'
  BY HeldUnchanged DEF Post, ReservedIsHeld
<1>4. LedgerAccountsForStock'
  <2>1. saleMoved' = saleMoved /\ UNCHANGED <<status, holdVars>>
    BY DEF Post
  <2>2. \A w \in Rows : onHand'[w] = stockMoved'[w] + saleMoved[w]
    BY DEF Post, TypeOK, Column, LedgerAccountsForStock
  <2>3. QED
    BY <2>1, <2>2, HeldUnchanged DEF LedgerAccountsForStock
<1>5. NeverOversold'
  <2> SUFFICES ASSUME NEW row \in Rows \ overridden
               PROVE  Available(row)' >= 0
    BY DEF NeverOversold, Post
  <2>1. Available(row) >= 0 /\ Available(row)' = Available(row) + change[row]
    BY DEF NeverOversold, Post, Available, TypeOK, Column
  <2>2. change[row] < 0 => Available(row) + change[row] >= 0
    BY DEF Post, MovementAccepted, Unquarantined, Available, TypeOK, Column
  <2>3. QED
    BY <2>1, <2>2 DEF Available, TypeOK, Column
<1>6. QED
  BY <1>2, <1>3, <1>4, <1>5

\* The clock disturbs none of it.
LEMMA ExpiryPassesStep ==
  ASSUME StockInvariant, NEW r \in Reservations, ExpiryPasses(r)
  PROVE  StockInvariant'
<1>1. TypeOK'
  BY DEF StockInvariant, ExpiryPasses, TypeOK, balanceVars, ledgerVars, holdVars
<1>2. ReservedIsHeld' /\ LedgerAccountsForStock' /\ NeverOversold'
  BY HeldUnchanged DEF StockInvariant, ExpiryPasses, balanceVars, ledgerVars,
     ReservedIsHeld, LedgerAccountsForStock, NeverOversold, Available
<1>3. QED
  BY <1>1, <1>2 DEF StockInvariant

\* Neither does a step that changes nothing.
LEMMA StutterStep ==
  ASSUME StockInvariant, UNCHANGED vars
  PROVE  StockInvariant'
<1>1. TypeOK'
  BY DEF StockInvariant, vars, TypeOK, balanceVars, ledgerVars, holdVars
<1>2. ReservedIsHeld' /\ LedgerAccountsForStock' /\ NeverOversold'
  BY HeldUnchanged DEF StockInvariant, vars, balanceVars, ledgerVars,
     ReservedIsHeld, LedgerAccountsForStock, NeverOversold, Available
<1>3. QED
  BY <1>1, <1>2 DEF StockInvariant

\* Any transaction the services may make preserves the invariant.
LEMMA PromiseStep ==
  ASSUME StockInvariant, [PromiseNext]_vars
  PROVE  StockInvariant'
<1>1. CASE StockNext
  BY <1>1, StockStep
<1>2. ASSUME NEW S \in SUBSET Reservations, NEW rows \in [S -> Rows],
             NEW amounts \in [S -> Quantities], NEW expires \in {"never", "ahead"},
             Hold(S, rows, amounts, expires)
      PROVE  StockInvariant'
  BY <1>2, HoldStep
<1>3. ASSUME NEW S \in SUBSET Reservations, NEW outcome \in Settled \ {"FULFILLED"},
             GiveBack(S, outcome)
      PROVE  StockInvariant'
  <2>1. outcome \in {"RELEASED", "CANCELLED", "EXPIRED"}
    BY DEF Settled
  <2>2. QED
    BY <1>3, <2>1, GiveBackStep
<1>4. ASSUME NEW S \in SUBSET Reservations, Fulfill(S)
      PROVE  StockInvariant'
  BY <1>4, FulfillStep
<1>5. ASSUME NEW r \in Reservations, ExpiryPasses(r)
      PROVE  StockInvariant'
  BY <1>5, ExpiryPassesStep
<1>6. ASSUME NEW change \in [Rows -> -2 * ColumnMax .. 2 * ColumnMax], Post(change)
      PROVE  StockInvariant'
  BY <1>6, PostStep
<1>7. CASE UNCHANGED vars
  BY <1>7, StutterStep
<1>8. QED
  BY <1>1, <1>2, <1>3, <1>4, <1>5, <1>6, <1>7 DEF PromiseNext

\* The invariant holds of every service built on the stock operations.
THEOREM PromiseKept == PromiseSpec => []StockInvariant
<1>1. StockInvariant /\ [PromiseNext]_vars => StockInvariant'
  BY PromiseStep
<1>2. QED
  BY InitStock, <1>1, PTL DEF PromiseSpec

-----------------------------------------------------------------------------
(* The inventory routes and the worker, one reservation at a time.         *)

\* A step for one reservation is a step for the set of it alone.
LEMMA NextIsPromise == ASSUME Next PROVE PromiseNext
<1>1. CASE StockNext
  BY <1>1 DEF PromiseNext
<1>2. CASE ReservationNext
  <2> PICK r \in Reservations :
        \/ \E row \in Rows, q \in Quantities, expires \in {"never", "ahead"} :
             CreateReservation(r, row, q, expires)
        \/ ReleaseReservation(r)
        \/ CancelReservation(r)
        \/ FulfillReservation(r)
        \/ ExpireReservation(r)
        \/ ExpiryPasses(r)
    BY <1>2 DEF ReservationNext
  <2> {r} \in SUBSET Reservations
    OBVIOUS
  <2>1. ASSUME NEW row \in Rows, NEW q \in Quantities,
               NEW expires \in {"never", "ahead"},
               CreateReservation(r, row, q, expires)
        PROVE  PromiseNext
    <3>1. /\ [x \in {r} |-> row] \in [{r} -> Rows]
          /\ [x \in {r} |-> q] \in [{r} -> Quantities]
      OBVIOUS
    <3>2. QED
      BY <2>1, <3>1 DEF CreateReservation, PromiseNext
  <2>2. CASE ReleaseReservation(r) \/ CancelReservation(r) \/ ExpireReservation(r)
    BY <2>2 DEF ReleaseReservation, CancelReservation, ExpireReservation,
       Settled, PromiseNext
  <2>3. CASE FulfillReservation(r)
    BY <2>3 DEF FulfillReservation, PromiseNext
  <2>4. CASE ExpiryPasses(r)
    BY <2>4 DEF PromiseNext
  <2>5. QED
    BY <2>1, <2>2, <2>3, <2>4
<1>3. QED
  BY <1>1, <1>2 DEF Next

\* The routes and the worker do nothing that the promise does not allow.
THEOREM InventoryKeepsPromise == Spec => PromiseSpec
<1>1. [Next]_vars => [PromiseNext]_vars
  BY NextIsPromise
<1>2. QED
  BY <1>1, PTL DEF Spec, PromiseSpec

\* Columns and statuses keep their types; in particular reserved, damaged and
\* expired never go negative.
THEOREM TypeCorrect == Spec => []TypeOK
<1>1. StockInvariant => TypeOK
  BY DEF StockInvariant
<1>2. QED
  BY InventoryKeepsPromise, PromiseKept, <1>1, PTL

\* The reserved column is at all times what the ACTIVE reservations hold.
THEOREM ReservedExact == Spec => []ReservedIsHeld
<1>1. StockInvariant => ReservedIsHeld
  BY DEF StockInvariant
<1>2. QED
  BY InventoryKeepsPromise, PromiseKept, <1>1, PTL

\* on_hand is the sum of the ledger, and every fulfilled reservation is in it
\* as a sale exactly once.
THEOREM LedgerExact == Spec => []LedgerAccountsForStock
<1>1. StockInvariant => LedgerAccountsForStock
  BY DEF StockInvariant
<1>2. QED
  BY InventoryKeepsPromise, PromiseKept, <1>1, PTL

\* A row that no override has touched is never oversold.
THEOREM NoOverselling == Spec => []NeverOversold
<1>1. StockInvariant => NeverOversold
  BY DEF StockInvariant
<1>2. QED
  BY InventoryKeepsPromise, PromiseKept, <1>1, PTL

-----------------------------------------------------------------------------
(* Settled reservations stay settled.                                      *)

\* No transaction moves a settled reservation.
LEMMA StepKeepsSettlement ==
  ASSUME TypeOK, [PromiseNext]_vars, NEW r \in Reservations
  PROVE  KeepsSettlement(r)
<1> USE DEF KeepsSettlement
<1>1. ASSUME UNCHANGED <<status, holdVars>>
      PROVE  KeepsSettlement(r)
  BY <1>1 DEF holdVars
<1>2. CASE StockNext
  <2>1. UNCHANGED <<status, holdVars>>
    BY <1>2 DEF StockNext, StockOn, RecordOpeningBalance, RecordAdjustment,
       QuarantineStock, WriteOffStock, TakeQuarantined
  <2>2. QED
    BY <1>1, <2>1
<1>3. ASSUME NEW S \in SUBSET Reservations, NEW rows \in [S -> Rows],
             NEW amounts \in [S -> Quantities], NEW expires \in {"never", "ahead"},
             Hold(S, rows, amounts, expires)
      PROVE  KeepsSettlement(r)
  BY <1>3 DEF Hold, SetStatus, WithStatus, Settled
<1>4. ASSUME NEW S \in SUBSET Reservations, NEW outcome \in Settled,
             GiveBack(S, outcome)
      PROVE  KeepsSettlement(r)
  BY <1>4 DEF GiveBack, Unreserve, SetStatus, WithStatus, Settled, holdVars
<1>5. ASSUME NEW S \in SUBSET Reservations, Fulfill(S)
      PROVE  KeepsSettlement(r)
  BY <1>5 DEF Fulfill, Sell, SetStatus, WithStatus, Settled, holdVars
<1>6. ASSUME NEW x \in Reservations, ExpiryPasses(x)
      PROVE  KeepsSettlement(r)
  BY <1>1, <1>6 DEF ExpiryPasses
<1>7. ASSUME NEW change \in [Rows -> -2 * ColumnMax .. 2 * ColumnMax], Post(change)
      PROVE  KeepsSettlement(r)
  BY <1>1, <1>7 DEF Post
<1>8. CASE UNCHANGED vars
  BY <1>1, <1>8 DEF vars
<1>9. QED
  BY <1>2, <1>3, <1>4, <1>5, <1>6, <1>7, <1>8 DEF PromiseNext

\* No transaction takes a reservation out of a final status or rewrites what
\* it held, so neither does a step of the inventory routes.
THEOREM PromiseSettlesForGood == PromiseSpec => SettledForGood
<1>1. TypeOK /\ [PromiseNext]_vars => [\A r \in Reservations : KeepsSettlement(r)]_vars
  BY StepKeepsSettlement
<1>2. StockInvariant => TypeOK
  BY DEF StockInvariant
<1>3. QED
  BY PromiseKept, <1>1, <1>2, PTL DEF PromiseSpec, SettledForGood

\* The same of the inventory routes and the worker: a reservation is settled
\* once.
THEOREM SettlementIsFinal == Spec => SettledForGood
BY InventoryKeepsPromise, PromiseSettlesForGood, PTL
=============================================================================
