-------------------------- MODULE BackOfficeProofs --------------------------
(***************************************************************************)
(* Proofs about BackOffice for any rows, transfers, counts, orders,        *)
(* receipts, clerks and bounds.  The argument is one inductive invariant,  *)
(* of a part for the stock, the transfers, the counts and the orders: each *)
(* step of one part keeps its own, and what it does to the balances is one *)
(* that the stock's promise allows (InventoryProofs), which the others do  *)
(* not notice.                                                             *)
(***************************************************************************)
EXTENDS BackOffice, InventoryProofs

-----------------------------------------------------------------------------
(* Transfers.  Their part of the inductive invariant: besides the totals,  *)
(* that a transfer has its two rows as soon as it exists.                  *)

Routed ==
  \A t \in Transfers :
    /\ transfer[t] = "NONE" => destination[t] = NoRow
    /\ transfer[t] # "NONE" => source[t] \in Rows /\ destination[t] \in Rows

TransfersInvariant == TransfersTypeOK /\ Routed /\ TransfersAddUp

\* There are finitely many transfers at any stages.
LEMMA StagesFinite ==
  /\ \A S : AtStage(S) \in SUBSET Transfers /\ IsFiniteSet(AtStage(S))
  /\ \A S : (AtStage(S) \in SUBSET Transfers /\ IsFiniteSet(AtStage(S)))'
<1>1. \A X \in SUBSET Transfers : IsFiniteSet(X)
  BY FS_Subset, TransfersAssumption
<1>2. QED
  BY <1>1 DEF AtStage

\* The movements of one row.
LEMMA PostOnOne ==
  ASSUME TypeOK, NEW row \in Rows, NEW q \in Int, PostTransfer(row, q)
  PROVE  /\ On(row, q) \in [Rows -> -2 * ColumnMax .. 2 * ColumnMax]
         /\ Post(On(row, q))
         /\ transferMoved' = [transferMoved EXCEPT ![row] = @ + q]
<1>1. On(row, q)[row] = q /\ \A r \in Rows \ {row} : On(row, q)[r] = 0
  BY DEF On
<1>2. Post(On(row, q))
  BY DEF PostTransfer
<1>3. q # 0 => onHand[row] + q \in Column
  BY <1>1, <1>2 DEF Post, MovementAccepted
<1>4. q \in -2 * ColumnMax .. 2 * ColumnMax
  BY <1>3, ColumnMaxAssumption DEF TypeOK, Column
<1>5. QED
  BY <1>2, <1>4, ColumnMaxAssumption DEF On, PostTransfer

LEMMA InitTransfers == TransfersInit => TransfersInvariant
<1> SUFFICES ASSUME TransfersInit PROVE TransfersInvariant
  OBVIOUS
<1>1. TransfersTypeOK /\ Routed
  BY MaxQuantityAssumption DEF TransfersInit, TransfersTypeOK, Routed, Stages
<1>2. AtStage(UnderWay) = {} /\ AtStage({"COMPLETED"}) = {}
      /\ AtStage(UnderWay \cup {"COMPLETED"}) = {}
  BY DEF TransfersInit, AtStage, UnderWay
<1>3. \A rows, amounts, row : Total({}, rows, amounts, row) = 0
  BY TotalElsewhere
<1>4. TransfersAddUp
  BY <1>2, <1>3 DEF TransfersInit, TransfersAddUp
<1>5. QED
  BY <1>1, <1>4 DEF TransfersInvariant

-----------------------------------------------------------------------------
(* The steps of a transfer.                                                *)

\* Steps that send nothing off and bring nothing in.
LEMMA PaperStep ==
  ASSUME TransfersInvariant, TransfersTypeOK',
         UNCHANGED <<inTransit, transferMoved, dispatched, received>>,
         AtStage(UnderWay)' = AtStage(UnderWay),
         AtStage({"COMPLETED"})' = AtStage({"COMPLETED"}),
         \A t \in AtStage(UnderWay \cup {"COMPLETED"}) :
           source'[t] = source[t] /\ destination'[t] = destination[t]
  PROVE  TransfersAddUp'
<1>1. AtStage(UnderWay \cup {"COMPLETED"}) = AtStage(UnderWay) \cup AtStage({"COMPLETED"})
  BY DEF AtStage
<1>2. AtStage(UnderWay \cup {"COMPLETED"})' = AtStage(UnderWay \cup {"COMPLETED"})
  BY <1>1 DEF AtStage
<1>3. ASSUME NEW row \in Rows
      PROVE  /\ Total(AtStage(UnderWay), destination, dispatched, row)'
                   = Total(AtStage(UnderWay), destination, dispatched, row)
             /\ Total(AtStage({"COMPLETED"}), destination, received, row)'
                   = Total(AtStage({"COMPLETED"}), destination, received, row)
             /\ Total(AtStage(UnderWay \cup {"COMPLETED"}), source, dispatched, row)'
                   = Total(AtStage(UnderWay \cup {"COMPLETED"}), source, dispatched, row)
  <2> DEFINE U == AtStage(UnderWay)
             C == AtStage({"COMPLETED"})
             B == AtStage(UnderWay \cup {"COMPLETED"})
  <2>1. /\ Total(U', destination', dispatched', row) = Total(U, destination, dispatched, row)
        /\ Total(C', destination', received', row) = Total(C, destination, received, row)
        /\ Total(B', source', dispatched', row) = Total(B, source, dispatched, row)
    <3>1. U' = U /\ C' = C /\ B' = B /\ U \subseteq B /\ C \subseteq B
      BY <1>1, <1>2
    <3>2. /\ \A t \in U : destination'[t] = destination[t] /\ dispatched'[t] = dispatched[t]
          /\ \A t \in C : destination'[t] = destination[t] /\ received'[t] = received[t]
          /\ \A t \in B : source'[t] = source[t] /\ dispatched'[t] = dispatched[t]
      BY <3>1
    <3> HIDE DEF U, C, B
    <3>3. QED
      BY <3>1, <3>2, TotalAgrees
  <2>2. QED
    BY <2>1 DEF Total, Units
<1>4. QED
  BY <1>3 DEF TransfersInvariant, TransfersAddUp

\* A transfer is made.
LEMMA CreateStep ==
  ASSUME TransfersInvariant, NEW t \in Transfers, NEW from \in Rows, NEW to \in Rows,
         NEW q \in 0 .. MaxQuantity, NEW stage \in {"DRAFT", "REQUESTED"},
         CreateTransfer(t, from, to, q, stage)
  PROVE  TransfersInvariant' /\ [Goods!Next]_Goods!vars
<1> USE DEF TransfersInvariant, TransfersTypeOK
<1>1. TransfersTypeOK'
  BY DEF CreateTransfer, Stages
<1>2. Routed'
  BY DEF CreateTransfer, Routed
<1>3. /\ AtStage(UnderWay)' = AtStage(UnderWay)
      /\ AtStage({"COMPLETED"})' = AtStage({"COMPLETED"})
      /\ t \notin AtStage(UnderWay \cup {"COMPLETED"})
  BY DEF CreateTransfer, AtStage, UnderWay
<1>4. TransfersAddUp'
  <2>1. \A u \in AtStage(UnderWay \cup {"COMPLETED"}) :
          source'[u] = source[u] /\ destination'[u] = destination[u]
    BY <1>3 DEF CreateTransfer, AtStage
  <2>2. UNCHANGED <<inTransit, transferMoved, dispatched, received>>
    BY DEF CreateTransfer
  <2>3. QED
    BY <1>1, <1>3, <2>1, <2>2, PaperStep
<1>5. Goods!Address(t, to)
  <2>1. destination[t] = NoRow
    BY DEF CreateTransfer, Routed
  <2>2. \A u \in Transfers : Phase(u)' = Phase(u)
    BY DEF CreateTransfer, Phase, UnderWay
  <2>3. QED
    BY <2>1, <2>2 DEF CreateTransfer, Goods!Address
<1>6. QED
  BY <1>1, <1>2, <1>4, <1>5 DEF Goods!Next

\* A transfer is requested, approved, taken on its way, rejected or cancelled.
LEMMA StageStep ==
  ASSUME TransfersInvariant, NEW t \in Transfers,
         NEW stage \in {"REQUESTED", "APPROVED", "IN_TRANSIT", "REJECTED", "CANCELLED"},
         Move(t, stage), approved' \in [Transfers -> 0 .. MaxQuantity],
         UNCHANGED <<inTransit, routeVars, dispatched, received, transferMoved>>
  PROVE  TransfersInvariant' /\ [Goods!Next]_Goods!vars
<1> USE DEF TransfersInvariant, TransfersTypeOK
<1>1. /\ transfer' = [transfer EXCEPT ![t] = stage]
      /\ transfer[t] # "NONE" /\ stage \in Stages \ {"NONE"}
      /\ \A S \in {UnderWay, {"COMPLETED"}} : transfer[t] \in S <=> stage \in S
      /\ \/ Phase(t)' = Phase(t)
         \/ Phase(t) = "planned" /\ Phase(t)' = "off"
  BY DEF Move, MayMove, UnderWay, Stages, Phase
<1>2. TransfersTypeOK'
  BY <1>1 DEF routeVars
<1>3. Routed'
  BY <1>1 DEF routeVars, Routed
<1>4. /\ AtStage(UnderWay)' = AtStage(UnderWay)
      /\ AtStage({"COMPLETED"})' = AtStage({"COMPLETED"})
  BY <1>1 DEF AtStage
<1>5. TransfersAddUp'
  BY <1>2, <1>4, PaperStep DEF routeVars
<1>6. \A u \in Transfers \ {t} : Phase(u)' = Phase(u)
  BY <1>1 DEF Phase
<1>7. CASE Phase(t)' = Phase(t)
  <2>1. UNCHANGED Goods!vars
    BY <1>6, <1>7 DEF Goods!vars, routeVars
  <2>2. QED
    BY <1>2, <1>3, <1>5, <2>1
<1>8. CASE Phase(t) = "planned" /\ Phase(t)' = "off"
  <2>1. Goods!CallOff(t)
    BY <1>6, <1>8 DEF Goods!CallOff, routeVars
  <2>2. QED
    BY <1>2, <1>3, <1>5, <2>1 DEF Goods!Next
<1>9. QED
  BY <1>1, <1>7, <1>8

\* A transfer is dispatched.
LEMMA DispatchStep ==
  ASSUME TypeOK, TransfersInvariant, NEW t \in Transfers, NEW q \in 0 .. MaxQuantity,
         DispatchTransfer(t, q)
  PROVE  TransfersInvariant' /\ [Goods!Next]_Goods!vars
<1> DEFINE U == AtStage(UnderWay)
           C == AtStage({"COMPLETED"})
           B == AtStage(UnderWay \cup {"COMPLETED"})
<1> USE DEF TransfersInvariant, TransfersTypeOK
<1>1. /\ transfer[t] = "APPROVED" /\ q \in 1 .. MaxQuantity
      /\ source[t] \in Rows /\ destination[t] \in Rows
      /\ transfer' = [transfer EXCEPT ![t] = "DISPATCHED"]
      /\ dispatched' = [dispatched EXCEPT ![t] = q]
      /\ inTransit' = [inTransit EXCEPT ![destination[t]] = @ + q]
      /\ UNCHANGED <<routeVars, approved, received>>
      /\ PostTransfer(source[t], -q)
  BY MaxQuantityAssumption DEF DispatchTransfer, MayMove, SendOff, Routed
<1>2. transferMoved' = [transferMoved EXCEPT ![source[t]] = @ - q]
  <2>1. -q \in Int
    BY <1>1
  <2>2. transferMoved' = [transferMoved EXCEPT ![source[t]] = @ + (-q)]
    BY <1>1, <2>1, PostOnOne
  <2>3. QED
    BY <1>1, <2>2
<1>3. TransfersTypeOK'
  BY <1>1, <1>2 DEF Stages, routeVars
<1>4. Routed'
  BY <1>1 DEF Routed, routeVars
<1>5. /\ U' = U \cup {t} /\ B' = B \cup {t} /\ C' = C
      /\ t \notin U /\ t \notin B /\ t \notin C
  BY <1>1 DEF AtStage, UnderWay
<1>6. ASSUME NEW row \in Rows
      PROVE  /\ Total(U, destination, dispatched, row)'
                   = Total(U, destination, dispatched, row)
                       + IF destination[t] = row THEN q ELSE 0
             /\ Total(C, destination, received, row)'
                   = Total(C, destination, received, row)
             /\ Total(B, source, dispatched, row)'
                   = Total(B, source, dispatched, row)
                       + IF source[t] = row THEN q ELSE 0
  <2>1. /\ Total(U', destination', dispatched', row)
              = Total(U, destination, dispatched, row)
                  + IF destination[t] = row THEN q ELSE 0
        /\ Total(C', destination', received', row)
              = Total(C, destination, received, row)
        /\ Total(B', source', dispatched', row)
              = Total(B, source, dispatched, row)
                  + IF source[t] = row THEN q ELSE 0
    <3>1. IsFiniteSet(U) /\ IsFiniteSet(B) /\ U \subseteq Transfers /\ B \subseteq Transfers
      BY StagesFinite
    <3>2. /\ destination' = destination /\ source' = source /\ received' = received
          /\ dispatched'[t] = q /\ q \in 0 .. MaxQuantity
          /\ t \notin U /\ t \notin B /\ dispatched'[t] \in 0 .. MaxQuantity
          /\ \A u \in U : destination[u] = destination'[u] /\ dispatched[u] = dispatched'[u]
          /\ \A u \in B : source[u] = source'[u] /\ dispatched[u] = dispatched'[u]
      BY <1>1, <1>5, <3>1 DEF routeVars
    <3> HIDE DEF U, C, B, TransfersInvariant, TransfersTypeOK
    <3>3. Total(U \cup {t}, destination, dispatched', row)
            = Total(U, destination, dispatched, row)
                + IF destination[t] = row THEN dispatched'[t] ELSE 0
      <4>1. Total(U, destination, dispatched, row) = Total(U, destination, dispatched', row)
        BY <3>2, TotalAgrees
      <4>2. IsFiniteSet(U) /\ t \notin U /\ dispatched'[t] \in 0 .. MaxQuantity
        BY <3>1, <3>2
      <4>3. QED
        BY <4>1, <4>2, TotalInsert
    <3>4. Total(B \cup {t}, source, dispatched', row)
            = Total(B, source, dispatched, row)
                + IF source[t] = row THEN dispatched'[t] ELSE 0
      <4>1. Total(B, source, dispatched, row) = Total(B, source, dispatched', row)
        BY <3>2, TotalAgrees
      <4>2. IsFiniteSet(B) /\ t \notin B /\ dispatched'[t] \in 0 .. MaxQuantity
        BY <3>1, <3>2
      <4>3. QED
        BY <4>1, <4>2, TotalInsert
    <3>5. QED
      BY <1>5, <3>2, <3>3, <3>4
  <2>2. QED
    BY <2>1 DEF Total, Units
<1>7. \A S, rows, amounts, row : IsFiniteSet(S) => Total(S, rows, amounts, row) \in Nat
  BY UnitsFinite
<1>8. TransfersAddUp'
  <2> SUFFICES ASSUME NEW row \in Rows
               PROVE  /\ inTransit'[row] = Total(U, destination, dispatched, row)'
                      /\ transferMoved'[row] = Total(C, destination, received, row)'
                                                 - Total(B, source, dispatched, row)'
    BY DEF TransfersAddUp
  <2>1. IsFiniteSet(U) /\ IsFiniteSet(B) /\ IsFiniteSet(C)
    BY StagesFinite
  <2>2. /\ inTransit[row] = Total(U, destination, dispatched, row)
        /\ transferMoved[row] = Total(C, destination, received, row)
                                  - Total(B, source, dispatched, row)
    BY DEF TransfersAddUp
  <2>3. /\ Total(U, destination, dispatched, row) \in Nat
        /\ Total(C, destination, received, row) \in Nat
        /\ Total(B, source, dispatched, row) \in Nat
    BY <1>7, <2>1
  <2>4. /\ inTransit'[row] = inTransit[row] + IF destination[t] = row THEN q ELSE 0
        /\ transferMoved'[row] = transferMoved[row] - IF source[t] = row THEN q ELSE 0
        /\ inTransit[row] \in Nat /\ transferMoved[row] \in Int /\ q \in Int
    BY <1>1, <1>2
  <2> HIDE DEF U, C, B, TransfersInvariant, TransfersTypeOK
  <2>5. QED
    BY <1>6, <2>2, <2>3, <2>4
<1>9. Goods!Ship(t, q)
  <2>1. Phase(t) = "planned" /\ Phase(t)' = "under way"
    BY <1>1 DEF Phase, UnderWay
  <2>2. \A u \in Transfers \ {t} : Phase(u)' = Phase(u)
    BY <1>1 DEF Phase
  <2>3. QED
    BY <1>1, <2>1, <2>2 DEF Goods!Ship, routeVars
<1>10. QED
  BY <1>1, <1>3, <1>4, <1>8, <1>9 DEF Goods!Next

\* A transfer is received.
LEMMA ReceiveStep ==
  ASSUME TypeOK, TransfersInvariant, NEW t \in Transfers, NEW q \in 0 .. MaxQuantity,
         ReceiveTransfer(t, q)
  PROVE  TransfersInvariant' /\ [Goods!Next]_Goods!vars
<1> DEFINE U == AtStage(UnderWay)
           C == AtStage({"COMPLETED"})
           B == AtStage(UnderWay \cup {"COMPLETED"})
<1> USE DEF TransfersInvariant, TransfersTypeOK
<1>1. /\ transfer[t] \in UnderWay /\ destination[t] \in Rows
      /\ transfer' = [transfer EXCEPT ![t] = "COMPLETED"]
      /\ received' = [received EXCEPT ![t] = q]
      /\ dispatched[t] <= inTransit[destination[t]]
      /\ inTransit' = [inTransit EXCEPT ![destination[t]] = @ - dispatched[t]]
      /\ UNCHANGED <<routeVars, approved, dispatched>>
  BY DEF ReceiveTransfer, Move, MayMove, Routed, UnderWay
<1>2. transferMoved' = [transferMoved EXCEPT ![destination[t]] = @ + q]
  <2>1. CASE q > 0
    BY <1>1, <2>1, PostOnOne DEF ReceiveTransfer
  <2>2. CASE ~(q > 0)
    BY <1>1, <2>2 DEF ReceiveTransfer
  <2>3. QED
    BY <2>1, <2>2
<1>3. TransfersTypeOK'
  BY <1>1, <1>2 DEF Stages, routeVars
<1>4. Routed'
  BY <1>1 DEF Routed, routeVars, UnderWay
<1>5. /\ U' = U \ {t} /\ B' = B /\ C' = C \cup {t}
      /\ t \in U /\ t \in B /\ t \notin C
  BY <1>1 DEF AtStage, UnderWay
<1>6. ASSUME NEW row \in Rows
      PROVE  /\ Total(U, destination, dispatched, row)'
                   = Total(U, destination, dispatched, row)
                       - IF destination[t] = row THEN dispatched[t] ELSE 0
             /\ Total(C, destination, received, row)'
                   = Total(C, destination, received, row)
                       + IF destination[t] = row THEN q ELSE 0
             /\ Total(B, source, dispatched, row)'
                   = Total(B, source, dispatched, row)
  <2>1. /\ Total(U', destination', dispatched', row)
              = Total(U, destination, dispatched, row)
                  - IF destination[t] = row THEN dispatched[t] ELSE 0
        /\ Total(C', destination', received', row)
              = Total(C, destination, received, row)
                  + IF destination[t] = row THEN q ELSE 0
        /\ Total(B', source', dispatched', row)
              = Total(B, source, dispatched, row)
    <3>1. IsFiniteSet(U) /\ IsFiniteSet(C) /\ U \subseteq Transfers /\ C \subseteq Transfers
      BY StagesFinite
    <3>2. /\ destination' = destination /\ source' = source /\ dispatched' = dispatched
          /\ received'[t] = q /\ dispatched[t] \in 0 .. MaxQuantity
          /\ t \in U /\ t \notin C
      BY <1>1, <1>5, <3>1 DEF routeVars
    <3> HIDE DEF U, C, B, TransfersInvariant, TransfersTypeOK
    <3>3. Total(U \ {t}, destination, dispatched, row)
            = Total(U, destination, dispatched, row)
                - IF destination[t] = row THEN dispatched[t] ELSE 0
      <4>1. IsFiniteSet(U) /\ t \in U /\ dispatched[t] \in 0 .. MaxQuantity
        BY <3>1, <3>2
      <4>2. QED
        BY <4>1, TotalRemove
    <3>4. Total(C \cup {t}, destination, received', row)
            = Total(C, destination, received, row)
                + IF destination[t] = row THEN received'[t] ELSE 0
      <4>1. /\ received'[t] \in 0 .. MaxQuantity
            /\ \A u \in C : received[u] = received'[u]
        BY <1>1, <3>1, <3>2 DEF TransfersInvariant, TransfersTypeOK
      <4>2. Total(C, destination, received, row) = Total(C, destination, received', row)
        BY <4>1, TotalAgrees
      <4>3. IsFiniteSet(C) /\ t \notin C
        BY <3>1, <3>2
      <4>4. QED
        BY <4>1, <4>2, <4>3, TotalInsert
    <3>5. QED
      BY <1>5, <3>2, <3>3, <3>4
  <2>2. QED
    BY <2>1 DEF Total, Units
<1>7. \A S, rows, amounts, row : IsFiniteSet(S) => Total(S, rows, amounts, row) \in Nat
  BY UnitsFinite
<1>8. TransfersAddUp'
  <2> SUFFICES ASSUME NEW row \in Rows
               PROVE  /\ inTransit'[row] = Total(U, destination, dispatched, row)'
                      /\ transferMoved'[row] = Total(C, destination, received, row)'
                                                 - Total(B, source, dispatched, row)'
    BY DEF TransfersAddUp
  <2>1. IsFiniteSet(U) /\ IsFiniteSet(B) /\ IsFiniteSet(C)
    BY StagesFinite
  <2>2. /\ inTransit[row] = Total(U, destination, dispatched, row)
        /\ transferMoved[row] = Total(C, destination, received, row)
                                  - Total(B, source, dispatched, row)
    BY DEF TransfersAddUp
  <2>3. /\ Total(U, destination, dispatched, row) \in Nat
        /\ Total(C, destination, received, row) \in Nat
        /\ Total(B, source, dispatched, row) \in Nat
    BY <1>7, <2>1
  <2>4. /\ inTransit'[row]
              = inTransit[row] - IF destination[t] = row THEN dispatched[t] ELSE 0
        /\ transferMoved'[row] = transferMoved[row] + IF destination[t] = row THEN q ELSE 0
        /\ inTransit[row] \in Nat /\ transferMoved[row] \in Int
        /\ q \in Int /\ dispatched[t] \in Int
    BY <1>1, <1>2
  <2> HIDE DEF U, C, B, TransfersInvariant, TransfersTypeOK
  <2>5. QED
    BY <1>6, <2>2, <2>3, <2>4
<1>9. Goods!Settle(t)
  <2>1. Phase(t) = "under way" /\ Phase(t)' = "settled"
    BY <1>1 DEF Phase, UnderWay
  <2>2. \A u \in Transfers \ {t} : Phase(u)' = Phase(u)
    BY <1>1 DEF Phase
  <2>3. QED
    BY <1>1, <2>1, <2>2 DEF Goods!Settle, routeVars
<1>10. QED
  BY <1>3, <1>4, <1>8, <1>9 DEF Goods!Next

\* Whatever one of the operations on a transfer does, the invariant holds after
\* it, and what it did is a step of its consignment.
LEMMA TransferStep ==
  ASSUME TypeOK, TransfersInvariant, NEW t \in Transfers,
         TransferMoves(t) \/ TransferCreated(t)
  PROVE  TransfersInvariant' /\ [Goods!Next]_Goods!vars
<1>1. ASSUME NEW stage \in {"REQUESTED", "IN_TRANSIT", "REJECTED", "CANCELLED"},
             ChangeStage(t, stage)
      PROVE  TransfersInvariant' /\ [Goods!Next]_Goods!vars
  BY <1>1, StageStep DEF ChangeStage, TransfersInvariant, TransfersTypeOK
<1>2. ASSUME NEW q \in 0 .. MaxQuantity, ApproveTransfer(t, q)
      PROVE  TransfersInvariant' /\ [Goods!Next]_Goods!vars
  <2>1. approved' \in [Transfers -> 0 .. MaxQuantity]
    BY <1>2 DEF ApproveTransfer, TransfersInvariant, TransfersTypeOK
  <2>2. QED
    BY <1>2, <2>1, StageStep DEF ApproveTransfer
<1>3. QED
  BY <1>1, <1>2, CreateStep, DispatchStep, ReceiveStep DEF TransferMoves, TransferCreated

-----------------------------------------------------------------------------
(* Purchases.  What two amounts come to, of lines or of receipts.          *)

\* What two amounts come to is the sum of what each comes to.
LEMMA TotalSum ==
  ASSUME NEW S, IsFiniteSet(S), NEW rows, NEW row, NEW a, NEW b, NEW ab,
         \A s \in S : /\ a[s] \in Nat /\ b[s] \in Nat
                     /\ ab[s] = a[s] + b[s] /\ ab[s] <= MaxQuantity
  PROVE  Total(S, rows, ab, row) = Total(S, rows, a, row) + Total(S, rows, b, row)
<1> DEFINE UA  == Units(S, rows, a, row)
           UB  == Units(S, rows, b, row)
           UAB == Units(S, rows, ab, row)
           UC  == UAB \ UA
           f   == [u \in UB |-> <<u[1], u[2] + a[u[1]]>>]
<1> USE MaxQuantityAssumption
<1>1. UA \subseteq UAB
  BY DEF Units, Quantities
<1>2. f \in Bijection(UB, UC)
  <2>1. \A u \in UB : u = <<u[1], u[2]>> /\ u[1] \in S /\ u[2] \in 1 .. MaxQuantity
                     /\ rows[u[1]] = row /\ u[2] <= b[u[1]]
    BY DEF Units, Quantities
  <2>2. ASSUME NEW u \in UB PROVE <<u[1], u[2] + a[u[1]]>> \in UC
    BY <2>1 DEF Units, Quantities
  <2>3. f \in [UB -> UC]
    BY <2>2
  <2>4. ASSUME NEW u \in UB, NEW v \in UB, f[u] = f[v] PROVE u = v
    <3>1. u[1] = v[1] /\ u[2] + a[u[1]] = v[2] + a[v[1]]
      BY <2>4
    <3>2. u[1] = v[1] /\ u[2] = v[2]
      BY <2>1, <3>1
    <3>3. QED
      BY <2>1, <3>2
  <2>5. ASSUME NEW w \in UC PROVE \E u \in UB : f[u] = w
    <3>1. /\ w = <<w[1], w[2]>> /\ w[1] \in S /\ w[2] \in 1 .. MaxQuantity
          /\ rows[w[1]] = row /\ w[2] <= ab[w[1]] /\ ~(w[2] <= a[w[1]])
      BY DEF Units, Quantities
    <3> DEFINE u == <<w[1], w[2] - a[w[1]]>>
    <3>2. u \in UB
      BY <3>1 DEF Units, Quantities
    <3>3. f[u] = w
      BY <3>1, <3>2
    <3>4. QED
      BY <3>2, <3>3
  <2> HIDE DEF f, UB, UC
  <2>6. QED
    BY <2>3, <2>4, <2>5 DEF Bijection, Injection, Surjection, IsInjective
<1>3. IsFiniteSet(UA) /\ IsFiniteSet(UB) /\ IsFiniteSet(UAB)
  BY UnitsFinite
<1>4. Cardinality(UC) = Cardinality(UB)
  BY <1>2, <1>3, FS_Bijection DEF ExistsBijection
<1>5. Cardinality(UAB) = Cardinality(UA) + Cardinality(UC)
  <2>1. Cardinality(UAB \cap UA) = Cardinality(UA)
    <3>1. UAB \cap UA = UA
      BY <1>1
    <3>2. QED
      BY <3>1
  <2> HIDE DEF UA, UAB
  <2>2. Cardinality(UC) = Cardinality(UAB) - Cardinality(UAB \cap UA)
    BY <1>3, FS_Difference
  <2>3. Cardinality(UAB) \in Nat /\ Cardinality(UA) \in Nat
    BY <1>3, FS_CardinalityType
  <2> HIDE DEF UC
  <2>4. QED
    BY <2>1, <2>2, <2>3
<1>6. QED
  BY <1>4, <1>5 DEF Total

\* Amounts of zero and less come to nothing.
LEMMA TotalOfNothing ==
  ASSUME NEW S, NEW rows, NEW amounts, NEW row,
         \A s \in S : amounts[s] \in Int /\ amounts[s] <= 0
  PROVE  Total(S, rows, amounts, row) = 0
<1>1. Units(S, rows, amounts, row) = {}
  BY MaxQuantityAssumption DEF Units, Quantities
<1>2. QED
  BY <1>1, FS_EmptySet DEF Total

\* Amounts that are the same but for some of zero and less come to the same, and
\* it is no matter what rows those are for.
LEMMA TotalOfTheRest ==
  ASSUME NEW S, NEW T, S \subseteq T, NEW row,
         NEW rows1, NEW amounts1, NEW rows2, NEW amounts2,
         \A s \in S : rows1[s] = rows2[s] /\ amounts1[s] = amounts2[s],
         \A s \in T \ S : amounts2[s] \in Int /\ amounts2[s] <= 0
  PROVE  Total(S, rows1, amounts1, row) = Total(T, rows2, amounts2, row)
<1>1. Units(S, rows1, amounts1, row) = Units(T, rows2, amounts2, row)
  BY MaxQuantityAssumption DEF Units, Quantities
<1>2. QED
  BY <1>1 DEF Total

\* There are finitely many lines and receipts.
LEMMA LinesFinite ==
  /\ IsFiniteSet(Items) /\ IsFiniteSet(Receipts)
  /\ \A S \in SUBSET Items : IsFiniteSet(S)
BY FS_Product, FS_Subset, PurchasesAssumption DEF Items

-----------------------------------------------------------------------------
(* Their part of the invariant: besides the totals, that nothing has       *)
(* arrived for an order before it is made.                                 *)

NothingYet ==
  \A p \in Purchases : purchase[p] = "NONE" => \A i \in LinesOf(p) : arrived[i] = 0

PurchasesInvariant == PurchasesTypeOK /\ NothingYet /\ ReceiptsAddUp

LEMMA InitPurchases == PurchasesInit => PurchasesInvariant
<1> SUFFICES ASSUME PurchasesInit PROVE PurchasesInvariant
  OBVIOUS
<1> USE MaxQuantityAssumption
<1>1. PurchasesTypeOK /\ NothingYet
  BY DEF PurchasesInit, PurchasesTypeOK, NothingYet, NotReceived, PurchaseStages, LinesOf
<1>2. ASSUME NEW i \in Items
      PROVE  Total(Receipts, OfLine(i), HeldFor(i), i) = 0
  <2>1. \A x \in Receipts : HeldFor(i)[x] \in Int /\ HeldFor(i)[x] <= 0
    BY DEF PurchasesInit, NotReceived, HeldFor
  <2>2. QED
    BY <2>1, TotalOfNothing
<1>3. ASSUME NEW row \in Rows PROVE Total(Items, lineRow, arrived, row) = 0
  <2>1. \A i \in Items : arrived[i] \in Int /\ arrived[i] <= 0
    BY DEF PurchasesInit
  <2>2. QED
    BY <2>1, TotalOfNothing
<1>4. QED
  BY <1>1, <1>2, <1>3 DEF PurchasesInit, PurchasesInvariant, ReceiptsAddUp

-----------------------------------------------------------------------------
(* The steps of a purchase.                                                *)

\* As long as no receipt is made, none holds more or less.
LEMMA ReceiptsKept ==
  ASSUME UNCHANGED receipt, NEW i
  PROVE  Total(Receipts, OfLine(i), HeldFor(i), i)' = Total(Receipts, OfLine(i), HeldFor(i), i)
<1>1. HeldFor(i)' = HeldFor(i)
  BY DEF HeldFor
<1>2. QED
  BY <1>1 DEF Total, Units, OfLine

\* An order is made.
LEMMA CreatePurchaseStep ==
  ASSUME PurchasesInvariant, NEW p \in Purchases, NEW rows \in [Lines -> Rows],
         NEW amounts \in [Lines -> Quantities], CreatePurchase(p, rows, amounts)
  PROVE  PurchasesInvariant'
<1> USE MaxQuantityAssumption
<1>1. \A i \in Items : i[1] \in Purchases /\ i[2] \in Lines
  BY DEF Items
<1>2. \A i \in LinesOf(p) : i \in Items /\ i[1] = p /\ arrived[i] = 0
  BY DEF LinesOf, CreatePurchase, PurchasesInvariant, NothingYet
<1>3. PurchasesTypeOK'
  <2>1. PurchasesTypeOK
    BY DEF PurchasesInvariant
  <2>2. lineRow' \in [Items -> Rows \cup {NoRow}] /\ ordered' \in [Items -> 0 .. MaxQuantity]
    BY <1>1, <2>1 DEF CreatePurchase, PurchasesTypeOK, Quantities
  <2>3. QED
    BY <2>1, <2>2 DEF CreatePurchase, PurchasesTypeOK, PurchaseStages
<1>4. NothingYet'
  BY DEF CreatePurchase, PurchasesInvariant, PurchasesTypeOK, NothingYet, LinesOf
<1>5. \A i \in Items : arrived'[i] <= ordered'[i]
  <2>1. ASSUME NEW i \in Items, i[1] = p PROVE arrived'[i] <= ordered'[i]
    BY <1>1, <1>2, <2>1 DEF CreatePurchase, LinesOf, Quantities
  <2>2. ASSUME NEW i \in Items, i[1] # p PROVE arrived'[i] <= ordered'[i]
    BY <2>2 DEF CreatePurchase, PurchasesInvariant, ReceiptsAddUp
  <2>3. QED
    BY <2>1, <2>2
<1>6. ASSUME NEW row \in Rows
      PROVE  Total(Items, lineRow', arrived', row) = Total(Items, lineRow, arrived, row)
  <2> DEFINE T == {i \in Items : i[1] # p}
  <2>1. T \subseteq Items /\ \A i \in T : lineRow'[i] = lineRow[i] /\ arrived'[i] = arrived[i]
    BY DEF CreatePurchase
  <2>2. \A i \in Items \ T : arrived'[i] = 0 /\ arrived[i] = 0
    BY <1>2 DEF CreatePurchase, LinesOf
  <2> HIDE DEF T
  <2>3. Total(T, lineRow, arrived, row) = Total(Items, lineRow', arrived', row)
    <3>1. \A i \in Items \ T : arrived'[i] \in Int /\ arrived'[i] <= 0
      BY <2>2
    <3>2. \A i \in T : lineRow[i] = lineRow'[i] /\ arrived[i] = arrived'[i]
      BY <2>1
    <3>3. QED
      BY <2>1, <3>1, <3>2, TotalOfTheRest
  <2>4. Total(T, lineRow, arrived, row) = Total(Items, lineRow, arrived, row)
    <3>1. \A i \in Items \ T : arrived[i] \in Int /\ arrived[i] <= 0
      BY <2>2
    <3>2. \A i \in T : lineRow[i] = lineRow[i] /\ arrived[i] = arrived[i]
      OBVIOUS
    <3>3. QED
      BY <2>1, <3>1, <3>2, TotalOfTheRest
  <2>5. QED
    BY <2>3, <2>4
<1>7. ASSUME NEW o \in Purchases, purchase'[o] # "NONE"
      PROVE  purchase'[o] = "Received" <=> \A i \in LinesOf(o) : arrived'[i] = ordered'[i]
  <2>1. CASE o = p
    <3>1. PICK l \in Lines : TRUE
      BY DEF CreatePurchase
    <3>2. <<p, l>> \in LinesOf(p)
      BY DEF LinesOf, Items
    <3>3. ordered'[<<p, l>>] = amounts[l] /\ amounts[l] \in Quantities
      BY DEF CreatePurchase, Items
    <3>4. arrived'[<<p, l>>] = 0
      BY <1>2, <3>2 DEF CreatePurchase
    <3>5. arrived'[<<p, l>>] # ordered'[<<p, l>>]
      BY <3>3, <3>4 DEF Quantities
    <3>6. purchase'[p] = "Draft"
      BY DEF CreatePurchase, PurchasesInvariant, PurchasesTypeOK
    <3>7. QED
      BY <2>1, <3>2, <3>5, <3>6
  <2>2. CASE o # p
    BY <1>7, <2>2 DEF CreatePurchase, PurchasesInvariant, PurchasesTypeOK, ReceiptsAddUp, LinesOf
  <2>3. QED
    BY <2>1, <2>2
<1>8. \A row \in Rows : purchaseMoved'[row] = Total(Items, lineRow, arrived, row)'
  <2>1. \A row \in Rows : purchaseMoved'[row] = Total(Items, lineRow', arrived', row)
    BY <1>6 DEF CreatePurchase, PurchasesInvariant, ReceiptsAddUp
  <2>2. QED
    BY <2>1 DEF Total, Units
<1>9. \A i \in Items : arrived'[i] = Total(Receipts, OfLine(i), HeldFor(i), i)'
  BY ReceiptsKept DEF CreatePurchase, PurchasesInvariant, ReceiptsAddUp
<1>10. ReceiptsAddUp'
  BY <1>5, <1>7, <1>8, <1>9 DEF ReceiptsAddUp, LinesOf
<1>11. QED
  BY <1>3, <1>4, <1>10 DEF PurchasesInvariant

\* An order is sent, approved or cancelled.
LEMMA ChangePurchaseStep ==
  ASSUME PurchasesInvariant, NEW p \in Purchases,
         NEW stage \in {"Sent", "Approved", "Cancelled"}, ChangePurchase(p, stage)
  PROVE  PurchasesInvariant'
<1>1. /\ purchase' = [purchase EXCEPT ![p] = stage]
      /\ purchase[p] \in PurchaseStages \ {"NONE", "Received"}
  BY DEF ChangePurchase, PurchaseStages
<1>2. PurchasesTypeOK' /\ NothingYet'
  BY <1>1 DEF ChangePurchase, PurchasesInvariant, PurchasesTypeOK, PurchaseStages, NothingYet,
     LinesOf
<1>3. ReceiptsAddUp'
  <2>1. \A row \in Rows :
          Total(Items, lineRow, arrived, row)' = Total(Items, lineRow, arrived, row)
    BY DEF ChangePurchase, Total, Units
  <2>2. \A i \in Items :
          Total(Receipts, OfLine(i), HeldFor(i), i)' = Total(Receipts, OfLine(i), HeldFor(i), i)
    BY ReceiptsKept DEF ChangePurchase
  <2>3. \A o \in Purchases :
          /\ purchase'[o] # "NONE" => purchase[o] # "NONE"
          /\ purchase'[o] = "Received" <=> purchase[o] = "Received"
    BY <1>1 DEF PurchasesInvariant, PurchasesTypeOK
  <2>4. QED
    BY <2>1, <2>2, <2>3 DEF ChangePurchase, PurchasesInvariant, ReceiptsAddUp, LinesOf
<1>4. QED
  BY <1>2, <1>3 DEF PurchasesInvariant

\* What came for the lines S is a movement that recordMovement may accept.
LEMMA PostOfReceipt ==
  ASSUME TypeOK, NEW S \in SUBSET Items, NEW amounts,
         Post([row \in Rows |-> Total(S, lineRow, amounts, row)])
  PROVE  [row \in Rows |-> Total(S, lineRow, amounts, row)]
           \in [Rows -> -2 * ColumnMax .. 2 * ColumnMax]
<1> SUFFICES ASSUME NEW row \in Rows
             PROVE  Total(S, lineRow, amounts, row) \in -2 * ColumnMax .. 2 * ColumnMax
  OBVIOUS
<1> DEFINE n == Total(S, lineRow, amounts, row)
<1>1. n \in Nat
  BY LinesFinite, UnitsFinite
<1> HIDE DEF n
<1>2. n # 0 => onHand[row] + n \in Column
  BY DEF Post, MovementAccepted, n
<1>3. n \in -2 * ColumnMax .. 2 * ColumnMax
  BY <1>1, <1>2, ColumnMaxAssumption DEF TypeOK, Column
<1>4. QED
  BY <1>3 DEF n

\* Goods are received.
LEMMA ReceiveGoodsStep ==
  ASSUME PurchasesInvariant, NEW p \in Purchases, NEW x \in Receipts,
         NEW S \in SUBSET LinesOf(p), NEW amounts \in [S -> 0 .. MaxQuantity],
         ReceiveGoods(p, x, S, amounts)
  PROVE  PurchasesInvariant'
<1> USE MaxQuantityAssumption
<1>1. /\ S \in SUBSET Items /\ \A i \in S : i[1] = p /\ amounts[i] \in 0 .. MaxQuantity
      /\ purchase[p] \in {"Sent", "Approved", "Partially Received"}
      /\ receipt[x] = NotReceived
      /\ \A i \in S : amounts[i] <= ordered[i] - arrived[i]
      /\ receipt' = [receipt EXCEPT ![x] = [i \in Items |-> IF i \in S THEN amounts[i] ELSE -1]]
      /\ arrived' = [i \in Items |-> IF i \in S THEN arrived[i] + amounts[i] ELSE arrived[i]]
      /\ purchase' = [purchase EXCEPT ![p] =
                        IF \A i \in LinesOf(p) : arrived'[i] >= ordered[i]
                          THEN "Received" ELSE "Partially Received"]
      /\ UNCHANGED <<lineRow, ordered>>
  BY DEF ReceiveGoods, FreshReceipt, LinesOf
<1>2. /\ PurchasesTypeOK
      /\ \A i \in Items : arrived[i] \in Nat /\ ordered[i] \in 0 .. MaxQuantity
                        /\ arrived[i] <= ordered[i]
  BY DEF PurchasesInvariant, PurchasesTypeOK, ReceiptsAddUp
<1>3. \A i \in Items : /\ arrived[i] \in Nat /\ arrived'[i] \in Nat
                     /\ ordered[i] \in Nat /\ ordered'[i] = ordered[i]
                     /\ arrived'[i] <= ordered[i] /\ ordered[i] <= MaxQuantity
                     /\ arrived'[i] = arrived[i] + IF i \in S THEN amounts[i] ELSE 0
  <2>1. \A i \in Items : arrived[i] \in Nat /\ ordered[i] \in Nat /\ ordered[i] <= MaxQuantity
                       /\ arrived[i] <= ordered[i] /\ ordered'[i] = ordered[i]
    <3>1. UNCHANGED ordered
      BY <1>1
    <3>2. QED
      BY <1>2, <3>1
  <2>2. \A i \in S : amounts[i] \in Nat /\ amounts[i] <= ordered[i] - arrived[i]
    <3>1. \A i \in S : amounts[i] <= ordered[i] - arrived[i]
      BY <1>1
    <3>2. \A i \in S : amounts[i] \in 0 .. MaxQuantity
      OBVIOUS
    <3>3. QED
      BY <3>1, <3>2
  <2>3. \A i \in Items : arrived'[i] = IF i \in S THEN arrived[i] + amounts[i] ELSE arrived[i]
    BY <1>1
  <2>4. QED
    BY <2>1, <2>2, <2>3
<1>4. PurchasesTypeOK'
  <2>1. arrived' \in [Items -> Nat]
    <3>1. \A i \in Items : arrived'[i] \in Nat
      BY <1>3
    <3>2. arrived' = [i \in Items |-> arrived'[i]]
      BY <1>1
    <3>3. QED
      BY <3>1, <3>2
  <2>2. purchase' \in [Purchases -> PurchaseStages]
    BY <1>1, <1>2 DEF PurchasesTypeOK, PurchaseStages
  <2>3. receipt' \in [Receipts -> [Items -> -1 .. MaxQuantity]]
    <3>1. [i \in Items |-> IF i \in S THEN amounts[i] ELSE -1] \in [Items -> -1 .. MaxQuantity]
      OBVIOUS
    <3>2. QED
      BY <1>1, <1>2, <3>1 DEF PurchasesTypeOK
  <2>4. purchaseMoved' \in [Rows -> Int]
    <3>1. \A row \in Rows : purchaseMoved[row] + Total(S, lineRow, amounts, row) \in Int
      <4>1. \A row \in Rows : Total(S, lineRow, amounts, row) \in Nat
        BY <1>1, LinesFinite, UnitsFinite
      <4>2. QED
        BY <1>2, <4>1 DEF PurchasesTypeOK
    <3>2. purchaseMoved' =
            [row \in Rows |-> purchaseMoved[row] + Total(S, lineRow, amounts, row)]
      BY DEF ReceiveGoods
    <3>3. QED
      BY <3>1, <3>2
  <2>5. QED
    BY <1>1, <1>2, <2>1, <2>2, <2>3, <2>4 DEF PurchasesTypeOK
<1>5. NothingYet'
  <2>1. \A o \in Purchases : purchase'[o] = "NONE" => o # p /\ purchase[o] = "NONE"
    BY <1>1, <1>2 DEF PurchasesTypeOK
  <2>2. \A o \in Purchases : o # p => \A i \in LinesOf(o) : i \in Items /\ i \notin S
    BY <1>1 DEF LinesOf
  <2>3. QED
    BY <1>1, <2>1, <2>2 DEF PurchasesInvariant, NothingYet, LinesOf
<1>6. ASSUME NEW i \in Items
      PROVE  arrived'[i] = Total(Receipts, OfLine(i), HeldFor(i), i)'
  <2> DEFINE old  == HeldFor(i)
             new  == HeldFor(i)'
             rest == Receipts \ {x}
  <2>1. arrived[i] = Total(Receipts, OfLine(i), old, i)
    BY DEF PurchasesInvariant, ReceiptsAddUp
  <2>2. /\ \A y \in rest : new[y] = old[y]
        /\ old[x] = -1
        /\ new[x] = IF i \in S THEN amounts[i] ELSE -1
        /\ IsFiniteSet(rest) /\ Receipts = rest \cup {x} /\ x \notin rest
    BY <1>1, <1>2, LinesFinite, FS_Subset DEF PurchasesTypeOK, HeldFor, NotReceived
  <2>3. arrived'[i] = IF i \in S THEN arrived[i] + amounts[i] ELSE arrived[i]
    BY <1>1
  <2>4. OfLine(i)[x] = i
    BY DEF OfLine
  <2> HIDE DEF old, new, rest
  <2>5. Total(rest, OfLine(i), old, i) = Total(Receipts, OfLine(i), old, i)
    <3>1. \A y \in rest : OfLine(i)[y] = OfLine(i)[y] /\ old[y] = old[y]
      OBVIOUS
    <3>2. rest \subseteq Receipts /\ \A y \in Receipts \ rest : old[y] \in Int /\ old[y] <= 0
      BY <2>2
    <3>3. QED
      BY <3>1, <3>2, TotalOfTheRest
  <2>6. Total(rest, OfLine(i), old, i) = Total(rest, OfLine(i), new, i)
    BY <2>2, TotalAgrees
  <2>7. arrived'[i] = Total(Receipts, OfLine(i), new, i)
    <3>1. CASE i \in S
      <4>1. new[x] = amounts[i] /\ amounts[i] \in 0 .. MaxQuantity
        BY <2>2, <3>1
      <4>2. Total(rest \cup {x}, OfLine(i), new, i)
              = Total(rest, OfLine(i), new, i) + IF OfLine(i)[x] = i THEN new[x] ELSE 0
        BY <2>2, <4>1, TotalInsert
      <4>3. QED
        BY <2>1, <2>2, <2>3, <2>4, <2>5, <2>6, <3>1, <4>1, <4>2
    <3>2. CASE i \notin S
      <4>1. \A y \in rest : OfLine(i)[y] = OfLine(i)[y] /\ new[y] = new[y]
        OBVIOUS
      <4>2. rest \subseteq Receipts /\ \A y \in Receipts \ rest : new[y] \in Int /\ new[y] <= 0
        BY <2>2, <3>2
      <4>3. Total(rest, OfLine(i), new, i) = Total(Receipts, OfLine(i), new, i)
        BY <4>1, <4>2, TotalOfTheRest
      <4>4. QED
        BY <2>1, <2>3, <2>5, <2>6, <3>2, <4>3
    <3>3. QED
      BY <3>1, <3>2
  <2>8. QED
    BY <2>7 DEF Total, Units, OfLine, new
<1>7. ASSUME NEW row \in Rows
      PROVE  purchaseMoved'[row] = Total(Items, lineRow, arrived, row)'
  <2> DEFINE b == [i \in Items |-> IF i \in S THEN amounts[i] ELSE 0]
  <2>1. \A i \in Items : /\ arrived[i] \in Nat /\ b[i] \in Nat
                       /\ arrived'[i] = arrived[i] + b[i] /\ arrived'[i] <= MaxQuantity
    <3>1. \A i \in Items : b[i] \in Nat /\ b[i] = IF i \in S THEN amounts[i] ELSE 0
      <4>1. \A i \in S : amounts[i] \in Nat
        OBVIOUS
      <4>2. QED
        BY <4>1
    <3> HIDE DEF b
    <3>2. QED
      BY <1>3, <3>1
  <2>2. \A i \in S : amounts[i] = b[i]
    BY <1>1
  <2>3. \A i \in Items \ S : b[i] \in Int /\ b[i] <= 0
    OBVIOUS
  <2> HIDE DEF b
  <2>4. Total(Items, lineRow, arrived', row)
          = Total(Items, lineRow, arrived, row) + Total(Items, lineRow, b, row)
    BY <2>1, LinesFinite, TotalSum
  <2>5. Total(S, lineRow, amounts, row) = Total(Items, lineRow, b, row)
    <3>1. S \subseteq Items /\ \A i \in S : lineRow[i] = lineRow[i] /\ amounts[i] = b[i]
      BY <1>1, <2>2
    <3>2. QED
      BY <2>3, <3>1, TotalOfTheRest
  <2>6. purchaseMoved'[row] = purchaseMoved[row] + Total(S, lineRow, amounts, row)
    BY DEF ReceiveGoods
  <2>7. purchaseMoved[row] = Total(Items, lineRow, arrived, row)
    BY DEF PurchasesInvariant, ReceiptsAddUp
  <2>8. purchaseMoved'[row] = Total(Items, lineRow', arrived', row)
    BY <1>1, <2>4, <2>5, <2>6, <2>7
  <2>9. QED
    BY <2>8 DEF Total, Units
<1>8. ASSUME NEW o \in Purchases, purchase'[o] # "NONE"
      PROVE  purchase'[o] = "Received" <=> \A i \in LinesOf(o) : arrived'[i] = ordered'[i]
  <2>1. CASE o = p
    <3>1. \A i \in LinesOf(p) : arrived'[i] >= ordered[i] <=> arrived'[i] = ordered'[i]
      <4>1. \A i \in LinesOf(p) : i \in Items
        BY DEF LinesOf
      <4>2. QED
        BY <1>3, <4>1
    <3>2. purchase'[p] = "Received" <=> \A i \in LinesOf(p) : arrived'[i] >= ordered[i]
      BY <1>1, <1>2 DEF PurchasesTypeOK
    <3>3. QED
      BY <2>1, <3>1, <3>2
  <2>2. CASE o # p
    <3>1. \A i \in LinesOf(o) : arrived'[i] = arrived[i] /\ ordered'[i] = ordered[i]
      BY <1>1, <2>2 DEF LinesOf
    <3>2. purchase'[o] = purchase[o]
      BY <1>1, <1>2, <2>2 DEF PurchasesTypeOK
    <3>3. QED
      BY <1>8, <3>1, <3>2 DEF PurchasesInvariant, ReceiptsAddUp
  <2>3. QED
    BY <2>1, <2>2
<1>9. ReceiptsAddUp'
  BY <1>3, <1>6, <1>7, <1>8 DEF ReceiptsAddUp, LinesOf
<1>10. QED
  BY <1>4, <1>5, <1>9 DEF PurchasesInvariant

\* The operations on orders keep the invariant.
LEMMA PurchaseStep ==
  ASSUME PurchasesInvariant, NEW p \in Purchases, PurchaseMoves(p) \/ PurchaseCreated(p)
  PROVE  PurchasesInvariant'
BY CreatePurchaseStep, ChangePurchaseStep, ReceiveGoodsStep DEF PurchaseMoves, PurchaseCreated

\* What an order does to the stock is a step that the promise allows.
LEMMA PurchaseKeepsPromise ==
  ASSUME TypeOK, NEW p \in Purchases, PurchaseMoves(p) \/ PurchaseCreated(p)
  PROVE  [PromiseNext]_vars
<1>1. ASSUME NEW x \in Receipts, NEW S \in SUBSET LinesOf(p),
             NEW amounts \in [S -> 0 .. MaxQuantity], ReceiveGoods(p, x, S, amounts)
      PROVE  PromiseNext
  <2>1. Post([row \in Rows |-> Total(S, lineRow, amounts, row)]) /\ S \in SUBSET Items
    BY <1>1 DEF ReceiveGoods, LinesOf
  <2>2. QED
    BY <2>1, PostOfReceipt DEF PromiseNext
<1>2. QED
  BY <1>1 DEF PurchaseMoves, PurchaseCreated, CreatePurchase, ChangePurchase

-----------------------------------------------------------------------------
(* All of them together.  Parts that a step leaves alone.                  *)

\* Transfers look at nothing but themselves.
LEMMA TransfersKept ==
  ASSUME TransfersInvariant, UNCHANGED transferVars
  PROVE  TransfersInvariant' /\ UNCHANGED Goods!vars
<1> USE DEF transferVars, routeVars
<1>1. TransfersTypeOK' /\ Routed'
  BY DEF TransfersInvariant, TransfersTypeOK, Routed
<1>2. \A S : AtStage(S)' = AtStage(S)
  BY DEF AtStage
<1>3. TransfersAddUp'
  BY <1>1, <1>2, PaperStep
<1>4. \A t \in Transfers : Phase(t)' = Phase(t)
  BY DEF Phase
<1>5. QED
  BY <1>1, <1>3, <1>4 DEF TransfersInvariant, Goods!vars

\* Orders look at nothing but themselves.
LEMMA PurchasesKept ==
  ASSUME PurchasesInvariant, UNCHANGED purchaseVars
  PROVE  PurchasesInvariant'
<1> USE DEF purchaseVars
<1>1. PurchasesTypeOK' /\ NothingYet'
  BY DEF PurchasesInvariant, PurchasesTypeOK, NothingYet, LinesOf
<1>2. \A row \in Rows : Total(Items, lineRow, arrived, row)' = Total(Items, lineRow, arrived, row)
  BY DEF Total, Units
<1>3. \A i \in Items :
        Total(Receipts, OfLine(i), HeldFor(i), i)' = Total(Receipts, OfLine(i), HeldFor(i), i)
  BY ReceiptsKept
<1>4. ReceiptsAddUp'
  BY <1>2, <1>3 DEF PurchasesInvariant, ReceiptsAddUp, LinesOf
<1>5. QED
  BY <1>1, <1>4 DEF PurchasesInvariant

\* A request that has read something has read it of a count.
CountsInvariant ==
  /\ CountsTypeOK
  /\ \A k \in Clerks : read[k] # NothingRead => read[k].count \in Counts

\* Counts look at nothing but themselves.
LEMMA CountsKept ==
  ASSUME CountsInvariant, UNCHANGED countVars
  PROVE  CountsInvariant'
BY DEF countVars, CountsInvariant, CountsTypeOK

-----------------------------------------------------------------------------
(* Each part's steps.                                                      *)

\* What a transfer does to the stock is a step that the promise allows.
LEMMA TransferKeepsPromise ==
  ASSUME TypeOK, TransfersInvariant, NEW t \in Transfers,
         TransferMoves(t) \/ TransferCreated(t)
  PROVE  [PromiseNext]_vars
<1>1. ASSUME NEW row \in Rows, NEW q \in Int, PostTransfer(row, q)
      PROVE  PromiseNext
  BY <1>1, PostOnOne DEF PromiseNext
<1>2. ASSUME NEW q \in 0 .. MaxQuantity, DispatchTransfer(t, q)
      PROVE  PromiseNext
  <2>1. PostTransfer(source[t], -q) /\ source[t] \in Rows /\ -q \in Int
    BY <1>2, MaxQuantityAssumption
       DEF DispatchTransfer, SendOff, MayMove, TransfersInvariant, Routed
  <2>2. QED
    BY <1>1, <2>1
<1>3. ASSUME NEW q \in 0 .. MaxQuantity, ReceiveTransfer(t, q)
      PROVE  [PromiseNext]_vars
  <2>1. destination[t] \in Rows /\ q \in Int
    BY <1>3, MaxQuantityAssumption
       DEF ReceiveTransfer, Move, MayMove, UnderWay, TransfersInvariant, Routed
  <2>2. CASE q > 0
    BY <1>1, <1>3, <2>1, <2>2 DEF ReceiveTransfer
  <2>3. CASE ~(q > 0)
    BY <1>3, <2>3 DEF ReceiveTransfer
  <2>4. QED
    BY <2>2, <2>3
<1>4. QED
  BY <1>2, <1>3
     DEF TransferMoves, TransferCreated, CreateTransfer, ChangeStage, ApproveTransfer

\* The statuses that requests read, and what they have read, keep their types.
Reads == [count : Counts \cup {NoCount}, status : CountStages, items : BOOLEAN,
          variance : Column, overtaken : BOOLEAN]

LEMMA NothingIsRead == NothingRead \in Reads /\ NothingRead.items = FALSE
BY ColumnMaxAssumption DEF NothingRead, Read, Reads, CountStages, Column

\* A request that commits writes a count that it has read.
LEMMA SettleStep ==
  ASSUME CountsInvariant, NEW k \in Clerks, NEW stage \in CountStages, Settle(k, stage)
  PROVE  /\ read[k].count \in Counts /\ read[k].items
         /\ count' \in [Counts -> CountStages] /\ read' \in [Clerks -> Reads]
         /\ raced' \subseteq Counts
         /\ \A l \in Clerks : read'[l] # NothingRead => read'[l].count \in Counts
<1> DEFINE c == read[k].count
<1>1. /\ read[k].items
      /\ count' = [count EXCEPT ![c] = stage]
      /\ read'  = [l \in Clerks |->
                     IF l = k THEN NothingRead
                     ELSE IF read[l].count = c THEN [read[l] EXCEPT !.overtaken = TRUE]
                     ELSE read[l]]
      /\ raced' = IF read[k].overtaken THEN raced \cup {c} ELSE raced
  BY DEF Settle
<1>2. /\ count \in [Counts -> CountStages] /\ read \in [Clerks -> Reads] /\ raced \subseteq Counts
      /\ \A l \in Clerks : read[l] # NothingRead => read[l].count \in Counts
  BY DEF CountsInvariant, CountsTypeOK, Reads
<1>3. c \in Counts
  BY <1>1, <1>2, NothingIsRead
<1>4. count' \in [Counts -> CountStages] /\ raced' \subseteq Counts
  BY <1>1, <1>2, <1>3
<1>5. ASSUME NEW l \in Clerks
      PROVE  read'[l] \in Reads /\ (read'[l] # NothingRead => read'[l].count \in Counts)
  <2>1. CASE l = k
    BY <1>1, <2>1, NothingIsRead
  <2>2. CASE l # k /\ read[l].count = c
    <3>1. read'[l] = [read[l] EXCEPT !.overtaken = TRUE] /\ read[l] \in Reads
      BY <1>1, <1>2, <2>2
    <3>2. QED
      BY <1>3, <2>2, <3>1 DEF Reads
  <2>3. CASE l # k /\ read[l].count # c
    BY <1>1, <1>2, <2>3
  <2>4. QED
    BY <2>1, <2>2, <2>3
<1> HIDE DEF c
<1>6. read' \in [Clerks -> Reads]
  BY <1>1, <1>5
<1>7. QED
  BY <1>1, <1>3, <1>4, <1>5, <1>6 DEF c

\* The operations on counts keep the types.
LEMMA CountStep ==
  ASSUME TypeOK, CountsInvariant,
         \/ \E k \in Clerks : ClerkActs(k)
         \/ \E c \in Counts, row \in Rows : CreateCount(c, row)
  PROVE  CountsInvariant' /\ [PromiseNext]_vars
<1>0. /\ count \in [Counts -> CountStages] /\ countRow \in [Counts -> Rows \cup {NoRow}]
      /\ system \in [Counts -> OnHands] /\ counted \in [Counts -> OnHands]
      /\ read \in [Clerks -> Reads] /\ countMoved \in [Counts -> Int] /\ raced \subseteq Counts
      /\ \A k \in Clerks : read[k] # NothingRead => read[k].count \in Counts
  BY DEF CountsInvariant, CountsTypeOK, Reads
<1>1. ASSUME NEW c \in Counts, NEW row \in Rows, CreateCount(c, row)
      PROVE  CountsInvariant' /\ [PromiseNext]_vars
  BY <1>0, <1>1 DEF CreateCount, CountsInvariant, CountsTypeOK, CountStages, Reads
<1>2. ASSUME NEW k \in Clerks, NEW now \in Reads, now # NothingRead => now.count \in Counts,
             read' = [read EXCEPT ![k] = now],
             UNCHANGED <<vars, count, countRow, system, counted, countMoved, raced>>
      PROVE  CountsInvariant' /\ [PromiseNext]_vars
  <2>1. read' \in [Clerks -> Reads] /\ \A l \in Clerks : read'[l] # NothingRead => read'[l].count \in Counts
    BY <1>0, <1>2
  <2>2. QED
    BY <1>0, <1>2, <2>1 DEF CountsInvariant, CountsTypeOK, Reads
<1>3. ASSUME NEW k \in Clerks, NEW c \in Counts, ReadCount(k, c)
      PROVE  CountsInvariant' /\ [PromiseNext]_vars
  <2> DEFINE now == Read(c, count[c], FALSE, 0, FALSE)
  <2>1. now \in Reads /\ (now # NothingRead => now.count \in Counts)
    BY <1>0, ColumnMaxAssumption DEF Read, Reads, Column
  <2>2. read' = [read EXCEPT ![k] = now]
    BY <1>3 DEF ReadCount
  <2> HIDE DEF now
  <2>3. QED
    BY <1>2, <1>3, <2>1, <2>2 DEF ReadCount
<1>4. ASSUME NEW k \in Clerks, ReadItems(k)
      PROVE  CountsInvariant' /\ [PromiseNext]_vars
  <2> DEFINE now == [read[k] EXCEPT !.items = TRUE, !.variance = Variance(read[k].count)]
  <2>1. read[k].count \in Counts
    BY <1>0, <1>4 DEF ReadItems
  <2>2. Variance(read[k].count) \in Column
    BY <1>0, <2>1, ColumnMaxAssumption DEF Variance, OnHands, Column
  <2>3. now \in Reads /\ (now # NothingRead => now.count \in Counts)
    BY <1>0, <2>1, <2>2 DEF Reads
  <2>4. read' = [read EXCEPT ![k] = now]
    BY <1>0, <1>4 DEF ReadItems
  <2> HIDE DEF now
  <2>5. QED
    BY <1>2, <1>4, <2>3, <2>4 DEF ReadItems
<1>5. ASSUME NEW k \in Clerks, GiveUp(k)
      PROVE  CountsInvariant' /\ [PromiseNext]_vars
  BY <1>2, <1>5, NothingIsRead DEF GiveUp
<1>6. ASSUME NEW k \in Clerks, NEW q \in OnHands, SubmitCount(k, q)
      PROVE  CountsInvariant' /\ [PromiseNext]_vars
  <2>1. /\ Settle(k, "SUBMITTED") /\ counted' = [counted EXCEPT ![read[k].count] = q]
        /\ UNCHANGED <<vars, countRow, system, countMoved>>
    BY <1>6 DEF SubmitCount
  <2>2. counted' \in [Counts -> OnHands]
    BY <1>0, <2>1
  <2>3. QED
    BY <1>0, <2>1, <2>2, SettleStep DEF CountsInvariant, CountsTypeOK, CountStages, Reads
<1>7. ASSUME NEW k \in Clerks, ApproveCount(k)
      PROVE  CountsInvariant' /\ [PromiseNext]_vars
  <2> DEFINE c == read[k].count
             v == read[k].variance
             change == [row \in Rows |-> IF row = countRow[c] THEN v ELSE 0]
  <2>1. v \in Column
    BY <1>0 DEF Reads
  <2>2. CountsInvariant'
    <3>1. /\ Settle(k, "APPROVED")
          /\ countMoved' = [countMoved EXCEPT ![c] = @ + v]
          /\ UNCHANGED <<countRow, system, counted>>
      BY <1>7 DEF ApproveCount
    <3>2. countMoved' \in [Counts -> Int]
      <4>1. v \in Int
        BY <2>1 DEF Column
      <4>2. c \in Counts => countMoved[c] + v \in Int
        BY <1>0, <4>1
      <4> HIDE DEF c, v
      <4>3. QED
        BY <1>0, <3>1, <4>2
    <3>3. QED
      BY <1>0, <3>1, <3>2, SettleStep DEF CountsInvariant, CountsTypeOK, CountStages, Reads
  <2>3. CASE v # 0
    <3>1. Post(change)
      BY <1>7, <2>3 DEF ApproveCount
    <3>2. change \in [Rows -> -2 * ColumnMax .. 2 * ColumnMax]
      BY <2>1, ColumnMaxAssumption DEF Column
    <3> HIDE DEF change
    <3>3. QED
      BY <2>2, <3>1, <3>2 DEF PromiseNext
  <2>4. CASE v = 0
    BY <1>7, <2>2, <2>4 DEF ApproveCount
  <2>5. QED
    BY <2>3, <2>4
<1>8. QED
  BY <1>1, <1>3, <1>4, <1>5, <1>6, <1>7 DEF ClerkActs

\* Adjustments and reservations are steps that the promise allows.
LEMMA ShopKeepsPromise ==
  ASSUME ShopNext
  PROVE  PromiseNext
<1>1. ASSUME NEW row \in Rows, NEW change \in {-1, 1}, RecordAdjustment(row, change, FALSE)
      PROVE  PromiseNext
  <2>1. change \in -MaxQuantity .. MaxQuantity
    BY MaxQuantityAssumption
  <2>2. QED
    BY <1>1, <2>1 DEF PromiseNext, StockNext, StockOn
<1>2. ASSUME NEW r \in Reservations,
             \/ \E row \in Rows : CreateReservation(r, row, 1, "never")
             \/ CancelReservation(r)
             \/ FulfillReservation(r)
      PROVE  PromiseNext
  <2>1. 1 \in Quantities
    BY MaxQuantityAssumption DEF Quantities
  <2>2. ReservationNext
    BY <1>2, <2>1 DEF ReservationNext
  <2>3. QED
    BY <2>2, NextIsPromise DEF Next
<1>3. QED
  BY <1>1, <1>2 DEF ShopNext

-----------------------------------------------------------------------------
(* The inductive invariant.                                                *)

OfficeInvariant ==
  StockInvariant /\ TransfersInvariant /\ CountsInvariant /\ PurchasesInvariant

\* Every step keeps the invariant, and is one of the stock's promise and one of
\* the transfers' consignments.
LEMMA OfficeStep ==
  ASSUME OfficeInvariant, [OfficeNext]_officeVars
  PROVE  OfficeInvariant' /\ [PromiseNext]_vars /\ [Goods!Next]_Goods!vars
<1>1. /\ StockInvariant /\ TypeOK /\ TransfersInvariant /\ CountsInvariant /\ PurchasesInvariant
  BY DEF OfficeInvariant, StockInvariant
<1>2. [PromiseNext]_vars => StockInvariant'
  BY <1>1, PromiseStep
<1>3. CASE TransferNext
  <2>1. PICK t \in Transfers : TransferMoves(t) \/ TransferCreated(t)
    BY <1>3 DEF TransferNext
  <2>2. /\ TransfersInvariant' /\ [Goods!Next]_Goods!vars
        /\ [PromiseNext]_vars
    BY <1>1, <2>1, TransferStep, TransferKeepsPromise
  <2>3. CountsInvariant' /\ PurchasesInvariant'
    BY <1>1, <1>3, CountsKept, PurchasesKept DEF TransferNext
  <2>4. QED
    BY <1>2, <2>2, <2>3 DEF OfficeInvariant
<1>4. CASE CountNext
  <2>1. CountsInvariant' /\ [PromiseNext]_vars
    BY <1>1, <1>4, CountStep DEF CountNext
  <2>2. TransfersInvariant' /\ UNCHANGED Goods!vars /\ PurchasesInvariant'
    BY <1>1, <1>4, TransfersKept, PurchasesKept DEF CountNext
  <2>3. QED
    BY <1>2, <2>1, <2>2 DEF OfficeInvariant
<1>5. CASE PurchaseNext
  <2>1. PICK p \in Purchases : PurchaseMoves(p) \/ PurchaseCreated(p)
    BY <1>5 DEF PurchaseNext
  <2>2. PurchasesInvariant' /\ [PromiseNext]_vars
    BY <1>1, <2>1, PurchaseStep, PurchaseKeepsPromise
  <2>3. TransfersInvariant' /\ UNCHANGED Goods!vars /\ CountsInvariant'
    BY <1>1, <1>5, TransfersKept, CountsKept DEF PurchaseNext
  <2>4. QED
    BY <1>2, <2>2, <2>3 DEF OfficeInvariant
<1>6. CASE ShopNext
  <2>1. PromiseNext
    BY <1>6, ShopKeepsPromise
  <2>2. /\ TransfersInvariant' /\ UNCHANGED Goods!vars
        /\ CountsInvariant' /\ PurchasesInvariant'
    BY <1>1, <1>6, TransfersKept, CountsKept, PurchasesKept DEF ShopNext
  <2>3. QED
    BY <1>2, <2>1, <2>2 DEF OfficeInvariant
<1>7. CASE UNCHANGED officeVars
  <2>1. /\ UNCHANGED vars /\ TransfersInvariant' /\ UNCHANGED Goods!vars
        /\ CountsInvariant' /\ PurchasesInvariant'
    BY <1>1, <1>7, TransfersKept, CountsKept, PurchasesKept DEF officeVars
  <2>2. QED
    BY <1>2, <2>1 DEF OfficeInvariant
<1>8. QED
  BY <1>3, <1>4, <1>5, <1>6, <1>7 DEF OfficeNext

\* Counts start with their types.
LEMMA InitCounts == ASSUME CountsInit PROVE CountsInvariant
<1>1. read \in [Clerks -> Reads] /\ \A k \in Clerks : read[k] = NothingRead
  BY NothingIsRead DEF CountsInit
<1>2. QED
  BY <1>1, ColumnMaxAssumption
     DEF CountsInit, CountsInvariant, CountsTypeOK, CountStages, OnHands, Reads

\* However transfers, counts, orders, adjustments and reservations interleave,
\* the invariant holds.
THEOREM OfficeIsSafe == OfficeSpec => []OfficeInvariant
<1>1. OfficeInit => OfficeInvariant
  BY InitStock, InitTransfers, InitCounts, InitPurchases DEF OfficeInit, OfficeInvariant
<1>2. OfficeInvariant /\ [OfficeNext]_officeVars => OfficeInvariant'
  BY OfficeStep
<1>3. QED
  BY <1>1, <1>2, PTL DEF OfficeSpec

\* Every column keeps its range: in_transit and received_qty do not go below zero.
THEOREM OfficeTypeCorrect == OfficeSpec => []OfficeTypeOK
<1>1. OfficeInvariant => OfficeTypeOK
  BY DEF OfficeInvariant, StockInvariant, TransfersInvariant, CountsInvariant,
         PurchasesInvariant, OfficeTypeOK
<1>2. QED
  BY OfficeIsSafe, <1>1, PTL

\* The back office implements the stock's promise.
THEOREM OfficeKeepsPromise == OfficeSpec => PromiseSpec
<1>1. OfficeInit => Init
  BY DEF OfficeInit
<1>2. OfficeInvariant /\ [OfficeNext]_officeVars => [PromiseNext]_vars
  BY OfficeStep
<1>3. QED
  BY OfficeIsSafe, <1>1, <1>2, PTL DEF OfficeSpec, PromiseSpec

\* So neither transfers nor counts nor orders oversell a row.
THEOREM OfficeNeverOversells == OfficeSpec => []NeverOversold
<1>1. OfficeInvariant => NeverOversold
  BY DEF OfficeInvariant, StockInvariant
<1>2. QED
  BY OfficeIsSafe, <1>1, PTL

\* in_transit and the ledger show what the transfers carry, took and brought.
THEOREM TransfersExact == OfficeSpec => []TransfersAddUp
<1>1. OfficeInvariant => TransfersAddUp
  BY DEF OfficeInvariant, TransfersInvariant
<1>2. QED
  BY OfficeIsSafe, <1>1, PTL

\* Each transfer is a consignment: sent off once, settled once.
THEOREM TransfersAreConsignments == OfficeSpec => ConsignmentSpec
<1>1. OfficeInit => Goods!Init
  <2> SUFFICES ASSUME TransfersInit PROVE Goods!Init
    BY DEF OfficeInit
  <2>1. \A t \in Transfers : Phase(t) = "planned"
    BY DEF TransfersInit, Phase, UnderWay
  <2>2. QED
    BY <2>1 DEF TransfersInit, Goods!Init
<1>2. OfficeInvariant /\ [OfficeNext]_officeVars => [Goods!Next]_Goods!vars
  BY OfficeStep
<1>3. QED
  BY OfficeIsSafe, <1>1, <1>2, PTL DEF OfficeSpec, ConsignmentSpec, Goods!Spec

\* No line gets more than was ordered, and what arrived is what the receipts and
\* the ledger say.
THEOREM ReceiptsExact == OfficeSpec => []ReceiptsAddUp
<1>1. OfficeInvariant => ReceiptsAddUp
  BY DEF OfficeInvariant, PurchasesInvariant
<1>2. QED
  BY OfficeIsSafe, <1>1, PTL

-----------------------------------------------------------------------------
(* What a transaction has read of a count is still so when it writes,      *)
(* unless another wrote the count since: then it is marked.                *)

FreshFor(seen) ==
  seen.count \in Counts =>
    /\ count[seen.count] # "NONE"
    /\ ~seen.overtaken =>
         /\ count[seen.count] = seen.status
         /\ seen.items => seen.variance = Variance(seen.count)

ReadIsFresh == \A k \in Clerks : FreshFor(read[k])

PostedInvariant == ReadIsFresh /\ PostedUnlessRaced

\* A request that commits leaves the others' reads fresh or marked, and is itself
\* fresh or its count raced.
LEMMA SettleIsFresh ==
  ASSUME CountsInvariant, ReadIsFresh, NEW k \in Clerks,
         NEW stage \in {"SUBMITTED", "APPROVED"}, Settle(k, stage),
         \A d \in Counts : d # read[k].count => Variance(d)' = Variance(d)
  PROVE  /\ ReadIsFresh'
         /\ read[k].count \in Counts
         /\ count' = [count EXCEPT ![read[k].count] = stage]
         /\ raced \subseteq raced'
         /\ read[k].count \notin raced' =>
              /\ count[read[k].count] = read[k].status
              /\ read[k].variance = Variance(read[k].count)
<1> DEFINE c == read[k].count
<1>1. /\ read[k].items
      /\ count' = [count EXCEPT ![c] = stage]
      /\ read'  = [l \in Clerks |->
                     IF l = k THEN NothingRead
                     ELSE IF read[l].count = c THEN [read[l] EXCEPT !.overtaken = TRUE]
                     ELSE read[l]]
      /\ raced' = IF read[k].overtaken THEN raced \cup {c} ELSE raced
  BY DEF Settle
<1>2. c \in Counts /\ count \in [Counts -> CountStages] /\ read \in [Clerks -> Reads]
  BY SettleStep DEF CountStages, CountsInvariant, CountsTypeOK, Reads
<1>3. /\ count'[c] = stage /\ stage # "NONE"
      /\ \A d \in Counts : d # c => count'[d] = count[d]
  BY <1>1, <1>2
<1>4. ASSUME NEW l \in Clerks
      PROVE  FreshFor(read[l])'
  <2>1. CASE l = k
    <3>1. read'[l].count = NoCount
      BY <1>1, <2>1 DEF NothingRead, Read
    <3>2. QED
      BY <3>1, NoCountAssumption DEF FreshFor
  <2>2. CASE l # k /\ read[l].count = c
    <3>1. read'[l] = [read[l] EXCEPT !.overtaken = TRUE] /\ read[l] \in Reads
      BY <1>1, <1>2, <2>2
    <3>2. read'[l].count = c /\ read'[l].overtaken = TRUE
      BY <2>2, <3>1 DEF Reads
    <3>3. QED
      BY <1>3, <3>2 DEF FreshFor
  <2>3. CASE l # k /\ read[l].count # c
    <3>1. read'[l] = read[l] /\ FreshFor(read[l])
      BY <1>1, <2>3 DEF ReadIsFresh
    <3>2. read[l].count \in Counts => /\ count'[read[l].count] = count[read[l].count]
                                      /\ Variance(read[l].count)' = Variance(read[l].count)
      <4>1. ASSUME NEW d \in Counts, d # c
            PROVE  count'[d] = count[d] /\ Variance(d)' = Variance(d)
        BY <1>3, <4>1
      <4>2. ASSUME read[l].count \in Counts
            PROVE  /\ count'[read[l].count] = count[read[l].count]
                   /\ counted'[read[l].count] - system'[read[l].count]
                        = counted[read[l].count] - system[read[l].count]
        BY <2>3, <4>1, <4>2 DEF Variance
      <4>3. QED
        BY <3>1, <4>2 DEF Variance
    <3>3. QED
      BY <3>1, <3>2 DEF FreshFor, Variance
  <2>4. QED
    BY <2>1, <2>2, <2>3
<1>5. ReadIsFresh'
  BY <1>4 DEF ReadIsFresh
<1>6. c \notin raced' => count[c] = read[k].status /\ read[k].variance = Variance(c)
  BY <1>1, <1>2 DEF ReadIsFresh, FreshFor
<1>7. QED
  BY <1>1, <1>2, <1>5, <1>6

\* What changes one request's read to what is so leaves the counts posted.
LEMMA ReadStep ==
  ASSUME CountsInvariant, PostedInvariant, NEW k \in Clerks, NEW now \in Reads,
         read' = [read EXCEPT ![k] = now],
         UNCHANGED <<count, system, counted, countMoved, raced>>,
         now.count \in Counts =>
           /\ count[now.count] # "NONE"
           /\ ~now.overtaken => /\ count[now.count] = now.status
                                /\ now.items => now.variance = Variance(now.count)
  PROVE  PostedInvariant'
<1>1. read \in [Clerks -> Reads]
  BY DEF CountsInvariant, CountsTypeOK, Reads
<1>2. \A d : Variance(d)' = Variance(d)
  BY DEF Variance
<1>3. read'[k] = now /\ \A l \in Clerks : l # k => read'[l] = read[l]
  BY <1>1
<1>4. ReadIsFresh'
  BY <1>2, <1>3 DEF PostedInvariant, ReadIsFresh, FreshFor
<1>5. PostedUnlessRaced'
  BY <1>2 DEF PostedInvariant, PostedUnlessRaced, Posted
<1>6. QED
  BY <1>4, <1>5 DEF PostedInvariant

LEMMA CountPostedStep ==
  ASSUME OfficeInvariant, PostedInvariant, [OfficeNext]_officeVars
  PROVE  PostedInvariant'
<1>1. /\ CountsInvariant /\ ReadIsFresh /\ PostedUnlessRaced
      /\ count \in [Counts -> CountStages] /\ read \in [Clerks -> Reads]
      /\ system \in [Counts -> OnHands] /\ counted \in [Counts -> OnHands]
      /\ countMoved \in [Counts -> Int]
  BY DEF OfficeInvariant, CountsInvariant, CountsTypeOK, PostedInvariant, Reads
<1>2. ASSUME UNCHANGED countVars
      PROVE  PostedInvariant'
  BY <1>1, <1>2 DEF countVars, PostedInvariant, ReadIsFresh, FreshFor, PostedUnlessRaced, Posted, Variance
<1>3. ASSUME NEW c \in Counts, NEW row \in Rows, CreateCount(c, row)
      PROVE  PostedInvariant'
  <2>1. \A d \in Counts \ {c} : count'[d] = count[d] /\ Variance(d)' = Variance(d)
    BY <1>1, <1>3 DEF CreateCount, Variance
  <2>2. /\ count[c] = "NONE" /\ count'[c] = "IN_PROGRESS"
        /\ UNCHANGED <<read, countMoved, raced>>
    BY <1>1, <1>3 DEF CreateCount
  <2>3. ReadIsFresh'
    BY <1>1, <2>1, <2>2 DEF ReadIsFresh, FreshFor
  <2>4. PostedUnlessRaced'
    BY <1>1, <2>1, <2>2 DEF PostedUnlessRaced, Posted
  <2>5. QED
    BY <2>3, <2>4 DEF PostedInvariant
<1>4. ASSUME NEW k \in Clerks, NEW c \in Counts, ReadCount(k, c)
      PROVE  PostedInvariant'
  <2> DEFINE now == Read(c, count[c], FALSE, 0, FALSE)
  <2>1. now \in Reads
    BY <1>1, ColumnMaxAssumption DEF Read, Reads, Column
  <2>2. now.count = c /\ now.status = count[c] /\ now.items = FALSE /\ count[c] # "NONE"
    BY <1>4 DEF ReadCount, Read
  <2>3. /\ read' = [read EXCEPT ![k] = now]
        /\ UNCHANGED <<count, system, counted, countMoved, raced>>
    BY <1>4 DEF ReadCount
  <2> HIDE DEF now
  <2>4. QED
    BY <1>1, <2>1, <2>2, <2>3, ReadStep DEF PostedInvariant
<1>5. ASSUME NEW k \in Clerks, ReadItems(k)
      PROVE  PostedInvariant'
  <2> DEFINE c   == read[k].count
             now == [read[k] EXCEPT !.items = TRUE, !.variance = Variance(c)]
  <2>0. c \in Counts
    BY <1>5 DEF ReadItems, OfficeInvariant, CountsInvariant
  <2>1. read[k] \in Reads /\ Variance(c) \in Column
    BY <1>1, <2>0, ColumnMaxAssumption DEF Variance, OnHands, Column
  <2>2. /\ now \in Reads /\ now.count = c /\ now.status = read[k].status
        /\ now.overtaken = read[k].overtaken /\ now.variance = Variance(c)
    BY <2>1 DEF Reads
  <2>3. /\ read' = [read EXCEPT ![k] = now]
        /\ UNCHANGED <<count, system, counted, countMoved, raced>>
    BY <1>1, <1>5 DEF ReadItems
  <2>4. c \in Counts => /\ count[c] # "NONE"
                        /\ ~read[k].overtaken => count[c] = read[k].status
    BY <1>1 DEF ReadIsFresh, FreshFor
  <2> HIDE DEF now, c
  <2>5. QED
    BY <1>1, <2>2, <2>3, <2>4, ReadStep DEF PostedInvariant
<1>6. ASSUME NEW k \in Clerks, GiveUp(k)
      PROVE  PostedInvariant'
  <2>1. NothingRead.count \notin Counts
    BY NoCountAssumption DEF NothingRead, Read
  <2>2. /\ read' = [read EXCEPT ![k] = NothingRead]
        /\ UNCHANGED <<count, system, counted, countMoved, raced>>
    BY <1>6 DEF GiveUp
  <2>3. QED
    BY <1>1, <2>1, <2>2, NothingIsRead, ReadStep DEF PostedInvariant
<1>7. ASSUME NEW k \in Clerks, NEW q \in OnHands, SubmitCount(k, q)
      PROVE  PostedInvariant'
  <2> DEFINE c == read[k].count
  <2>1. /\ Settle(k, "SUBMITTED") /\ read[k].status = "IN_PROGRESS"
        /\ counted' = [counted EXCEPT ![c] = q]
        /\ UNCHANGED <<system, countMoved>>
    BY <1>7 DEF SubmitCount
  <2>2. \A d \in Counts : d # c => Variance(d)' = Variance(d)
    BY <1>1, <2>1 DEF Variance
  <2>3. /\ ReadIsFresh' /\ c \in Counts /\ raced \subseteq raced'
        /\ count' = [count EXCEPT ![c] = "SUBMITTED"]
        /\ c \notin raced' => count[c] = "IN_PROGRESS"
    BY <1>1, <2>1, <2>2, SettleIsFresh
  <2> HIDE DEF c
  <2>4. count'[c] = "SUBMITTED" /\ \A d \in Counts : d # c => count'[d] = count[d]
    BY <1>1, <2>3
  <2>5. ASSUME NEW d \in Counts, d \notin raced' PROVE Posted(d)'
    <3>1. Posted(d)
      BY <1>1, <2>3, <2>5 DEF PostedUnlessRaced
    <3>2. QED
      BY <2>1, <2>2, <2>3, <2>4, <2>5, <3>1 DEF Posted
  <2>6. QED
    BY <2>3, <2>5 DEF PostedInvariant, PostedUnlessRaced
<1>8. ASSUME NEW k \in Clerks, ApproveCount(k)
      PROVE  PostedInvariant'
  <2> DEFINE c == read[k].count
             v == read[k].variance
  <2>1. /\ Settle(k, "APPROVED") /\ read[k].status = "SUBMITTED"
        /\ countMoved' = [countMoved EXCEPT ![c] = @ + v]
        /\ UNCHANGED <<system, counted>>
    BY <1>8 DEF ApproveCount, Approvable
  <2>2. \A d : Variance(d)' = Variance(d)
    BY <2>1 DEF Variance
  <2>3. /\ ReadIsFresh' /\ c \in Counts /\ raced \subseteq raced'
        /\ count' = [count EXCEPT ![c] = "APPROVED"]
        /\ c \notin raced' => count[c] = "SUBMITTED" /\ v = Variance(c)
    BY <1>1, <2>1, <2>2, SettleIsFresh
  <2>4. v \in Int
    BY <1>1 DEF Reads, Column
  <2> HIDE DEF c, v
  <2>5. /\ count'[c] = "APPROVED" /\ countMoved'[c] = countMoved[c] + v
        /\ \A d \in Counts : d # c => count'[d] = count[d] /\ countMoved'[d] = countMoved[d]
    BY <1>1, <2>1, <2>3
  <2>6. ASSUME NEW d \in Counts, d \notin raced' PROVE Posted(d)'
    <3>1. Posted(d)
      BY <1>1, <2>3, <2>6 DEF PostedUnlessRaced
    <3>2. CASE d = c
      <4>1. countMoved[c] = 0 /\ v = Variance(c)
        BY <2>3, <2>6, <3>1, <3>2 DEF Posted
      <4>2. QED
        BY <2>2, <2>4, <2>5, <3>2, <4>1 DEF Posted
    <3>3. CASE d # c
      BY <2>2, <2>5, <3>1, <3>3 DEF Posted
    <3>4. QED
      BY <3>2, <3>3
  <2>7. QED
    BY <2>3, <2>6 DEF PostedInvariant, PostedUnlessRaced
<1>9. QED
  BY <1>2, <1>3, <1>4, <1>5, <1>6, <1>7, <1>8
     DEF OfficeNext, TransferNext, CountNext, PurchaseNext, ShopNext, ClerkActs, officeVars

\* However many requests submit and approve counts at once, a count corrects the
\* stock once, by the variance it shows, unless one of them wrote it after another
\* had changed what it read.
THEOREM CountsPostOnce == OfficeSpec => []PostedUnlessRaced
<1>1. OfficeInit => PostedInvariant
  <2> SUFFICES ASSUME OfficeInit PROVE PostedInvariant
    OBVIOUS
  <2>1. /\ \A c \in Counts : countMoved[c] = 0 /\ count[c] = "NONE"
        /\ \A k \in Clerks : read[k] = NothingRead
    BY DEF OfficeInit, CountsInit
  <2>2. NothingRead.count \notin Counts
    BY NoCountAssumption DEF NothingRead, Read
  <2>3. QED
    BY <2>1, <2>2 DEF PostedInvariant, ReadIsFresh, FreshFor, PostedUnlessRaced, Posted
<1>2. OfficeInvariant /\ PostedInvariant /\ [OfficeNext]_officeVars => PostedInvariant'
  BY CountPostedStep
<1>3. PostedInvariant => PostedUnlessRaced
  BY DEF PostedInvariant
<1>4. QED
  BY OfficeIsSafe, <1>1, <1>2, <1>3, PTL DEF OfficeSpec
=============================================================================
