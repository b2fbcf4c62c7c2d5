----------------------------- MODULE BackOffice -----------------------------
(***************************************************************************)
(* Transfers, stock counts and purchases beside each other and beside the  *)
(* merchant's adjustments and the customers' reservations, over the same   *)
(* balances.  What each module leaves alone stays as it is.                *)
(***************************************************************************)
EXTENDS Transfers, StockCounts, Purchasing

CONSTANTS
  MaxDocuments  \* how many transfers, counts and orders are made, a count being
                \* as many as there are clerks who may work on it (a bound)

ASSUME MaxDocumentsAssumption == MaxDocuments \in Nat

officeVars == <<vars, transferVars, countVars, purchaseVars>>

Opened ==
  Cardinality(Transfers \ AtStage({"NONE"}))
    + Cardinality({c \in Counts : count[c] # "NONE"} \X Clerks)
    + Cardinality({p \in Purchases : purchase[p] # "NONE"})

OfficeInit == Init /\ TransfersInit /\ CountsInit /\ PurchasesInit

TransferNext ==
  /\ \E t \in Transfers : \/ TransferMoves(t)
                          \/ Opened < MaxDocuments /\ TransferCreated(t)
  /\ UNCHANGED <<countVars, purchaseVars>>

CountNext ==
  /\ \/ \E k \in Clerks : ClerkActs(k)
     \/ /\ Opened + Cardinality(Clerks) <= MaxDocuments
        /\ \E c \in Counts, row \in Rows : CreateCount(c, row)
  /\ UNCHANGED <<transferVars, purchaseVars>>

PurchaseNext ==
  /\ \E p \in Purchases : \/ PurchaseMoves(p)
                          \/ Opened < MaxDocuments /\ PurchaseCreated(p)
  /\ UNCHANGED <<transferVars, countVars>>

\* The other transactions on the balances: adjustments without an override, and
\* reservations that nothing but their customers end.
ShopNext ==
  /\ \/ \E row \in Rows, change \in {-1, 1} : RecordAdjustment(row, change, FALSE)
     \/ \E r \in Reservations :
          \/ \E row \in Rows : CreateReservation(r, row, 1, "never")
          \/ CancelReservation(r)
          \/ FulfillReservation(r)
  /\ UNCHANGED <<transferVars, countVars, purchaseVars>>

OfficeNext == TransferNext \/ CountNext \/ PurchaseNext \/ ShopNext

OfficeSpec == OfficeInit /\ [][OfficeNext]_officeVars

-----------------------------------------------------------------------------
OfficeTypeOK == TypeOK /\ TransfersTypeOK /\ CountsTypeOK /\ PurchasesTypeOK
=============================================================================
