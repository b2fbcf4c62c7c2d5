------------------------------ MODULE Transfers ------------------------------
(***************************************************************************)
(* Transfers of stock between the locations of an organization, as the     *)
(* transfer service makes them over the balances of Inventory.tla.  Every  *)
(* operation is one transaction that locks the transfer before it looks at *)
(* its status.  A transfer here has one item (the code repeats what it     *)
(* does for each): it moves a variant from one balance row to another.     *)
(***************************************************************************)
EXTENDS Inventory

CONSTANTS Transfers  \* transfers: one per idempotency key of createTransfer

ASSUME TransfersAssumption == IsFiniteSet(Transfers)

VARIABLES
  inTransit,     \* inventory_balances.in_transit
  transfer,      \* inventory_transfers.status, "NONE" before the insert
  source,        \* the balance row it takes stock from
  destination,   \* the balance row it takes stock to
  approved,      \* approved_quantity
  dispatched,    \* dispatched_quantity
  received,      \* received_quantity
  transferMoved  \* the sum of the TRANSFER_OUT and TRANSFER_IN movements

routeVars    == <<source, destination>>
transferVars == <<inTransit, transfer, routeVars, approved, dispatched, received,
                  transferMoved>>

-----------------------------------------------------------------------------
Stages == {"NONE", "DRAFT", "REQUESTED", "APPROVED", "DISPATCHED", "IN_TRANSIT",
           "COMPLETED", "REJECTED", "CANCELLED"}

UnderWay == {"DISPATCHED", "IN_TRANSIT"}

AtStage(S) == {t \in Transfers : transfer[t] \in S}

\* VALID_TRANSFER_TRANSITIONS, and where each operation takes a transfer.
MayMove(t, stage) ==
  transfer[t] \in CASE stage = "REQUESTED"  -> {"DRAFT"}
                    [] stage = "APPROVED"   -> {"REQUESTED"}
                    [] stage = "REJECTED"   -> {"REQUESTED"}
                    [] stage = "CANCELLED"  -> {"DRAFT", "REQUESTED", "APPROVED"}
                    [] stage = "DISPATCHED" -> {"APPROVED"}
                    [] stage = "IN_TRANSIT" -> {"DISPATCHED"}
                    [] stage = "COMPLETED"  -> UnderWay

Move(t, stage) ==
  /\ MayMove(t, stage)
  /\ transfer' = [transfer EXCEPT ![t] = stage]

\* A movement of q units on one row.
On(row, q) == [r \in Rows |-> IF r = row THEN q ELSE 0]

\* The movement that a transfer makes on one of its rows.
PostTransfer(row, q) ==
  /\ Post(On(row, q))
  /\ transferMoved' = [transferMoved EXCEPT ![row] = @ + q]

TransfersInit ==
  /\ inTransit     = [row \in Rows |-> 0]
  /\ transfer      = [t \in Transfers |-> "NONE"]
  /\ source        = [t \in Transfers |-> NoRow]
  /\ destination   = [t \in Transfers |-> NoRow]
  /\ approved      = [t \in Transfers |-> 0]
  /\ dispatched    = [t \in Transfers |-> 0]
  /\ received      = [t \in Transfers |-> 0]
  /\ transferMoved = [row \in Rows |-> 0]

\* createTransfer.  The rows differ in their location and are of one variant.
CreateTransfer(t, from, to, q, stage) ==
  /\ transfer[t] = "NONE"
  /\ from # to
  /\ transfer'    = [transfer EXCEPT ![t] = stage]
  /\ source'      = [source EXCEPT ![t] = from]
  /\ destination' = [destination EXCEPT ![t] = to]
  /\ approved'    = [approved EXCEPT ![t] = q]
  /\ UNCHANGED <<vars, inTransit, dispatched, received, transferMoved>>

\* requestTransfer, markInTransit, rejectTransfer, cancelTransfer
ChangeStage(t, stage) ==
  /\ Move(t, stage)
  /\ UNCHANGED <<vars, inTransit, routeVars, approved, dispatched, received,
                 transferMoved>>

\* approveTransfer, which may change the quantity.
ApproveTransfer(t, q) ==
  /\ Move(t, "APPROVED")
  /\ approved' = [approved EXCEPT ![t] = q]
  /\ UNCHANGED <<vars, inTransit, routeVars, dispatched, received, transferMoved>>

\* What dispatchTransfer changes.
SendOff(t, q) ==
  /\ q \in 1 .. approved[t]
  /\ q <= Available(source[t])
  /\ PostTransfer(source[t], -q)
  /\ transfer'   = [transfer EXCEPT ![t] = "DISPATCHED"]
  /\ dispatched' = [dispatched EXCEPT ![t] = q]
  /\ inTransit'  = [inTransit EXCEPT ![destination[t]] = @ + q]
  /\ UNCHANGED <<routeVars, approved, received>>

\* A faulty variant, for ConsignmentSpec and TransfersAddUp: a dispatch that is
\* sent again while the goods are under way dispatches them again.
DispatchAgain(t, q) ==
  /\ transfer[t] \in UnderWay \cup {"APPROVED"}
  /\ SendOff(t, q)

\* dispatchTransfer.  One that is under way is returned as it is.
DispatchTransfer(t, q) == MayMove(t, "DISPATCHED") /\ SendOff(t, q)

\* A faulty variant, for OfficeTypeOK: in_transit goes down by what came.
ReceiveWhatCame(t, q) ==
  /\ Move(t, "COMPLETED")
  /\ IF q > 0 THEN PostTransfer(destination[t], q)
              ELSE UNCHANGED <<vars, transferMoved>>
  /\ received'  = [received EXCEPT ![t] = q]
  /\ inTransit' = [inTransit EXCEPT ![destination[t]] = @ - q]
  /\ UNCHANGED <<routeVars, approved, dispatched>>

\* receiveTransfer, at once for the whole transfer.  It may bring less than was
\* sent or, with an authorization, more.
ReceiveTransfer(t, q) ==
  /\ Move(t, "COMPLETED")
  /\ dispatched[t] <= inTransit[destination[t]]
  /\ IF q > 0 THEN PostTransfer(destination[t], q)
              ELSE UNCHANGED <<vars, transferMoved>>
  /\ received'  = [received EXCEPT ![t] = q]
  /\ inTransit' = [inTransit EXCEPT ![destination[t]] = @ - dispatched[t]]
  /\ UNCHANGED <<routeVars, approved, dispatched>>

TransferCreated(t) ==
  \E from \in Rows, to \in Rows, q \in 0 .. MaxQuantity :
    \E stage \in {"DRAFT", "REQUESTED"} : CreateTransfer(t, from, to, q, stage)

TransferMoves(t) ==
  \/ \E stage \in {"REQUESTED", "IN_TRANSIT", "REJECTED", "CANCELLED"} :
       ChangeStage(t, stage)
  \/ \E q \in 0 .. MaxQuantity :
       \/ ApproveTransfer(t, q)
       \/ DispatchTransfer(t, q)
       \/ ReceiveTransfer(t, q)

-----------------------------------------------------------------------------
TransfersTypeOK ==
  /\ inTransit     \in [Rows -> Nat]
  /\ transfer      \in [Transfers -> Stages]
  /\ source        \in [Transfers -> Rows \cup {NoRow}]
  /\ destination   \in [Transfers -> Rows \cup {NoRow}]
  /\ approved      \in [Transfers -> 0 .. MaxQuantity]
  /\ dispatched    \in [Transfers -> 0 .. MaxQuantity]
  /\ received      \in [Transfers -> 0 .. MaxQuantity]
  /\ transferMoved \in [Rows -> Int]

\* Whatever is dispatched, received short or over, cancelled or retried, and
\* however many transfers go to one row: its in_transit column is what the
\* transfers under way to it carry, and the ledger shows what each transfer
\* took and brought exactly once.
TransfersAddUp ==
  \A row \in Rows :
    /\ inTransit[row] = Total(AtStage(UnderWay), destination, dispatched, row)
    /\ transferMoved[row] =
         Total(AtStage({"COMPLETED"}), destination, received, row)
           - Total(AtStage(UnderWay \cup {"COMPLETED"}), source, dispatched, row)

Phase(t) ==
  CASE transfer[t] \in UnderWay                  -> "under way"
    [] transfer[t] = "COMPLETED"                 -> "settled"
    [] transfer[t] \in {"REJECTED", "CANCELLED"} -> "off"
    [] OTHER                                     -> "planned"

\* A transfer is a consignment, and in_transit is what its destination knows.
Goods == INSTANCE Consignment WITH
  Consignments <- Transfers, Places <- Rows, Nowhere <- NoRow, MaxLoad <- MaxQuantity,
  phase <- [t \in Transfers |-> Phase(t)], place <- destination,
  load <- dispatched, away <- inTransit

\* Among everything else that happens to the stock, each step of a transfer is
\* one of its consignment: sent off once, settled once, called off only before.
ConsignmentSpec == Goods!Spec
=============================================================================
