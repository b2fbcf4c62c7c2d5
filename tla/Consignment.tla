----------------------------- MODULE Consignment -----------------------------
(***************************************************************************)
(* What a transfer of stock promises, whatever it does to the balances:    *)
(* goods go under way once, to the place their consignment names, and      *)
(* settle there once; until then the place knows what is under way to it.  *)
(* Transfers.tla implements it.                                            *)
(***************************************************************************)
EXTENDS Naturals

CONSTANTS
  Consignments,  \* the consignments
  Places,        \* where goods are
  Nowhere,       \* the place of a consignment that nobody has addressed
  MaxLoad        \* the largest load

VARIABLES
  phase,  \* "planned", then "under way" and "settled", or "off"
  place,  \* the place it is addressed to
  load,   \* what it was sent off with
  away    \* what each place knows to be under way to it

vars == <<phase, place, load, away>>

Init ==
  /\ phase = [c \in Consignments |-> "planned"]
  /\ place = [c \in Consignments |-> Nowhere]
  /\ load  = [c \in Consignments |-> 0]
  /\ away  = [x \in Places |-> 0]

Address(c, x) ==
  /\ place[c] = Nowhere
  /\ place' = [place EXCEPT ![c] = x]
  /\ UNCHANGED <<phase, load, away>>

Ship(c, q) ==
  /\ phase[c] = "planned"
  /\ place[c] \in Places
  /\ phase' = [phase EXCEPT ![c] = "under way"]
  /\ load'  = [load EXCEPT ![c] = q]
  /\ away'  = [away EXCEPT ![place[c]] = @ + q]
  /\ UNCHANGED place

Settle(c) ==
  /\ phase[c] = "under way"
  /\ phase' = [phase EXCEPT ![c] = "settled"]
  /\ away'  = [away EXCEPT ![place[c]] = @ - load[c]]
  /\ UNCHANGED <<place, load>>

CallOff(c) ==
  /\ phase[c] = "planned"
  /\ phase' = [phase EXCEPT ![c] = "off"]
  /\ UNCHANGED <<place, load, away>>

Next ==
  \E c \in Consignments :
    \/ \E x \in Places : Address(c, x)
    \/ \E q \in 1 .. MaxLoad : Ship(c, q)
    \/ Settle(c)
    \/ CallOff(c)

Spec == Init /\ [][Next]_vars
=============================================================================
