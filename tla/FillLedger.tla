----------------------------- MODULE FillLedger -----------------------------
(***************************************************************************)
(* What order settlement promises, with no sessions and no holdings: the   *)
(* exchange fills orders, and the program writes each filled share into    *)
(* the transaction table exactly once, possibly late and possibly in       *)
(* several portions.  "filled" is the exchange's count of an order,        *)
(* "booked" the total quantity of the transactions written for it.         *)
(***************************************************************************)
EXTENDS Naturals

CONSTANTS Orders, Qty

VARIABLES filled, booked

vars == <<filled, booked>>

Init ==
    /\ filled = [o \in Orders |-> 0]
    /\ booked = [o \in Orders |-> 0]

\* The exchange fills part of an order, never more than was ordered.
Fill(o) ==
    /\ filled[o] < Qty[o]
    /\ filled' = [filled EXCEPT ![o] = @ + 1]
    /\ UNCHANGED booked

\* One commit of the program advances any number of orders, each to some
\* count between what was booked and what the exchange has filled.
Book ==
    /\ booked' \in [Orders -> Nat]
    /\ \A o \in Orders : booked[o] <= booked'[o] /\ booked'[o] <= filled[o]
    /\ UNCHANGED filled

Next == Book \/ \E o \in Orders : Fill(o)

Spec == Init /\ [][Next]_vars
=============================================================================
