----------------------------- MODULE OrderBook -----------------------------
(***************************************************************************)
(* What dispatching promises: a book of one order in which every dispatch  *)
(* of a line is a single step that adds to the line, to the total, and     *)
(* settles the status.  Faults may do two other things: take a line off    *)
(* the order, or add a dispatch to the total once more.                    *)
(***************************************************************************)
EXTENDS Integers

CONSTANTS Lines, Quantity, Total, Amounts, Faults

VARIABLES
    recorded,   \* pieces of each line recorded as dispatched
    delivered,  \* pieces dispatched in all
    status,     \* "pending" or "delivered"
    lost        \* lines that are on the order no more

vars == <<recorded, delivered, status, lost>>

Init ==
    /\ recorded = [l \in Lines |-> 0]
    /\ delivered = 0
    /\ status = "pending"
    /\ lost = {}

\* An incomplete line receives n pieces.
Ship(l, n) ==
    /\ l \notin lost
    /\ recorded[l] # Quantity[l]
    /\ recorded' = [recorded EXCEPT ![l] = @ + n]
    /\ delivered' = delivered + n
    /\ status' = IF delivered' = Total THEN "delivered" ELSE "pending"
    /\ UNCHANGED lost

\* An incomplete line is taken off the order.
Lose(l) ==
    /\ Faults
    /\ recorded[l] # Quantity[l]
    /\ lost' = lost \cup {l}
    /\ UNCHANGED <<recorded, delivered, status>>

\* A dispatch of n pieces is added to the total again.
Recount(n) ==
    /\ Faults
    /\ delivered' = delivered + n
    /\ UNCHANGED <<recorded, status, lost>>

Next ==
    \/ \E l \in Lines : Lose(l) \/ \E n \in Amounts : Ship(l, n)
    \/ \E n \in Amounts : Recount(n)

Spec == Init /\ [][Next]_vars

=============================================================================
