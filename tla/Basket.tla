------------------------------- MODULE Basket -------------------------------
(***************************************************************************)
(* What the cart promises: every customer has a basket; an item added to   *)
(* it stays until the customer buys, and buying moves all of it, at once,  *)
(* into one order that never changes.                                      *)
(***************************************************************************)
EXTENDS Integers

CONSTANTS Users, Items, Ids

VARIABLES
    basket,  \* basket[u]: the items in the basket of customer u
    sales    \* the orders placed: what was bought, by whom, under which id

vars == <<basket, sales>>

Init ==
    /\ basket = [u \in Users |-> {}]
    /\ sales = {}

Add(u, i) ==
    /\ basket' = [basket EXCEPT ![u] = @ \cup {i}]
    /\ UNCHANGED sales

Purchase(u, id) ==
    /\ basket[u] # {}
    /\ \A s \in sales : s.id # id
    /\ sales' = sales \cup {[id |-> id, uid |-> u, items |-> basket[u]]}
    /\ basket' = [basket EXCEPT ![u] = {}]

Next ==
    \E u \in Users :
        \/ \E i \in Items : Add(u, i)
        \/ \E id \in Ids : Purchase(u, id)

Spec == Init /\ [][Next]_vars

=============================================================================
