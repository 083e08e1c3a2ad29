----------------------------- MODULE MCProducts -----------------------------
(* Instances of Products for TLC: customers, details and prices are        *)
(* interchangeable; of two editors, one overlaps calls and one does not.   *)
EXTENDS Products, TLC

CONSTANTS e1, e2, ann, bob, v1, v2, p1, p2

Symmetry ==
    Permutations(Customers) \cup Permutations(Details)
        \cup Permutations(Prices)

MCCalls == [e \in Editors |-> IF e = e1 THEN 2 ELSE 1]
MCOneCall == [e \in Editors |-> 1]
=============================================================================
