----------------------------- MODULE MCSession -----------------------------
(* An instance of Session for TLC: an administrator, and two customers who *)
(* wait for every answer or one who does not.                              *)
EXTENDS Session

CONSTANTS ann, bob, root

MCCrowd == [waits \in BOOLEAN |-> IF waits THEN {ann, bob} ELSE {ann}]
=============================================================================
