------------------------------- MODULE MCNDP -------------------------------
(* Instances of NDP for TLC. *)
EXTENDS NDP

CONSTANTS ann, t1, p1, p2
=============================================================================
