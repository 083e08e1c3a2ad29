-------------------------- MODULE MCWritePipeline --------------------------
(***************************************************************************)
(* WritePipeline for TLC.                                                  *)
(***************************************************************************)
EXTENDS WritePipeline, TLC

\* The users of the device are interchangeable.
UserSymmetry == Permutations(Users)

=============================================================================
