---------------------------- MODULE MCDispatch ----------------------------
(* Instances of Dispatch for TLC. *)
EXTENDS Dispatch, TLC

CONSTANTS small, large, left, right

\* Two lines, of one piece and of two: a line can be complete in one dispatch,
\* in two, or exceeded, while the other is not.
MCLines == {small, large}
MCQuantity == (small :> 1) @@ (large :> 2)

\* calculateQuantity over the lines, as cartToOrder stores it.
MCTotal == FoldFunction(+, 0, MCQuantity)

MCOneDialog == {left}
MCTwoDialogs == {left, right}
=============================================================================
