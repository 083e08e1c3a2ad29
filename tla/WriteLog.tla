------------------------------ MODULE WriteLog ------------------------------
(***************************************************************************)
(* What the Firestore client promises of the writes of a user: the server  *)
(* takes them one after the other in the order in which they were issued,  *)
(* and answers them in that order.  An answer that gets lost takes the     *)
(* server back to the first write that has no answer, so a write may be    *)
(* applied again, but none is passed over and none is overtaken.           *)
(***************************************************************************)
EXTENDS Integers, Sequences

CONSTANTS Users, Writes

VARIABLES
    accepted,  \* the writes of each user, in the order they were issued
    settled,   \* how many of them are answered and forgotten
    next,      \* how many of them the server has got through
    log        \* the writes the server applied, oldest first

vars == <<accepted, settled, next, log>>

Init ==
    /\ accepted = [u \in Users |-> <<>>]
    /\ settled = [u \in Users |-> 0]
    /\ next = [u \in Users |-> 0]
    /\ log = <<>>

\* A write is issued for user u.
Accept(u, w) ==
    /\ accepted' = [accepted EXCEPT ![u] = Append(@, w)]
    /\ UNCHANGED <<settled, next, log>>

\* The server applies the next write of user u.
Apply(u) ==
    /\ next[u] < Len(accepted[u])
    /\ log' = Append(log, accepted[u][next[u] + 1])
    /\ next' = [next EXCEPT ![u] = @ + 1]
    /\ UNCHANGED <<accepted, settled>>

\* The oldest write the server has applied is answered.
Settle(u) ==
    /\ settled[u] < next[u]
    /\ settled' = [settled EXCEPT ![u] = @ + 1]
    /\ UNCHANGED <<accepted, next, log>>

\* The answers under way are lost.
Rewind(u) ==
    /\ next' = [next EXCEPT ![u] = settled[u]]
    /\ UNCHANGED <<accepted, settled, log>>

\* The oldest unanswered write is refused; answers under way are lost with
\* the stream the refusal ends.
Refuse(u) ==
    /\ settled[u] < Len(accepted[u])
    /\ settled' = [settled EXCEPT ![u] = @ + 1]
    /\ next' = [next EXCEPT ![u] = settled[u] + 1]
    /\ UNCHANGED <<accepted, log>>

Next ==
    \E u \in Users :
        \/ \E w \in Writes : Accept(u, w)
        \/ Apply(u)
        \/ Settle(u)
        \/ Rewind(u)
        \/ Refuse(u)

Spec == Init /\ [][Next]_vars

=============================================================================
