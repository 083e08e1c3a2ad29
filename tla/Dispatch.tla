------------------------------ MODULE Dispatch ------------------------------
(***************************************************************************)
(* Dispatching one order.  An administrator opens the QuantityUpdate       *)
(* dialog on a line of the order, types how many pieces leave the store    *)
(* and presses Ok; updateDispatchAmount then rewrites the order document   *)
(* with two separate writes, both computed from the copies of the line and *)
(* of the order the dialog was built with.                                 *)
(*                                                                         *)
(* A member of Dialogs is one run of that dialog together with the future  *)
(* it starts.  Cancel stays enabled while the writes are under way, and    *)
(* only hides the dialog: the administrator may then open the next dialog, *)
(* as may any other administrator, which is what a second member of        *)
(* Dialogs stands for.  An order list that lags behind the server is a     *)
(* dialog that was opened earlier; one that shows the device's own write   *)
(* before the server has it is a dialog opened over that write.            *)
(*                                                                         *)
(* The Firestore client sends the writes of a device in order.  It sends a *)
(* write again when the answer was lost, keeps it over a restart of the    *)
(* application, though not in a browser, and holds it back while the       *)
(* administrator who made it is signed out.                                *)
(***************************************************************************)
EXTENDS Firestore, FiniteSets, Folds, Functions

CONSTANTS
    Lines,         \* the OrderModel lines of the order
    Quantity,      \* the quantity ordered of each line
    Total,         \* totalQuantity of the order
    Dialogs,       \* runs of the QuantityUpdate dialog
    Amounts,       \* the numbers an administrator types
    MaxDelivered,  \* bound: no Ok or lost answer that would deliver more
    Faults         \* whether writes are refused, answers lost, applications killed
                   \* and administrators signed out before an answer

ASSUME LinesAssumption == Lines # {} /\ IsFiniteSet(Lines)
ASSUME QuantityAssumption == Quantity \in [Lines -> Nat \ {0}]
ASSUME TotalAssumption == Total \in Nat \ {0}
ASSUME AmountsAssumption == Amounts \subseteq Nat
ASSUME MaxDeliveredAssumption == MaxDelivered \in Nat
ASSUME FaultsAssumption == Faults \in BOOLEAN

VARIABLES
    order,    \* the document ordersCollection.doc(cartId)
    dialog,   \* each dialog: its step and the copies it was opened with
    away,     \* dialogs whose administrator has signed out with a write under way
    shipped,  \* history: pieces of each line whose dispatch was recorded
    dropped,  \* history: lines removed by a dialog that never put them back
    recounted,  \* history: pieces counted again by writes sent again
    misled    \* history: lines of refused writes that a dialog was opened over

vars == <<order, dialog, away, shipped, dropped, recounted, misled>>

----------------------------------------------------------------------------
\* An element of the 'items' array: what of OrderModel.toMap a dispatch
\* changes.  The other fields follow from the line.
Entry == [line : Lines, dispatched : Nat]

OrderStatus == {"pending", "delivered"}

OrderCartModel == [items : SUBSET Entry,
                   deliveredQuantity : Nat,
                   status : OrderStatus]

\* e is widget.e, delivered is widget.m.deliveredQuantity, amount the number
\* typed.  removing and adding: the first or the second write is under way, and
\* has taken effect unanswered if applied.  orphaned: the first write is, and the
\* code that awaited it is gone.  stuck: an exception has left isLoading set and
\* Ok disabled.  over: the dialog whose second write the copies count already,
\* as long as that is under way.
DialogState == [step : {"closed", "open", "removing", "adding", "orphaned", "stuck"},
                e : Entry,
                delivered : Nat,
                amount : Nat,
                applied : BOOLEAN,
                over : SUBSET Dialogs]

\* No dialog: the copies mean nothing.
Closed == [step |-> "closed",
           e |-> [line |-> CHOOSE l \in Lines : TRUE, dispatched |-> 0],
           delivered |-> 0,
           amount |-> 0,
           applied |-> FALSE,
           over |-> {}]

\* Only Cancel is left to press, and the copies are not read any more.
Stuck == [Closed EXCEPT !.step = "stuck"]

TypeOK ==
    /\ order \in OrderCartModel
    /\ dialog \in [Dialogs -> DialogState]
    /\ away \subseteq Dialogs
    /\ shipped \in [Lines -> Nat]
    /\ dropped \subseteq Lines
    /\ recounted \in Nat
    /\ misled \subseteq Lines

\* The order as cartToOrder writes it: nothing dispatched yet.
Init ==
    /\ order = [items |-> [line : Lines, dispatched : {0}],
                deliveredQuantity |-> 0,
                status |-> "pending"]
    /\ dialog = [d \in Dialogs |-> Closed]
    /\ away = {}
    /\ shipped = [l \in Lines |-> 0]
    /\ dropped = {}
    /\ recounted = 0
    /\ misled = {}

----------------------------------------------------------------------------
histories == <<shipped, dropped, recounted, misled>>

\* The dialog for entry e of an order that shows so many pieces delivered.
OpenOn(d, e, delivered, over) ==
    /\ dialog[d].step = "closed"
    /\ e.dispatched # Quantity[e.line]
    /\ dialog' = [dialog EXCEPT ![d] = [step |-> "open", e |-> e,
                                        delivered |-> delivered, amount |-> 0,
                                        applied |-> FALSE, over |-> over]]
    /\ UNCHANGED <<order, away, histories>>

\* Tapping the upload icon, which a fully dispatched line does not have.
Open(d, e) ==
    /\ e \in order.items
    /\ OpenOn(d, e, order.deliveredQuantity, {})

\* Mutant: closing the dialog abandons the second write.
CancelAborts(d) ==
    /\ dialog[d].step \in {"open", "stuck", "adding"}
    /\ dialog' = [dialog EXCEPT ![d] = Closed]
    /\ UNCHANGED <<order, away, histories>>

\* Cancel on a dialog that has no write under way.
Cancel(d) ==
    /\ dialog[d].step \in {"open", "stuck"}
    /\ dialog' = [dialog EXCEPT ![d] = Closed]
    /\ UNCHANGED <<order, away, histories>>

\* Ok with nothing typed: int.parse throws after isLoading was set.
OkEmpty(d) ==
    /\ dialog[d].step = "open"
    /\ dialog' = [dialog EXCEPT ![d] = Stuck]
    /\ UNCHANGED <<order, away, histories>>

\* Ok with a number: updateDispatchAmount issues its first write.  Nothing
\* compares the number with what remains of the line.
Ok(d, n) ==
    /\ dialog[d].step = "open"
    /\ dialog[d].delivered + n <= MaxDelivered
    /\ dialog' = [dialog EXCEPT ![d].step = "removing", ![d].amount = n]
    /\ UNCHANGED <<order, away, histories>>

\* The writes of a device are sent in order, while their administrator is
\* signed in.
Sent(d) == dialog[d].over = {} /\ d \notin away

\* The first write takes effect.  Its answer lets the code add the amount to its
\* copy of the line and issue the second write, if the code is still there.
RemoveLine(d, answered) ==
    /\ dialog[d].step \in {"removing", "orphaned"} /\ Sent(d)
    /\ answered \/ Faults
    /\ order' = [order EXCEPT !.items = ArrayRemove(@, {dialog[d].e})]
    /\ dialog' = [dialog EXCEPT ![d] =
           IF ~answered THEN [@ EXCEPT !.applied = TRUE]
           ELSE IF @.step = "removing"
           THEN [@ EXCEPT !.step = "adding", !.applied = FALSE]
           ELSE Closed]
    /\ dropped' = IF dialog[d].step = "orphaned"
                  THEN dropped \cup {dialog[d].e.line} ELSE dropped
    /\ UNCHANGED <<away, shipped, recounted, misled>>

\* Mutant: the line stores the amount instead of adding it.
DispatchedAmountOnly(d) == [dialog[d].e EXCEPT !.dispatched = dialog[d].amount]

\* Mutant: the line stores what remains of it, which an unchecked amount takes
\* below zero.
DispatchedRemaining(d) ==
    [dialog[d].e EXCEPT !.dispatched = Quantity[dialog[d].e.line] - @ - dialog[d].amount]

\* The line as the second write stores it.
Dispatched(d) == [dialog[d].e EXCEPT !.dispatched = @ + dialog[d].amount]

\* Mutant: the status looks at the line instead of the whole order.
StatusOfLine(d) ==
    IF Quantity[dialog[d].e.line] = dialog[d].e.dispatched + dialog[d].amount
    THEN "delivered" ELSE "pending"

\* Mutant: the amount being dispatched is left out of the comparison.
StatusBefore(d) ==
    IF Total = dialog[d].delivered THEN "delivered" ELSE "pending"

\* The status the second write stores, from the dialog's copy of the order.
StatusAfter(d) ==
    IF Total = dialog[d].delivered + dialog[d].amount
    THEN "delivered" ELSE "pending"

\* The same icon, in a list that shows the second write of dialog c already.
OpenOver(d, c, e) ==
    /\ c # d /\ dialog[c].step = "adding" /\ c \notin away
    /\ e \in ArrayUnion(order.items, {Dispatched(c)})
    /\ OpenOn(d, e, Increment(order.deliveredQuantity, dialog[c].amount), {c})

\* The dialogs when that of d becomes s and nothing of it is under way any more.
Settled(d, s) ==
    [c \in Dialogs |-> IF c = d THEN s ELSE [dialog[c] EXCEPT !.over = @ \ {d}]]

\* The second write takes effect, for the first time or once more.
Count(d, answered) ==
    /\ dialog[d].step = "adding" /\ Sent(d)
    /\ answered \/ (Faults /\ order.deliveredQuantity + dialog[d].amount <= MaxDelivered)
    /\ dialog' = IF answered THEN Settled(d, Closed)
                 ELSE [dialog EXCEPT ![d].applied = TRUE]
    /\ IF dialog[d].applied
       THEN recounted' = recounted + dialog[d].amount /\ UNCHANGED shipped
       ELSE /\ shipped' = [shipped EXCEPT ![dialog[d].e.line] = @ + dialog[d].amount]
            /\ UNCHANGED recounted
    /\ UNCHANGED <<away, dropped, misled>>

\* Mutant: one write first adds the new entry and then removes the old one,
\* which is the same entry when nothing is dispatched.
AddThenRemoveLine(d, answered) ==
    /\ Count(d, answered)
    /\ order' = [items |-> ArrayRemove(ArrayUnion(order.items, {Dispatched(d)}),
                                       {dialog[d].e}),
                 deliveredQuantity |->
                     Increment(order.deliveredQuantity, dialog[d].amount),
                 status |-> StatusAfter(d)]

\* Mutant: the total is written from the dialog's copy and not incremented.
AddLineStaleTotal(d, answered) ==
    /\ Count(d, answered)
    /\ order' = [items |-> ArrayUnion(order.items, {Dispatched(d)}),
                 deliveredQuantity |-> dialog[d].delivered + dialog[d].amount,
                 status |-> StatusAfter(d)]

\* Mutant: the second write stores the items it was given and no others.
AddLineAlone(d, answered) ==
    /\ Count(d, answered)
    /\ order' = [items |-> {Dispatched(d)},
                 deliveredQuantity |->
                     Increment(order.deliveredQuantity, dialog[d].amount),
                 status |-> StatusAfter(d)]

\* The second write takes effect; answered, it closes the dialog.
AddLine(d, answered) ==
    /\ Count(d, answered)
    /\ order' = [items |-> ArrayUnion(order.items, {Dispatched(d)}),
                 deliveredQuantity |->
                     Increment(order.deliveredQuantity, dialog[d].amount),
                 status |-> StatusAfter(d)]

\* Dialog d has taken its line out of the order and not put it back.
Held(d) ==
    \/ dialog[d].step = "removing" /\ dialog[d].applied
    \/ dialog[d].step = "adding" /\ ~dialog[d].applied

\* What is lost when the future of dialog d ends where it is.
DropHeldLine(d) ==
    dropped' = IF Held(d) THEN dropped \cup {dialog[d].e.line} ELSE dropped

\* Mutant: the dialog becomes usable again, with the copy of the line that
\* already counts the refused amount.
RefuseReopens(d) ==
    /\ Faults
    /\ dialog[d].step \in {"removing", "adding"} /\ Sent(d)
    /\ DropHeldLine(d)
    /\ dialog' = Settled(d, [dialog[d] EXCEPT !.step = "open", !.e = Dispatched(d)])
    /\ misled' = IF \E c \in Dialogs : d \in dialog[c].over
                 THEN misled \cup {dialog[d].e.line} ELSE misled
    /\ UNCHANGED <<order, away, shipped, recounted>>

\* The server refuses the write under way: the await throws, updateMethod
\* does not catch it, and isLoading stays set.  A dialog opened over the write
\* keeps its copies.
Refuse(d) ==
    /\ Faults
    /\ dialog[d].step \in {"removing", "adding", "orphaned"} /\ Sent(d)
    /\ DropHeldLine(d)
    /\ dialog' = Settled(d, IF dialog[d].step = "orphaned" THEN Closed ELSE Stuck)
    /\ misled' = IF \E c \in Dialogs : d \in dialog[c].over
                 THEN misled \cup {dialog[d].e.line} ELSE misled
    /\ UNCHANGED <<order, away, shipped, recounted>>

\* The page is reloaded: its writes are not sent again, and the dialog opened
\* over one of them goes with it.
Kill(d) ==
    /\ Faults
    /\ dialog[d].step # "closed"
    /\ DropHeldLine(d)
    /\ dialog' = [c \in Dialogs |->
                     IF c = d \/ d \in dialog[c].over THEN Closed ELSE dialog[c]]
    /\ away' = {c \in away : c # d /\ d \notin dialog[c].over}
    /\ UNCHANGED <<order, shipped, recounted, misled>>

\* The application is killed and the client keeps the first write; it keeps a
\* second one too, which then goes on as if nothing had happened.
KillKept(d) ==
    /\ Faults
    /\ dialog[d].step = "removing"
    /\ DropHeldLine(d)
    /\ dialog' = [dialog EXCEPT ![d].step = "orphaned"]
    /\ UNCHANGED <<order, away, shipped, recounted, misled>>

\* The dialogs of the device of d that are known to be there: the one whose
\* write a dialog was opened over, and those opened over it.
Device(d) ==
    LET first == IF dialog[d].over = {} THEN {d} ELSE dialog[d].over
    IN  {c \in Dialogs : c \in first \/ dialog[c].over \cap first # {}}

\* Logout, once every dialog is closed: writes under way are held back.
SignOut(d) ==
    /\ Faults
    /\ d \notin away
    /\ \A c \in Device(d) : dialog[c].step \in {"removing", "adding", "orphaned"}
    /\ away' = away \cup Device(d)
    /\ UNCHANGED <<order, dialog, histories>>

\* The same administrator logs in on that device again.
SignIn(d) ==
    /\ d \in away
    /\ away' = away \ Device(d)
    /\ UNCHANGED <<order, dialog, histories>>

Next ==
    \E d \in Dialogs :
        \/ \E e \in order.items : Open(d, e)
        \/ \E c \in Dialogs : \E e \in order.items \cup {Dispatched(c)} : OpenOver(d, c, e)
        \/ Cancel(d)
        \/ OkEmpty(d)
        \/ \E n \in Amounts : Ok(d, n)
        \/ \E answered \in BOOLEAN : RemoveLine(d, answered) \/ AddLine(d, answered)
        \/ Refuse(d)
        \/ Kill(d)
        \/ KillKept(d)
        \/ SignOut(d)
        \/ SignIn(d)

Spec == Init /\ [][Next]_vars

\* The server answers the writes it is sent: the client keeps retrying them, for
\* as long as their administrator is signed in.  Nothing obliges an administrator
\* to press anything, nor to sign in again.
FairSpec ==
    /\ Spec
    /\ \A d \in Dialogs : WF_vars(RemoveLine(d, TRUE)) /\ WF_vars(AddLine(d, TRUE))

----------------------------------------------------------------------------
(* Properties for any number of dialogs, with writes refused, sent again   *)
(* and kept, and applications killed.                                      *)

\* An entry of the order never shows more pieces than were dispatched of its
\* line, however the writes of several dialogs interleave, fail and are sent
\* again: the amount that updateDispatchAmount adds to its copy counts only once
\* it is stored.  Only a dialog opened over a write that is then refused counts
\* pieces that never left.
NeverOverstated ==
    \A e \in order.items : e.dispatched <= shipped[e.line] \/ e.line \in misled

\* The status updateDispatchAmount derives from a stale copy of the totals may
\* come late or never, but not from pieces that nobody counted: when an order is
\* marked delivered, the pieces dispatched of its lines, together with those a
\* write sent again has counted a second time, are as many as it asks for, unless
\* a dialog counted refused ones.  So with no answer lost all the pieces have left,
\* and otherwise at most the recounted ones are missing.  Only the sum is compared:
\* too many pieces of one line make up for another.
DeliveredNotPremature ==
    order.status = "delivered"
        => FoldFunction(+, recounted, shipped) >= Total \/ misled # {}

\* Between the two writes the line is in no document.  It is always an entry
\* of the order, or in the hands of a dialog about to put it back, unless a
\* dialog that held it was refused or killed, or only its first write survived.
LineNotLost ==
    \A l \in Lines \ dropped :
        \/ \E e \in order.items : e.line = l
        \/ \E d \in Dialogs : Held(d) /\ dialog[d].e.line = l

\* deliveredQuantity counts the pieces of all the lines, whichever dialogs
\* dispatched them: concurrent increments are not lost.  What a lost answer adds
\* a second time is the only excess.
DeliveredIsLedger ==
    order.deliveredQuantity = FoldFunction(+, recounted, shipped)

\* A line the first write took out of the order returns to it, whatever the
\* other dialogs do, whichever answers are lost and even if its own dialog was
\* closed meanwhile, unless the future that held it was refused or killed.  It
\* is out for as long as the administrator of a dialog that holds it has signed
\* out: the write that would return it is not sent before they are back.
LineReturns ==
    \A l \in Lines :
        (~ \E e \in order.items : e.line = l)
            ~> \/ l \in dropped
               \/ \E e \in order.items : e.line = l
               \/ \E d \in away : Held(d) /\ dialog[d].e.line = l

----------------------------------------------------------------------------
(* Properties of an order that one administrator dispatches, one dialog at *)
(* a time.                                                                 *)

\* The order holds at most one entry for a line, and that entry (or the copy
\* of the dialog that is about to put it back) shows exactly the pieces that
\* were dispatched, also when writes are sent again; only a line dropped between
\* the writes has no entry.
LinesExact ==
    \A l \in Lines :
        LET entries == {e \in order.items : e.line = l}
            held == {dialog[d].e : d \in {c \in Dialogs :
                        Held(c) /\ dialog[c].e.line = l}}
        IN  entries \cup held =
                IF l \in dropped THEN {}
                ELSE {[line |-> l, dispatched |-> shipped[l]]}

\* The stored status agrees with the stored totals after every write, as long as
\* no increment was sent again.
StatusExact ==
    recounted = 0
        => (order.status = "delivered" <=> order.deliveredQuantity = Total)

\* What the order records of a line: its entry, or the copy of it that a dialog
\* is about to put back.  A dropped line keeps the last number it had; -1 is for
\* a line that is nowhere.
Recorded ==
    [l \in Lines |->
        LET held == {d \in Dialogs : Held(d) /\ dialog[d].e.line = l}
        IN  IF \E e \in order.items : e.line = l
            THEN (CHOOSE e \in order.items : e.line = l).dispatched
            ELSE IF held # {} THEN dialog[CHOOSE d \in held : TRUE].e.dispatched
            ELSE IF l \in dropped THEN shipped[l] ELSE -1]

Book == INSTANCE OrderBook
            WITH recorded <- Recorded,
                 delivered <- order.deliveredQuantity,
                 status <- order.status,
                 lost <- dropped

\* To one administrator the two writes are as good as one: each dispatch is a
\* single step of OrderBook, a fault between the writes loses the line, and an
\* answer lost counts the pieces again.
ImplementsOrderBook == Book!Spec

=============================================================================
