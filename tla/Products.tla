------------------------------ MODULE Products ------------------------------
(***************************************************************************)
(* The catalogue as administrators edit it: the list page with its import, *)
(* the edit page, which works on a copy of the product it was opened with, *)
(* and the dialogs for the details of a product and for the special price  *)
(* of a customer.                                                          *)
(*                                                                         *)
(* A device sends its calls in the order they are issued; a call takes     *)
(* effect in the step that also runs the code awaiting it, as far as the   *)
(* dialog, page or application that code belongs to is still there.  A     *)
(* dialog that was closed is still there while it leaves the screen: its   *)
(* context is mounted, and pop then takes away whatever lies on top.  The  *)
(* Firestore client sends a write again when the answer was lost, and      *)
(* keeps it over a restart of the application, though not in a browser.    *)
(***************************************************************************)
EXTENDS Naturals, Sequences, SequencesExt

CONSTANTS
    Editors,     \* devices administrators work on
    Customers,   \* customers that may have a special price
    Details,     \* code, material, quantity and price, as filled in
    Blank,       \* the details of a form that is not completely filled in
    Prices,      \* special prices
    NoPrice,     \* no special price: a null or missing entry of specialUsers
    MaxTime,     \* bound: readings of the clock, hence ids
    MaxRows,     \* bound: the rows of a sheet
    MaxCalls,    \* bound: calls a device has under way when a button is pressed
    Patience     \* whether administrators may be patient, hurried, or both

ASSUME BlankAssumption == Blank \notin Details
ASSUME NoPriceAssumption == NoPrice \notin Prices
ASSUME BoundsAssumption ==
    {MaxTime, MaxRows} \subseteq Nat /\ MaxCalls \in [Editors -> Nat]
ASSUME PatienceAssumption == Patience \subseteq BOOLEAN

VARIABLES
    products,  \* the documents of productsCollection
    clock,     \* the last reading of the clock that became an id
    page,      \* the page of each editor, with the product it shows
    dialog,    \* the dialog on top of it
    leaving,   \* the form closed last, on its way out with calls under way
    alert,     \* whether an alert covers everything: of an import or a swiped card
    rows,      \* the ids of the rows that an import has still to store
    calls,     \* the calls of each editor under way
    patient,   \* whether nothing is pressed or typed while a call is under way
    gone,      \* history: documents that were deleted
    inDoubt,   \* history: documents created by a write whose answer was lost
    toasts     \* history: the ids that were reported as deleted

vars == <<products, clock, page, dialog, leaving, alert, rows, calls, patient,
          gone, inDoubt, toasts>>
stored == <<products, gone, inDoubt, toasts>>

----------------------------------------------------------------------------
Time == 1 .. MaxTime

\* A document is named by the id of its product, except that add names those of
\* an import.  Everything else looks for a product under its id.
Doc == [auto : BOOLEAN, n : Time]
DocOf(n) == [auto |-> FALSE, n |-> n]

Special == [Customers -> Prices \cup {NoPrice}]
NoSpecial == [c \in Customers |-> NoPrice]

ProductModel == [id : Time, details : Details \cup {Blank}, specialUsers : Special]
NewProduct(n, v) == [id |-> n, details |-> v, specialUsers |-> NoSpecial]

\* The list, or the edit page with its productModel and the customers whose cards
\* were swiped away since it was read; doc is history, the document the page was
\* opened for.
Page == {<<>>} \cup [model : ProductModel, swiped : SUBSET Customers, doc : Doc]
List == <<>>
Editing(e) == page[e] # List

\* NewItemDialog, for a new product or an update, or the dialog of updatePrice.
\* own: copyOf is still the object that the page has.  stuck: code of the dialog
\* that set loading has ended and left it so.
Dialog ==
    {<<>>}
    \cup [kind : {"new", "update"}, text : Details \cup {Blank},
          loading : BOOLEAN, own : BOOLEAN, stuck : BOOLEAN]
    \cup [kind : {"price"}, customer : Customers, loading : BOOLEAN, stuck : BOOLEAN]
NoDialog == <<>>

\* What is left of the dialog of an update while it leaves the screen.
Form == {<<>>} \cup [text : Details \cup {Blank}, own : BOOLEAN]
NoForm == <<>>
FormOf(dlg) == IF dlg # NoDialog /\ dlg.kind = "update"
               THEN [text |-> dlg.text, own |-> dlg.own] ELSE NoForm

Shows(e, kinds) == dialog[e] # NoDialog /\ dialog[e].kind \in kinds

\* What of the code that made a call may still be there.
Parts == {"dialog", "leaving", "page", "app"}

\* A call for the product n; dismiss is the price call of a swiped card.
Call ==
    [call : {"set", "update"}, n : Time, details : Details, mounted : SUBSET Parts]
    \cup [call : {"price", "dismiss"}, n : Time, customer : Customers,
          price : Prices \cup {NoPrice}, mounted : SUBSET Parts]
    \cup [call : {"get", "delete", "add"}, n : Time, mounted : SUBSET Parts]

TypeOK ==
    /\ DOMAIN products \subseteq Doc
    /\ products \in [DOMAIN products -> ProductModel]
    /\ clock \in 0 .. MaxTime
    /\ page \in [Editors -> Page]
    /\ dialog \in [Editors -> Dialog]
    /\ leaving \in [Editors -> Form]
    /\ rows \in [Editors -> Seq(Time)]
    /\ calls \in [Editors -> Seq(Call)]
    /\ alert \in [Editors -> BOOLEAN]
    /\ patient \in BOOLEAN
    /\ gone \subseteq Doc /\ inDoubt \subseteq Doc
    /\ toasts \subseteq Time

Init ==
    /\ products = [d \in {} |-> Blank]
    /\ clock = 0
    /\ page = [e \in Editors |-> List]
    /\ dialog = [e \in Editors |-> NoDialog]
    /\ leaving = [e \in Editors |-> NoForm]
    /\ alert = [e \in Editors |-> FALSE]
    /\ rows = [e \in Editors |-> <<>>]
    /\ calls = [e \in Editors |-> <<>>]
    /\ patient \in Patience
    /\ gone = {} /\ inDoubt = {}
    /\ toasts = {}

----------------------------------------------------------------------------
Put(docs, d, p) == [x \in DOMAIN docs \cup {d} |-> IF x = d THEN p ELSE docs[x]]

\* The documents once a call has taken effect: set replaces a document, update
\* needs one, delete does not.
After(docs, c) ==
    CASE c.call = "set" -> Put(docs, DocOf(c.n), NewProduct(c.n, c.details))
      [] c.call = "add" -> Put(docs, [auto |-> TRUE, n |-> c.n], NewProduct(c.n, Blank))
      [] c.call = "delete" -> Restrict(docs, DOMAIN docs \ {DocOf(c.n)})
      [] c.call = "update" /\ DocOf(c.n) \in DOMAIN docs ->
            [docs EXCEPT ![DocOf(c.n)].details = c.details]
      [] c.call \in {"price", "dismiss"} /\ DocOf(c.n) \in DOMAIN docs ->
            [docs EXCEPT ![DocOf(c.n)].specialUsers[c.customer] = c.price]
      [] OTHER -> docs

Effect(c) ==
    /\ products' = After(products, c)
    /\ gone' = gone \cup (DOMAIN products \ DOMAIN products')

\* The documents as editor e reads them: with the writes made there.
View(e) == FoldLeft(After, products, calls[e])

\* What a call made now belongs to.
Mounted(e) ==
    {"app"} \cup (IF Editing(e) THEN {"page"} ELSE {})
            \cup (IF dialog[e] # NoDialog THEN {"dialog"} ELSE {})

\* The calls of a device once parts of what made them are gone.
Unmount(q, parts) == [i \in DOMAIN q |-> [q[i] EXCEPT !.mounted = @ \ parts]]

\* The same when the dialog on top is closed: those it has made are of a dialog on
\* its way out.  By then one that was closed before has left the screen.
Closing(q) ==
    [i \in DOMAIN q |-> [q[i] EXCEPT !.mounted =
        (@ \ {"dialog", "leaving"}) \cup (IF "dialog" \in @ THEN {"leaving"} ELSE {})]]

\* The dialog on top is closed, with the calls q under way.
CloseDialog(e, q) ==
    /\ dialog' = [dialog EXCEPT ![e] = NoDialog]
    /\ leaving' = [leaving EXCEPT ![e] = IF \E i \in DOMAIN q : "dialog" \in q[i].mounted
                                        THEN FormOf(dialog[e]) ELSE NoForm]
    /\ calls' = [calls EXCEPT ![e] = Closing(q)]

\* context.pop: whatever lies on top goes, an alert, a dialog or the edit page,
\* and the list stays.  Before that the code that pops may have changed the model
\* of the page and its own dialog, and left the calls q.
Pop(e, pages, dialogs, q) ==
    \/ /\ alert[e]
       /\ alert' = [alert EXCEPT ![e] = FALSE]
       /\ page' = pages /\ dialog' = dialogs
       /\ calls' = [calls EXCEPT ![e] = q]
       /\ UNCHANGED leaving
    \/ /\ ~alert[e] /\ dialog[e] # NoDialog
       /\ CloseDialog(e, q)
       /\ page' = pages
       /\ UNCHANGED alert
    \/ /\ ~alert[e] /\ dialog[e] = NoDialog
       /\ page' = [pages EXCEPT ![e] = List]
       /\ calls' = [calls EXCEPT ![e] = Unmount(q, {"page"})]
       /\ UNCHANGED <<alert, dialog, leaving>>

\* A press is possible: no alert covers the page, and a patient administrator
\* waits for the answers.
Ready(e) ==
    /\ ~alert[e]
    /\ patient => calls[e] = <<>>
    /\ Len(calls[e]) < MaxCalls[e]

\* Nothing lies on top of the page.
Free(e) == Ready(e) /\ dialog[e] = NoDialog

Send(e, c) == calls' = [calls EXCEPT ![e] = Append(@, c)]
Leave(e) == page' = [page EXCEPT ![e] = List]
Show(e, dlg) == dialog' = [dialog EXCEPT ![e] = dlg]

----------------------------------------------------------------------------
(* The pages.                                                              *)

\* A tap on a product of the list.
OpenProduct(e, d) ==
    /\ Free(e) /\ ~Editing(e)
    /\ page' = [page EXCEPT ![e] = [model |-> View(e)[d], swiped |-> {}, doc |-> d]]
    /\ UNCHANGED <<stored, clock, dialog, leaving, alert, rows, calls>>

Back(e) ==
    /\ Free(e) /\ Editing(e)
    /\ Leave(e)
    /\ calls' = [calls EXCEPT ![e] = Unmount(@, {"page"})]
    /\ UNCHANGED <<stored, clock, dialog, leaving, alert, rows>>

\* Refresh, from the menu or by pulling: reloadProduct.
Refresh(e) ==
    /\ Free(e) /\ Editing(e)
    /\ Send(e, [call |-> "get", n |-> page[e].model.id, mounted |-> Mounted(e)])
    /\ UNCHANGED <<stored, clock, page, dialog, leaving, alert, rows>>

\* Delete, confirmed: dialog and page are popped before the call is made.
Delete(e) ==
    /\ Free(e) /\ Editing(e)
    /\ Leave(e)
    /\ calls' = [calls EXCEPT ![e] =
                    Append(Unmount(@, {"page"}),
                           [call |-> "delete", n |-> page[e].model.id, mounted |-> {"app"}])]
    /\ UNCHANGED <<stored, clock, dialog, leaving, alert, rows>>

\* The client keeps writes, and no reads.
Keep(kept, c) == IF c.call = "get" THEN kept ELSE Append(kept, c)

\* The application ends and starts again.  The client keeps the writes that are
\* not answered, and nobody awaits them any more; a browser does not.
Restart(e, kept) ==
    /\ Leave(e)
    /\ Show(e, NoDialog)
    /\ leaving' = [leaving EXCEPT ![e] = NoForm]
    /\ alert' = [alert EXCEPT ![e] = FALSE]
    /\ rows' = [rows EXCEPT ![e] = <<>>]
    /\ calls' = [calls EXCEPT ![e] =
                    IF kept THEN Unmount(FoldLeft(Keep, <<>>, @), Parts) ELSE <<>>]
    /\ UNCHANGED <<stored, clock>>

----------------------------------------------------------------------------
(* The dialog for the details.                                             *)

\* The button of the list, or Duplicate: the form of a new product.
AddNewItem(e) ==
    /\ Free(e)
    /\ Show(e, [kind |-> "new", loading |-> FALSE, own |-> FALSE, stuck |-> FALSE,
                text |-> IF Editing(e) THEN page[e].model.details ELSE Blank])
    /\ UNCHANGED <<stored, clock, page, leaving, alert, rows, calls>>

UpdateItem(e) ==
    /\ Free(e) /\ Editing(e)
    /\ Show(e, [kind |-> "update", loading |-> FALSE, own |-> TRUE, stuck |-> FALSE,
                text |-> page[e].model.details])
    /\ UNCHANGED <<stored, clock, page, leaving, alert, rows, calls>>

\* The fields can be edited and emptied at any time, also while a call is under
\* way.
Type(e, v) ==
    /\ Ready(e) /\ Shows(e, {"new", "update"})
    /\ dialog' = [dialog EXCEPT ![e].text = v]
    /\ UNCHANGED <<stored, clock, page, leaving, alert, rows, calls>>

\* Mutant: the fields are not looked at.
DoneUnchecked(e) ==
    /\ Ready(e) /\ Shows(e, {"new", "update"})
    /\ dialog' = [dialog EXCEPT ![e].loading = TRUE]
    /\ LET send(c, id) == Send(e, [call |-> c, n |-> id, details |-> dialog[e].text,
                                   mounted |-> Mounted(e)])
       IN IF dialog[e].kind = "update"
          THEN send("update", page[e].model.id) /\ UNCHANGED clock
          ELSE clock < MaxTime /\ clock' = clock + 1 /\ send("set", clock')
    /\ UNCHANGED <<stored, page, leaving, alert, rows>>

\* Done, or Update: not disabled while a call is under way.
Done(e) ==
    /\ Ready(e) /\ Shows(e, {"new", "update"}) /\ dialog[e].text # Blank
    /\ dialog' = [dialog EXCEPT ![e].loading = TRUE]
    /\ LET send(c, id) == Send(e, [call |-> c, n |-> id, details |-> dialog[e].text,
                                   mounted |-> Mounted(e)])
       IN IF dialog[e].kind = "update"
          THEN send("update", page[e].model.id) /\ UNCHANGED clock
          ELSE clock < MaxTime /\ clock' = clock + 1 /\ send("set", clock')
    /\ UNCHANGED <<stored, page, leaving, alert, rows>>

\* Cancel, of any dialog, or the system's way back, which also leaves one that is
\* loading.
Cancel(e) ==
    /\ Ready(e) /\ dialog[e] # NoDialog
    /\ CloseDialog(e, calls[e])
    /\ UNCHANGED <<stored, clock, page, alert, rows>>

\* A closed dialog has left the screen.
Left(e) ==
    /\ \E c \in ToSet(calls[e]) : "leaving" \in c.mounted
    /\ leaving' = [leaving EXCEPT ![e] = NoForm]
    /\ calls' = [calls EXCEPT ![e] = Unmount(@, {"leaving"})]
    /\ UNCHANGED <<stored, clock, page, dialog, alert, rows>>

----------------------------------------------------------------------------
(* Special prices.                                                         *)

\* A customer chosen in addNewUser, or edit on the card of a customer.
AskPrice(e, c) ==
    /\ Free(e) /\ Editing(e)
    /\ Show(e, [kind |-> "price", customer |-> c, loading |-> FALSE, stuck |-> FALSE])
    /\ UNCHANGED <<stored, clock, page, leaving, alert, rows, calls>>

SetSpecialPrice(e, call, c, p) ==
    Send(e, [call |-> call, n |-> page[e].model.id, customer |-> c,
             price |-> p, mounted |-> Mounted(e)])

OkPrice(e, p) ==
    /\ Ready(e) /\ Shows(e, {"price"}) /\ ~dialog[e].loading
    /\ dialog' = [dialog EXCEPT ![e].loading = TRUE]
    /\ SetSpecialPrice(e, "price", dialog[e].customer, p)
    /\ UNCHANGED <<stored, clock, page, leaving, alert, rows>>

\* int.parse of an emptied field throws, after isLoading was set.
OkPriceEmpty(e) ==
    /\ Ready(e) /\ Shows(e, {"price"}) /\ ~dialog[e].loading
    /\ dialog' = [dialog EXCEPT ![e].loading = TRUE, ![e].stuck = TRUE]
    /\ UNCHANGED <<stored, clock, page, leaving, alert, rows, calls>>

\* A card is swiped away: it disappears at once, and nothing is reloaded, so that
\* productModel goes on having the price.
Dismiss(e, c) ==
    /\ Free(e) /\ Editing(e)
    /\ page[e].model.specialUsers[c] # NoPrice /\ c \notin page[e].swiped
    /\ page' = [page EXCEPT ![e].swiped = @ \cup {c}]
    /\ SetSpecialPrice(e, "dismiss", c, NoPrice)
    /\ UNCHANGED <<stored, clock, dialog, leaving, alert, rows>>

----------------------------------------------------------------------------
(* The import.                                                             *)

AddRow(n) == [call |-> "add", n |-> n, mounted |-> {"app"}]

\* A sheet of k rows is picked.  The readings of the clock that will name its
\* products are set aside here; only that they differ from all others matters.
Import(e, k) ==
    /\ Free(e) /\ ~Editing(e) /\ rows[e] = <<>>
    /\ clock + k <= MaxTime
    /\ clock' = clock + k
    /\ alert' = [alert EXCEPT ![e] = TRUE]
    /\ rows' = [rows EXCEPT ![e] = [i \in 1 .. k |-> clock + i]]
    /\ Send(e, AddRow(clock + 1))
    /\ UNCHANGED <<stored, page, dialog, leaving>>

\* No sheet is picked: the alert is left behind.
CancelPick(e) ==
    /\ Free(e) /\ ~Editing(e)
    /\ alert' = [alert EXCEPT ![e] = TRUE]
    /\ UNCHANGED <<stored, clock, page, dialog, leaving, rows, calls>>

\* The alert can be tapped away, with or without an import behind it.
DismissAlert(e) ==
    /\ alert[e]
    /\ alert' = [alert EXCEPT ![e] = FALSE]
    /\ UNCHANGED <<stored, clock, page, dialog, leaving, rows, calls>>

----------------------------------------------------------------------------
(* Answers.                                                                *)

\* The dialogs once the code of the call has ended: a price and an update have
\* stopped loading, a new product goes on.
Ended(e, c) ==
    IF "dialog" \notin c.mounted THEN dialog
    ELSE IF c.call = "set" THEN [dialog EXCEPT ![e].stuck = TRUE]
    ELSE [dialog EXCEPT ![e].loading = FALSE]

\* The code of the call pops if its context is mounted: pages are the pages by now,
\* more the calls that it has made.
Close(e, c, pages, more) ==
    LET q == Tail(calls[e]) \o more
    IN  IF c.mounted \cap {"dialog", "leaving"} # {}
        THEN Pop(e, pages, Ended(e, c), q)
        ELSE /\ calls' = [calls EXCEPT ![e] = q]
             /\ page' = pages
             /\ UNCHANGED <<dialog, leaving, alert>>

\* A new product is stored.
Created(e, c) ==
    /\ c.call = "set"
    /\ Effect(c)
    /\ Close(e, c, page, <<>>)
    /\ UNCHANGED <<clock, rows, inDoubt, toasts>>

\* The form that an update was made from, while it is there.
FormFor(e, c) ==
    IF "dialog" \in c.mounted THEN FormOf(dialog[e])
    ELSE IF "leaving" \in c.mounted THEN leaving[e] ELSE NoForm

\* What the fields hold by now goes into copyOf.
CopyBack(e, c) ==
    IF FormFor(e, c) # NoForm /\ "page" \in c.mounted /\ FormFor(e, c).own
    THEN [page EXCEPT ![e].model.details = FormFor(e, c).text] ELSE page

\* Mutant: the dialog is to stop loading after the fields are copied.
EndUpdateLate(e, c) ==
    \/ /\ FormFor(e, c) # NoForm /\ FormFor(e, c).text = Blank
       /\ page' = CopyBack(e, c)
       /\ calls' = [calls EXCEPT ![e] = Tail(@)]
       /\ UNCHANGED <<dialog, leaving, alert>>
    \/ Close(e, c, CopyBack(e, c), <<>>)

\* Mutant: the object that the page has is not brought up to date.
EndUpdateUnseen(e, c) == Close(e, c, page, <<>>)

\* The end of an update: its dialog stops loading, the fields are copied and it is
\* closed.  An emptied quantity or price throws before that.
EndUpdate(e, c) ==
    \/ /\ FormFor(e, c) # NoForm /\ FormFor(e, c).text = Blank
       /\ page' = CopyBack(e, c) /\ dialog' = Ended(e, c)
       /\ calls' = [calls EXCEPT ![e] = Tail(@)]
       /\ UNCHANGED <<leaving, alert>>
    \/ Close(e, c, CopyBack(e, c), <<>>)

\* Mutant: the model is written with its empty list of special prices.
UpdatedWhole(e, c) ==
    /\ c.call = "update" /\ DocOf(c.n) \in DOMAIN products
    /\ Effect([c EXCEPT !.call = "set"])
    /\ EndUpdate(e, c)
    /\ UNCHANGED <<clock, rows, inDoubt, toasts>>

\* An update leaves the special prices alone.
Updated(e, c) ==
    /\ c.call = "update" /\ DocOf(c.n) \in DOMAIN products
    /\ Effect(c)
    /\ EndUpdate(e, c)
    /\ UNCHANGED <<clock, rows, inDoubt, toasts>>

\* A special price is stored.  The code of updatePrice then reloads the product,
\* also when its dialog is gone, and closes the dialog.
PriceSet(e, c) ==
    /\ c.call = "price" /\ DocOf(c.n) \in DOMAIN products
    /\ Effect(c)
    /\ Close(e, c, page,
             IF "app" \in c.mounted
             THEN <<[call |-> "get", n |-> c.n, mounted |-> c.mounted \cap {"page", "app"}]>>
             ELSE <<>>)
    /\ UNCHANGED <<clock, rows, inDoubt, toasts>>

\* The price of a swiped card is gone: an alert says so, unless the page has been
\* left or was read again, and the card is no longer there.
Dismissed(e, c) ==
    /\ c.call = "dismiss" /\ DocOf(c.n) \in DOMAIN products
    /\ Effect(c)
    /\ alert' = [alert EXCEPT ![e] =
                    @ \/ ("page" \in c.mounted /\ c.customer \in page[e].swiped)]
    /\ calls' = [calls EXCEPT ![e] = Tail(@)]
    /\ UNCHANGED <<clock, page, dialog, leaving, rows, inDoubt, toasts>>

\* Mutant: a missing document is written anew.
NotFoundCreates(e, c) ==
    /\ c.call \in {"update", "price", "dismiss"} /\ DocOf(c.n) \notin DOMAIN products
    /\ products' = Put(products, DocOf(c.n), NewProduct(c.n, Blank))
    /\ calls' = [calls EXCEPT ![e] = Tail(@)]
    /\ UNCHANGED <<gone, inDoubt, toasts, clock, page, dialog, leaving, alert, rows>>

\* update of a missing document throws out of the button, whose dialog goes on
\* loading.
NotFound(e, c) ==
    /\ c.call \in {"update", "price", "dismiss"} /\ DocOf(c.n) \notin DOMAIN products
    /\ dialog' = IF "dialog" \in c.mounted THEN [dialog EXCEPT ![e].stuck = TRUE] ELSE dialog
    /\ calls' = [calls EXCEPT ![e] = Tail(@)]
    /\ UNCHANGED <<stored, clock, page, leaving, alert, rows>>

\* The product is read again, into a new object that no dialog has a copyOf; a
\* missing one throws.
Reloaded(e, c) ==
    /\ c.call = "get"
    /\ IF "page" \in c.mounted /\ DocOf(c.n) \in DOMAIN View(e)
       THEN /\ page' = [page EXCEPT ![e].model = View(e)[DocOf(c.n)],
                                    ![e].swiped = {}]
            /\ dialog' = IF Shows(e, {"update"})
                         THEN [dialog EXCEPT ![e].own = FALSE] ELSE dialog
            /\ leaving' = IF leaving[e] # NoForm
                          THEN [leaving EXCEPT ![e].own = FALSE] ELSE leaving
       ELSE UNCHANGED <<page, dialog, leaving>>
    /\ calls' = [calls EXCEPT ![e] = Tail(@)]
    /\ UNCHANGED <<stored, clock, alert, rows>>

\* delete succeeds whether or not there is a document.
Deleted(e, c) ==
    /\ c.call = "delete"
    /\ Effect(c)
    /\ toasts' = IF "app" \in c.mounted THEN toasts \cup {c.n} ELSE toasts
    /\ calls' = [calls EXCEPT ![e] = Tail(@)]
    /\ UNCHANGED <<clock, page, dialog, leaving, alert, rows, inDoubt>>

\* A row is stored, under a name that is not its id.  The import goes on to the
\* next one, and pops whatever lies on top after the last.
RowAdded(e, c) ==
    /\ c.call = "add" /\ "app" \in c.mounted
    /\ Effect(c)
    /\ rows' = [rows EXCEPT ![e] = Tail(@)]
    /\ IF Tail(rows[e]) # <<>>
       THEN /\ calls' = [calls EXCEPT ![e] = Append(Tail(@), AddRow(rows[e][2]))]
            /\ UNCHANGED <<page, dialog, leaving, alert>>
       ELSE Pop(e, page, dialog, Tail(calls[e]))
    /\ UNCHANGED <<clock, inDoubt, toasts>>

\* The same row when the application that imported it is gone.
RowKept(e, c) ==
    /\ c.call = "add" /\ "app" \notin c.mounted
    /\ Effect(c)
    /\ calls' = [calls EXCEPT ![e] = Tail(@)]
    /\ UNCHANGED <<clock, page, dialog, leaving, alert, rows, inDoubt, toasts>>

\* A write takes effect and its answer is lost: the client will send it again.
Unanswered(e) ==
    /\ calls[e] # <<>> /\ Head(calls[e]).call # "get"
    /\ Effect(Head(calls[e]))
    /\ inDoubt' = IF Head(calls[e]).call = "set"
                  THEN inDoubt \cup {DocOf(Head(calls[e]).n)} ELSE inDoubt
    /\ UNCHANGED <<clock, page, dialog, leaving, alert, rows, calls, toasts>>

Answer(e) ==
    /\ calls[e] # <<>>
    /\ LET c == Head(calls[e])
       IN \/ Created(e, c)
          \/ Updated(e, c)
          \/ PriceSet(e, c)
          \/ Dismissed(e, c)
          \/ NotFound(e, c)
          \/ Reloaded(e, c)
          \/ Deleted(e, c)
          \/ RowAdded(e, c)
          \/ RowKept(e, c)

Next ==
    /\ UNCHANGED patient
    /\ \E e \in Editors :
           \/ \E d \in DOMAIN View(e) : OpenProduct(e, d)
           \/ Back(e)
           \/ \E kept \in BOOLEAN : Restart(e, kept)
           \/ Refresh(e)
           \/ Delete(e)
           \/ AddNewItem(e)
           \/ UpdateItem(e)
           \/ \E v \in Details \cup {Blank} : Type(e, v)
           \/ Done(e)
           \/ Cancel(e)
           \/ Left(e)
           \/ \E c \in Customers : AskPrice(e, c) \/ Dismiss(e, c)
           \/ \E p \in Prices : OkPrice(e, p)
           \/ OkPriceEmpty(e)
           \/ \E k \in 1 .. MaxRows : Import(e, k)
           \/ CancelPick(e)
           \/ DismissAlert(e)
           \/ Answer(e)
           \/ Unanswered(e)

Spec == Init /\ [][Next]_vars

----------------------------------------------------------------------------
\* A customer's special price changes only by a write for that customer and
\* product: no update of the details, however stale the copy it was made from,
\* and no price of another customer takes it away.  Only the set that created the
\* product does, when its answer was lost and it is sent again.
PricesKept ==
    [][\A d \in DOMAIN products \cap DOMAIN products', c \in Customers :
           products'[d].specialUsers[c] # products[d].specialUsers[c] =>
               \E e \in Editors :
                   /\ calls[e] # <<>>
                   /\ DocOf(Head(calls[e]).n) = d
                   /\ \/ /\ Head(calls[e]).call \in {"price", "dismiss"}
                         /\ Head(calls[e]).customer = c
                      \/ Head(calls[e]).call = "set" /\ d \in inDoubt]_vars

\* A deleted product does not come back, whatever other administrators had open
\* or under way when it was deleted.  Only the set that created it may bring it
\* back, when its answer was lost and it is sent again.
NotRevived == gone \cap DOMAIN products \subseteq inDoubt

\* The code of a call takes the dialog on top for its own only when it is: a button
\* pressed twice, a field emptied meanwhile, an import that pops what lies on top
\* and a card swiped away never leave it with the dialog of something else.  A
\* dialog that shows it is loading waits for such a call, unless its code has ended
\* and left it so: by throwing, or by popping the alert of a swiped card instead.
\* And to an administrator who waits, every answer that closes something closes
\* its own dialog: neither an alert lies on top, nor is the dialog on its way out,
\* when the answer would take away the page below.
AnswersOwnDialog ==
    \A e \in Editors :
        LET waiting == {c \in ToSet(calls[e]) : "dialog" \in c.mounted}
            callOf == [new |-> "set", update |-> "update", price |-> "price"]
        IN  /\ \A c \in waiting :
                   /\ dialog[e] # NoDialog
                   /\ c.call = callOf[dialog[e].kind]
                   /\ c.call = "price" => c.customer = dialog[e].customer
            /\ dialog[e] # NoDialog /\ dialog[e].loading => waiting # {} \/ dialog[e].stuck
            /\ patient => /\ \A c \in ToSet(calls[e]) : "leaving" \notin c.mounted
                          /\ waiting # {} => ~alert[e]

\* What productModel and the swiped cards together tell of a product.
Known(pg) ==
    [pg.model EXCEPT !.specialUsers =
        [c \in Customers |-> IF c \in pg.swiped THEN NoPrice ELSE @[c]]]

\* productModel, which the next update, price or copy starts from, is what is
\* stored as soon as one administrator who waits has all answers, after updates,
\* prices and refreshes.  Only the prices of swiped cards stay in it until it is
\* read again.
PageTruthful ==
    \A e \in Editors :
        patient /\ Editing(e) /\ calls[e] = <<>> /\ page[e].doc \in DOMAIN products
            => Known(page[e]) = products[page[e].doc]

\* What showConfirmationDelete reports: no product with that id is left.
ToastTrue ==
    \A d \in DOMAIN products : products[d].id \notin toasts

=============================================================================
