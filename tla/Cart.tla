-------------------------------- MODULE Cart --------------------------------
(***************************************************************************)
(* The shopping cart.  A customer's device keeps a list of items           *)
(* (CartProvider._products) beside the document cartCollection.doc(uid)    *)
(* that the list is meant to mirror, and cartToOrder turns the list into   *)
(* an order and empties both.                                              *)
(*                                                                         *)
(* A device keeps the writes that are not answered, a queue for each user  *)
(* (module WritePipeline), and sends those of the user it serves, one      *)
(* after the other.  A write takes effect, or is refused, in the step that *)
(* also runs the code awaiting it: nothing this device does in between     *)
(* reads the server.  The user may press buttons, sign out, other devices  *)
(* may write, and the application may be killed between any two steps.     *)
(***************************************************************************)
EXTENDS Firestore, Sequences, SequencesExt

CONSTANTS
    Devices,       \* running copies of the application
    Users,         \* customers
    NoUser,        \* the current user of a device nobody is signed in to
    Products,      \* product ids
    Accounts,      \* Accounts[d]: the customers who use device d
    MaxTime,       \* bound: the clock readings of a device
    Patient,       \* customers press nothing while a write is under way
    AlwaysLoaded,  \* customers only work with a list that shows their cart
    Faults         \* whether writes are refused, answers lost, applications killed

ASSUME NoUserAssumption == NoUser \notin Users
ASSUME AccountsAssumption == Accounts \in [Devices -> SUBSET Users]
ASSUME MaxTimeAssumption == MaxTime \in Nat
ASSUME ModesAssumption == {Patient, AlwaysLoaded, Faults} \subseteq BOOLEAN

VARIABLES
    clock,     \* DateTime.now() of each device, advanced by every use of it
    screen,    \* where each device is: the splash screen, the login form, or in
    user,      \* FirebaseAuth.instance.currentUser of each device
    served,    \* whose writes the Firestore client of each device sends
    products,  \* _products of each device
    modal,     \* the product, if any, whose AddToCartModal each device shows
    asked,     \* whether the device shows the confirmation of cartToOrder
    pending,   \* the writes of each device that the server has not answered
    cart,      \* the documents of cartCollection
    orders,    \* the documents of ordersCollection, by their id
    tapped     \* history: the items customers added

vars == <<clock, screen, user, served, products, modal, asked, pending, cart, orders,
          tapped>>

----------------------------------------------------------------------------
Time == 1 .. MaxTime

\* OrderModel.  The id is the time of the tap; the owner is history: who
\* tapped.  The quantity plays no part in what becomes of the item.
OrderModel == [orderId : Time, productId : Products, owner : Users]

\* A missing document and one with no items are different things: update
\* works on the second only.
CartDoc == [exists : BOOLEAN, items : SUBSET OrderModel]
NoDoc == [exists |-> FALSE, items |-> {}]

OrderDoc == [uid : Users, items : Seq(OrderModel)]
NoOrder == [uid |-> NoUser, items |-> <<>>]

\* A write that is not answered, with the document it is for.  items is the item
\* added, or the list ordered; id is the id of the order.  by is the user who was
\* signed in when it was issued; awaited: the code that awaits it is still there.
Write == [op : {"update", "set", "order", "delete"},
          uid : Users \cup {NoUser},
          items : Seq(OrderModel),
          id : Time \cup {0},
          by : Users \cup {NoUser},
          awaited : BOOLEAN]

TypeOK ==
    /\ clock \in [Devices -> 0 .. MaxTime]
    /\ screen \in [Devices -> {"splash", "login", "in"}]
    /\ user \in [Devices -> Users \cup {NoUser}]
    /\ served \in [Devices -> Users \cup {NoUser}]
    /\ products \in [Devices -> Seq(OrderModel)]
    /\ modal \in [Devices -> SUBSET Products]
    /\ asked \in [Devices -> BOOLEAN]
    /\ pending \in [Devices -> Seq(Write)]
    /\ cart \in [Users -> CartDoc]
    /\ orders \in [Time -> OrderDoc \cup {NoOrder}]
    /\ tapped \subseteq OrderModel

Init ==
    /\ clock = [d \in Devices |-> 0]
    /\ screen = [d \in Devices |-> "splash"]
    /\ user = [d \in Devices |-> NoUser]
    /\ served = [d \in Devices |-> NoUser]
    /\ products = [d \in Devices |-> <<>>]
    /\ modal = [d \in Devices |-> {}]
    /\ asked = [d \in Devices |-> FALSE]
    /\ pending = [d \in Devices |-> <<>>]
    /\ cart = [u \in Users |-> NoDoc]
    /\ orders = [t \in Time |-> NoOrder]
    /\ tapped = {}

Ready(d) == Patient => \A w \in ToSet(pending[d]) : ~w.awaited

\* A press on a page is possible: nothing lies on top of it.
Free(d) == screen[d] = "in" /\ modal[d] = {} /\ ~asked[d] /\ Ready(d)

Now(d) == clock[d] + 1

Tick(d) ==
    /\ clock[d] < MaxTime
    /\ clock' = [clock EXCEPT ![d] = Now(d)]

\* The document a write is for, once the write has taken effect.  An update of a
\* document that does not exist has none.
DocAfter(doc, w) ==
    CASE w.op = "update" /\ doc.exists ->
            [doc EXCEPT !.items = ArrayUnion(@, ToSet(w.items))]
      [] w.op = "set" ->
            [exists |-> TRUE, items |-> ArrayUnion({}, ToSet(w.items))]
      [] w.op = "delete" -> NoDoc
      [] OTHER -> doc

\* The cart of customer u as device d reads it: with the writes u issued there.
View(d, u) ==
    FoldLeft(LAMBDA doc, w : IF w.by = u /\ w.uid = u THEN DocAfter(doc, w) ELSE doc,
             cart[u], pending[d])

\* What the list of device d should show to customer u.
Shows(d, u) == ToSet(products[d]) = View(d, u).items

----------------------------------------------------------------------------
(* Sessions, as far as they touch the cart.                                *)

\* Mutant: the splash screen does not load the cart.
SplashWithoutLoading(d) ==
    /\ screen[d] = "splash"
    /\ screen' = [screen EXCEPT ![d] =
           IF user[d] = NoUser THEN "login" ELSE "in"]
    /\ UNCHANGED <<clock, user, served, products, modal, asked, pending, cart,
                   orders, tapped>>

\* SplashScreen.check.  initialize replaces the list only by a document that
\* exists; with nobody signed in the splash screen goes on to the login form.
Splash(d) ==
    /\ screen[d] = "splash"
    /\ IF user[d] = NoUser
       THEN screen' = [screen EXCEPT ![d] = "login"] /\ UNCHANGED products
       ELSE /\ screen' = [screen EXCEPT ![d] = "in"]
            /\ products' = [products EXCEPT ![d] =
                   IF View(d, user[d]).exists THEN SetToSeq(View(d, user[d]).items)
                   ELSE @]
    /\ UNCHANGED <<clock, user, served, modal, asked, pending, cart, orders, tapped>>

\* processLogin and processRegister go straight to the home page: the list
\* stays as it is, neither loaded nor emptied.  Signing in takes an exchange with
\* the server, so the client has noticed the sign-out before.
SignIn(d, u) ==
    /\ screen[d] = "login" /\ served[d] = NoUser
    /\ AlwaysLoaded => Shows(d, u)
    /\ screen' = [screen EXCEPT ![d] = "in"]
    /\ user' = [user EXCEPT ![d] = u]
    /\ served' = [served EXCEPT ![d] = u]
    /\ UNCHANGED <<clock, products, modal, asked, pending, cart, orders, tapped>>

\* Mutant: one can sign out under an open confirmation.
SignOutWhileAsked(d) ==
    /\ screen[d] = "in" /\ modal[d] = {} /\ Ready(d)
    /\ screen' = [screen EXCEPT ![d] = "login"]
    /\ user' = [user EXCEPT ![d] = NoUser]
    /\ UNCHANGED <<clock, served, products, modal, asked, pending, cart, orders,
                   tapped>>

\* Logout: the router signs out on its way to the login form.
SignOut(d) ==
    /\ Free(d)
    /\ screen' = [screen EXCEPT ![d] = "login"]
    /\ user' = [user EXCEPT ![d] = NoUser]
    /\ UNCHANGED <<clock, served, products, modal, asked, pending, cart, orders,
                   tapped>>

\* The client learns of the sign-out.  Until then an answer may still arrive;
\* from now on the writes of the customer wait for the next sign-in.
HandleCredentialChange(d) ==
    /\ served[d] # user[d]
    /\ served' = [served EXCEPT ![d] = user[d]]
    /\ UNCHANGED <<clock, screen, user, products, modal, asked, pending, cart,
                   orders, tapped>>

\* The process ends and starts again.  The session survives and the list does
\* not; the client keeps its writes, though not in a browser.
Restart(d, kept) ==
    /\ Faults \/ pending[d] = <<>>
    /\ screen' = [screen EXCEPT ![d] = "splash"]
    /\ served' = [served EXCEPT ![d] = user[d]]
    /\ products' = [products EXCEPT ![d] = <<>>]
    /\ modal' = [modal EXCEPT ![d] = {}]
    /\ asked' = [asked EXCEPT ![d] = FALSE]
    /\ pending' = [pending EXCEPT ![d] =
           IF kept THEN [i \in DOMAIN pending[d] |-> [pending[d][i] EXCEPT !.awaited = FALSE]]
           ELSE <<>>]
    /\ UNCHANGED <<clock, user, cart, orders, tapped>>

\* The browser reloads an inner page: as Restart, but past the splash screen.
Reload(d) ==
    /\ ~AlwaysLoaded
    /\ Faults \/ pending[d] = <<>>
    /\ screen[d] = "in"
    /\ products' = [products EXCEPT ![d] = <<>>]
    /\ modal' = [modal EXCEPT ![d] = {}]
    /\ asked' = [asked EXCEPT ![d] = FALSE]
    /\ pending' = [pending EXCEPT ![d] = <<>>]
    /\ UNCHANGED <<clock, screen, user, served, cart, orders, tapped>>

----------------------------------------------------------------------------
(* Buttons.                                                                *)

\* A write of whoever is signed in to device d.
NewWrite(d, op, uid, items, id) ==
    [op |-> op, uid |-> uid, items |-> items, id |-> id, by |-> user[d], awaited |-> TRUE]

Issue(d, w) == pending' = [pending EXCEPT ![d] = Append(@, w)]

\* A tap on the button of a product that the list does not show yet.
OpenModal(d, p) ==
    /\ Free(d)
    /\ \A i \in ToSet(products[d]) : i.productId # p
    /\ modal' = [modal EXCEPT ![d] = {p}]
    /\ UNCHANGED <<clock, screen, user, served, products, asked, pending, cart,
                   orders, tapped>>

\* Cancel, or a tap beside the modal.
CloseModal(d) ==
    /\ modal[d] # {}
    /\ modal' = [modal EXCEPT ![d] = {}]
    /\ UNCHANGED <<clock, screen, user, served, products, asked, pending, cart,
                   orders, tapped>>

\* 'add to cart' in AddToCartModal, which does not look at the list again:
\* addToCart issues its update, and nobody awaits it.
AddToCart(d, p) ==
    LET order == [orderId |-> Now(d), productId |-> p, owner |-> user[d]]
    IN  /\ modal[d] = {p} /\ Ready(d)
        /\ modal' = [modal EXCEPT ![d] = {}]
        /\ Tick(d)
        /\ Issue(d, NewWrite(d, "update", user[d], <<order>>, 0))
        /\ tapped' = tapped \cup {order}
        /\ UNCHANGED <<screen, user, served, products, asked, cart, orders>>

\* 'Buy', which the page of an empty cart does not have.
Buy(d) ==
    /\ Free(d)
    /\ products[d] # <<>>
    /\ asked' = [asked EXCEPT ![d] = TRUE]
    /\ UNCHANGED <<clock, screen, user, served, products, modal, pending, cart,
                   orders, tapped>>

\* The confirmation is dismissed.
Decline(d) ==
    /\ asked[d]
    /\ asked' = [asked EXCEPT ![d] = FALSE]
    /\ UNCHANGED <<clock, screen, user, served, products, modal, pending, cart,
                   orders, tapped>>

\* The confirmation is given: cartToOrder issues the order, with the list as
\* it is now.
Confirm(d) ==
    /\ asked[d]
    /\ asked' = [asked EXCEPT ![d] = FALSE]
    /\ Tick(d)
    /\ Issue(d, NewWrite(d, "order", user[d], products[d], Now(d)))
    /\ UNCHANGED <<screen, user, served, products, modal, cart, orders, tapped>>

----------------------------------------------------------------------------
(* Answers.  Each is the first write that device d may send taking effect, *)
(* with the code that was waiting for it.                                  *)

\* Mutant: one queue for all users.
SentAlways(d, w) == TRUE

\* The client sends the writes of the user it serves.
Sent(d, w) == w.by = served[d]

First(d) == SelectInSeq(pending[d], LAMBDA w : Sent(d, w))

Answer(d) == pending[d][First(d)]

Answered(d, op) == First(d) # 0 /\ Answer(d).op = op

\* doc(null) names a new document: nobody finds it, and no customer owns it.
Found(d) == Answer(d).uid # NoUser /\ cart[Answer(d).uid].exists

\* What write w does on the server.
Effect(w) ==
    /\ cart' = IF w.uid = NoUser THEN cart ELSE [cart EXCEPT ![w.uid] = DocAfter(@, w)]
    /\ orders' = IF w.op = "order"
                 THEN [orders EXCEPT ![w.id] = [uid |-> w.uid, items |-> w.items]]
                 ELSE orders

\* The code that awaited the write puts the item into the list.
Remember(d) ==
    products' = [products EXCEPT ![d] = IF Answer(d).awaited THEN @ \o Answer(d).items ELSE @]

\* The same code goes on with the given writes.
Then(d, writes) ==
    pending' = [pending EXCEPT ![d] =
                   RemoveAt(@, First(d)) \o IF Answer(d).awaited THEN writes ELSE <<>>]

\* The update found the document.
Added(d) ==
    /\ Answered(d, "update") /\ Found(d)
    /\ Effect(Answer(d))
    /\ Remember(d)
    /\ Then(d, <<>>)
    /\ UNCHANGED <<clock, screen, user, served, modal, asked, tapped>>

\* Mutant: after 'not-found' the update is tried again.
NotFoundRetried(d) ==
    /\ Answered(d, "update") /\ ~Found(d)
    /\ Then(d, <<Answer(d)>>)
    /\ UNCHANGED <<clock, screen, user, served, products, modal, asked, cart,
                   orders, tapped>>

\* 'not-found': addToCart issues a set to the document of whoever is signed in
\* by now.
NotFound(d) ==
    /\ Answered(d, "update") /\ ~Found(d)
    /\ Then(d, <<NewWrite(d, "set", user[d], Answer(d).items, 0)>>)
    /\ UNCHANGED <<clock, screen, user, served, products, modal, asked, cart,
                   orders, tapped>>

\* The set took effect.  It replaces the document, whatever is in it by now.
Created(d) ==
    /\ Answered(d, "set")
    /\ Effect(Answer(d))
    /\ Remember(d)
    /\ Then(d, <<>>)
    /\ UNCHANGED <<clock, screen, user, served, modal, asked, tapped>>

\* What clearCart deletes: the cart of whoever is signed in by now.
Deletion(d) == NewWrite(d, "delete", user[d], <<>>, 0)

\* Mutant: the list is emptied only on the screen, not on the server.
PlacedWithoutDelete(d) ==
    /\ Answered(d, "order")
    /\ Effect(Answer(d))
    /\ products' = [products EXCEPT ![d] = IF Answer(d).awaited THEN <<>> ELSE @]
    /\ Then(d, <<>>)
    /\ UNCHANGED <<clock, screen, user, served, modal, asked, tapped>>

\* Mutant: the list is not emptied.
PlacedListKept(d) ==
    /\ Answered(d, "order")
    /\ Effect(Answer(d))
    /\ Then(d, <<Deletion(d)>>)
    /\ UNCHANGED <<clock, screen, user, served, products, modal, asked, tapped>>

\* The order is stored, in place of any other with its id; clearCart empties
\* the list and issues the deletion.
Placed(d) ==
    /\ Answered(d, "order")
    /\ Effect(Answer(d))
    /\ products' = [products EXCEPT ![d] = IF Answer(d).awaited THEN <<>> ELSE @]
    /\ Then(d, <<Deletion(d)>>)
    /\ UNCHANGED <<clock, screen, user, served, modal, asked, tapped>>

\* The cart is deleted, and cartToOrder reports success.
Cleared(d) ==
    /\ Answered(d, "delete")
    /\ Effect(Answer(d))
    /\ Then(d, <<>>)
    /\ UNCHANGED <<clock, screen, user, served, products, modal, asked, tapped>>

\* The write takes effect and the answer is lost: the client will send it again.
Unanswered(d) ==
    /\ Faults
    /\ First(d) # 0
    /\ Effect(Answer(d))
    /\ UNCHANGED <<clock, screen, user, served, products, modal, asked, pending,
                   tapped>>

\* Mutant: a refused order empties the cart as a stored one does.
RefusedClears(d) ==
    /\ Faults
    /\ First(d) # 0
    /\ IF Answer(d).op = "update" THEN Remember(d) ELSE UNCHANGED products
    /\ Then(d, IF Answer(d).op = "order" THEN <<Deletion(d)>> ELSE <<>>)
    /\ UNCHANGED <<clock, screen, user, served, modal, asked, cart, orders, tapped>>

\* The write is refused.  addToCart ignores every code but 'not-found' when it
\* updates, and keeps the item; any other refused write ends its function.
Refused(d) ==
    /\ Faults
    /\ First(d) # 0
    /\ IF Answer(d).op = "update" THEN Remember(d) ELSE UNCHANGED products
    /\ Then(d, <<>>)
    /\ UNCHANGED <<clock, screen, user, served, modal, asked, cart, orders, tapped>>

Respond(d) ==
    \/ Added(d)
    \/ NotFound(d)
    \/ Created(d)
    \/ Placed(d)
    \/ Cleared(d)

Next ==
    \E d \in Devices :
        \/ Splash(d)
        \/ \E u \in Accounts[d] : SignIn(d, u)
        \/ SignOut(d)
        \/ HandleCredentialChange(d)
        \/ \E kept \in BOOLEAN : Restart(d, kept)
        \/ Reload(d)
        \/ \E p \in Products : OpenModal(d, p) \/ AddToCart(d, p)
        \/ CloseModal(d)
        \/ Buy(d)
        \/ Decline(d)
        \/ Confirm(d)
        \/ Respond(d)
        \/ Unanswered(d)
        \/ Refused(d)

Spec == Init /\ [][Next]_vars

\* The server answers every write it is sent.  Nothing obliges a customer to
\* press anything, or to sign in again.
FairSpec == Spec /\ \A d \in Devices : WF_vars(Respond(d))

----------------------------------------------------------------------------
(* One device, whose customers wait for every answer and only work with a  *)
(* list that shows their cart.                                             *)

\* Between writes the list on the screen and the cart on the server hold the
\* same items, through restarts, purchases and changes of user.
CartMirrored ==
    \A d \in Devices :
        screen[d] = "in" /\ pending[d] = <<>> => Shows(d, user[d])

UnderWay(i) == \E d \in Devices : \E w \in ToSet(pending[d]) : i \in ToSet(w.items)

Ordered(i, t) == orders[t].uid = i.owner /\ i \in ToSet(orders[t].items)

\* An item somebody added is under way to the server, in the cart of that
\* customer, or in an order of that customer, since clearCart deletes nothing
\* that the order does not hold; and it is bought once, not twice in one order
\* or in two, since nothing orders the list again before it is cleared.
EachItemOnce ==
    /\ \A i \in tapped :
          \/ UnderWay(i)
          \/ i \in cart[i.owner].items
          \/ \E t \in Time : Ordered(i, t)
    /\ \A t \in Time : IsInjective(orders[t].items)
    /\ \A s, t \in Time : \A i \in OrderModel :
           Ordered(i, s) /\ Ordered(i, t) => s = t

\* A cart whose deletion is under way counts as empty: its order is stored.
Promised(u) ==
    IF \E d \in Devices : \E w \in ToSet(pending[d]) : w.op = "delete" /\ w.uid = u
    THEN {} ELSE cart[u].items

Sold == {[id |-> t, uid |-> orders[t].uid, items |-> ToSet(orders[t].items)] :
            t \in {s \in Time : orders[s] # NoOrder}}

Promise == INSTANCE Basket
               WITH basket <- [u \in Users |-> Promised(u)],
                    sales <- Sold,
                    Items <- OrderModel,
                    Ids <- Time

\* The list, the document and the writes between them implement baskets that
\* are filled item by item and sold at once.
ImplementsBasket == Promise!Spec

----------------------------------------------------------------------------
(* One device whose customer hurries.                                      *)

\* However quickly customers add, buy, leave and let the next one in, a cart
\* holds only what its own customer added: addToCart reads the current user
\* again after its await, but an answer that overtakes the sign-out finds nobody
\* signed in.  And the list shows everything the server holds, except while the
\* cart is being deleted: what Buy deletes without ordering is at most what was
\* still under way.
CartInList ==
    /\ \A u \in Users : \A i \in cart[u].items : i.owner = u
    /\ \A d \in Devices :
          screen[d] = "in" /\ ~(\E w \in ToSet(pending[d]) : w.op = "delete")
              => cart[user[d]].items \subseteq ToSet(products[d])

\* Every item a customer adds appears in the list of that device sooner or
\* later, through 'not-found' too and whatever else is under way, as long as the
\* customer stays signed in, or once they are back.  Only a set that follows a
\* 'not-found' read after the sign-out is nobody's, and waits for good.
AddShows ==
    \A d \in Devices, i \in OrderModel :
        (\E w \in ToSet(pending[d]) :
            w.op \in {"update", "set"} /\ w.items = <<i>> /\ w.by = i.owner)
            ~> (i \in ToSet(products[d]) \/ user[d] # i.owner)

----------------------------------------------------------------------------
(* Several devices of patient customers, with faults and lists that were   *)
(* never loaded.                                                           *)

\* A cart disappears from the server only when its customer has an order, and
\* no order of that customer is empty: what Buy saw in the list is still there
\* at Confirm.
DeletedAfterOrder ==
    [][\A u \in Users : cart[u].exists /\ ~cart'[u].exists
           => /\ \E t \in Time : orders[t].uid = u
              /\ \A t \in Time : orders[t].uid = u => orders[t].items # <<>>]_vars

=============================================================================
