# Specifications of the enmart application

enmart (`retailed_mart`) is a Flutter application for a wholesale shop. Customers
register, wait to be approved, fill a cart and order; administrators keep the
catalogue, approve customers and dispatch the orders piece by piece. There is no
server of its own: every copy of the application writes Cloud Firestore documents
directly. What is hard about it is therefore not an algorithm but a protocol: each
operation is a few awaited writes, computed from copies that were read earlier, and
other devices, other administrators, late answers, refused writes and the end of the
process may fall between any two of them. Between the application and the server lies
the Firestore client, which the repository carries in `ios/Pods/FirebaseFirestore`: it
queues the writes of each user on disk, sends them in order and sends them again when an
answer was lost. What it does to a write is part of the system, and is modelled too.

## Inventory

| Part | State | Operations | Interacts with |
|---|---|---|---|
| Order dispatch (`features/orders`) | the document `orders/<millis>`: `items`, `deliveredQuantity`, `totalQuantity`, `status`; per dialog the copies it was opened with, and `isLoading` | open the dialog, Cancel, Ok = `updateDispatchAmount`: `arrayRemove`, then `arrayUnion` + `increment` + status | other administrators through the document |
| Cart (`features/cart`, `features/products/widgets/add_to_cart_modal.dart`) | `CartProvider._products` of each device; the document `cart/<uid>`; `orders` | `initialize`, `addToCart` (update, on `not-found` set), `cartToOrder` (confirm, store the order, `clearCart`) | session (whose cart), catalogue (which product shows a tick), dispatch (the orders it creates) |
| Session (`features/auth`, `common/screens/splash_screen.dart`, `routes/`) | `currentUser`, `_isAdmin`, `_userModel`, `_isLoading`, the route | `register` (create the account, then the profile), `login`, `getUserData`, the splash screen's `check`, the router's redirect (sign-out on the way to the login form), the approval gate of the home page | cart (only the splash screen loads it), customers |
| Customers (`features/customers`) | `users/<uid>.isApproved` | approval switch (writes the negation of the value it shows) | session |
| Catalogue (`features/products`) | `products/<id>`, the product cached by the edit page | create, duplicate, edit, delete, special prices, spreadsheet import | cart and orders refer to products by id |
| Prices (`orders/widgets/utils.dart`, `cart/widgets/order_card.dart`) | none | row price, grand total, total quantity | catalogue |
| Firestore client, write path (`ios/Pods/FirebaseFirestore/Firestore/core/src`) | a mutation queue per user (persisted), the callbacks of writes and of `waitForPendingWrites`, the write pipeline, the write stream (state, token, handshake, backoff, idle timer), the worker queue | `WriteMutations`, `HandleCredentialChange`, start, handshake, result, close and idle timeout of the stream, enable and disable of the network, restart | everything that writes; FirebaseAuth for users and tokens |
| NDP requests (`features/ndp`) | form, picked image, `ndp/<millis>`, an image in Storage | pick and crop, upload, submit | session |

Hard behaviours: two writes that are not one transaction (dispatch, registration, order
then clear); totals and statuses computed from stale copies; un-awaited adds that are
answered after the customer has moved on; `currentUser` read again after an await; a
list that is loaded on one path to the home page and not on the others; ids made of
milliseconds; refused writes that are swallowed in one place and end the function in
another; buttons that stay enabled; `set` and `increment`, which are not the same when the
client sends them twice; writes that outlive the application or wait for their user to sign
in again; answers on the write stream that carry no identity. `PROJECT.json` lists them one by one under
`hazards`.

What makes each part correct: a dispatch is counted once, in its line and in the total,
and no line disappears; the status says whether everything was delivered; list and
cart document agree, nothing added is lost, nothing is bought twice, an order never
changes hands or is replaced; nobody gets a role or a page that the profile does not
grant; a product is found under the id others know it by; a request has its image; the
writes of a user take effect in order, none is skipped, and each caller hears what became
of its own write.

## Modules

- `Firestore` – the field transforms the code uses, from the client's
  `transform_operation.cc`. An array is the set of its elements: they carry the time of their
  creation, and order is display only.
- `WritePipeline` – the client's write path. `queue`, `callbacks`, `waits` are SyncEngine and
  its mutation queues, `remote` is RemoteStore with its stream and the call under it, `tasks`
  the worker queue. Each action is one task of that queue (`WriteMutations`,
  `HandleCredentialChange`, `ResumeStartWithCredentials`, `OnWriteStreamHandshakeComplete`,
  `OnWriteStreamMutationResult`, `OnStreamFinish`, ...), a step of the backend
  (`ServerHandshake`, `ServerCommit`, `ServerRefuse`), or something that happens to the device
  (another user, a token that arrives late, a broken stream, no connectivity, a disabled
  network, a kill, also between telling the caller and forgetting the batch).
- `WriteLog` – what the client promises: the writes of a user are applied and answered one
  after the other; only a lost answer takes the server back.
- `WritePipelineProofs` – the theorems about `WritePipeline`, the refinement of `WriteLog` too.
- `Dispatch` – one order and any number of `QuantityUpdate` dialogs. `order` is the
  document, `dialog[d]` the step of a dialog and the copies it holds (`e` = `widget.e`,
  `delivered` = `widget.m.deliveredQuantity`). `Open`, `Cancel`, `OkEmpty` and `Ok` are the
  buttons (`OkEmpty` is `int.parse('')` throwing after `isLoading` was set), `RemoveLine`
  and `AddLine` the two writes taking effect, answered or not, with the code that follows them,
  `Refuse`, `Kill` and `KillKept` (the client keeps the first write) the failures. `OpenOver` is
  a dialog opened on a list that shows the device's own second write before the server has it;
  a list that shows several of them at once is not modelled. Cancel during the writes changes
  nothing, because it does not stop them: after it the administrator can leave, and `SignOut`
  puts the dialogs of the device `away`, whose writes the client holds back until `SignIn`.
  `shipped`, `dropped`, `recounted` and `misled` are history variables for the properties.
- `OrderBook` – what dispatching promises: each dispatch is one step.
- `DispatchProofs` – the theorems about `Dispatch`.
- `Cart` – devices, their lists and their queues of writes, the cart documents and the
  orders. A device sends the writes of the user its client serves (`served`, which follows
  `user` with `HandleCredentialChange`), in order, and keeps those of others; this is what
  `WriteLog` promises. `Added`, `NotFound`, `Created`, `Placed` and `Cleared` are a write
  taking effect together with the Dart code awaiting it, `Unanswered` one whose answer is lost.
  Joining the two loses nothing: in between, the device itself does not read the server, and a
  process that ends there is `Restart`, with the writes kept or not. `OpenModal` is the button
  of a product the list does not show yet; the press in the modal, `AddToCart`, comes later and
  does not look at the list again, so an answer in between may have put the product there;
  `CloseModal` leaves it. `Splash`, `SignIn`,
  `SignOut`, `Restart` and `Reload` are the sessions: only `Splash` loads the list.
  `tapped` and the field `owner` are history.
- `Basket` – what the cart promises: items stay until they are bought, all at once.
- `CartProofs` – the theorems about `Cart`.
- `Session` – one device: who is signed in (`user`), what `AuthProvider` has made of it
  (`isAdmin`, `userModel`, `isLoading`), the page on top and the page the router is on its
  way to, and the calls to Firebase under way, each with the code that awaits it. `Go` is a
  navigation with its redirect; the buttons are `OpenRegister`, `BackToLogin`, `Logout`,
  `Reload`, `ReturnHome`, `PressLogin` and `PressRegister`; each answer with the code behind it
  is an action of `Answer`; `StoredUnanswered`, `Failed` and `Restart` are the failures; `Flip`
  and `Flipped` are the approval switch on another device. A profile is read in two steps:
  `Served` is the server reading it, and `FormRead`, `CheckRead` or `RedirectRead` the answer
  being used, some time later; what the client itself has pending or was told is stored is
  seen on top of it (`ProfileOf`, `Remember`). A profile is sent only while its
  customer is signed in. `calm` says whether the device is used one press at a time and
  nothing fails; it is chosen at the start. `inDoubt`, `wasApproved` and `eligible` are history.
- `SessionProofs` – the theorems about `Session`.
- `Products` – the catalogue on several administrators' devices. `page[e]` is the edit page: its
  `productModel` and the customers whose cards were swiped away, which `productModel` goes on
  having; `dialog[e]` the dialog on top, `leaving[e]` the form closed last, while it leaves the
  screen; `calls[e]` the calls under way in order, each knowing whether its dialog, on top or
  leaving, and its page are still mounted. The buttons are `OpenProduct`, `Back`,
  `Refresh`, `Delete`, `AddNewItem` (new or duplicate), `UpdateItem`, `Type`, `Done`, `Cancel`,
  `AskPrice`, `OkPrice`, `OkPriceEmpty`, `Dismiss`, `Import`, `CancelPick`, `DismissAlert`;
  `Cancel` is the system's way back too, which leaves a loading dialog as well, and `Left` the end
  of an exit transition; `Restart` is a new start of the application; the answers are the actions
  of `Answer`, and a write may take effect without one. `Close` is what the code of an answer does
  when it pops: nothing if its context is gone, and otherwise, on top or leaving, it takes away
  whatever lies on top then (`Pop`), be it an alert or the edit page. `EndUpdate` copies the fields
  back into the object the dialog has, which is the page's only until it is read again. A document
  of an import has a name of its own (`auto`), every other one is named by its id.
- `ProductsProofs` – the theorems about `Products`.
- `NDP` – the request form of one device: fields and picture, the alerts on top of it as a stack,
  `pickAndCrop` step by step, and the submissions under way, whose last write may outlive the
  application. `seen` and `unread` are history.
- `NDPProofs` – the theorems about `NDP`.
- `Induction` – lemmas the proofs share: induction over the natural numbers and, from it, what
  the left fold of the community modules yields.
- `MCDispatch`, `MCCart`, `MCSession`, `MCProducts`, `MCNDP`, `MCWritePipeline` – the instances for TLC.

`WritePipeline` assumes of the backend that it handles the messages of a stream in order and
answers each, that nothing of an old stream is applied after a new one is up, and that it ends
no stream with OK while writes are pending. Answers are well formed: the assertions about
their number of results are not modelled. The stream token is left out because the handshake
does not send it; delays have no length; Open and Healthy are one state, which only decides
whether a token is fetched anew. Every notification of FirebaseAuth, a refreshed token of the
same user too, restarts the streams. The watch stream shares start and stop with the write
stream and is left out, as it carries no writes. The modules of the application use what
`WriteLog` promises and its exception: in order, and again if the answer was lost.

In `Session` the splash screen's `initialize` is joined with the read before it: it concerns
only the cart. Two equal calls under way are one member of `futures`. A page made for a
navigation that was overtaken, or the register page opened again after `BackToLogin`, is not
told apart from the one before it; since code looks only at its own page, `Enter` lets it go on
or stop whenever the device is not calm. A navigation overtakes an earlier one that still waits
for its redirect, whose call goes on. The 750 ms of `Reload` are not told apart from the
press. Pages pushed on top of a home page count as that page, and typed web addresses, which
the router lets through to any page, are left out. Firebase reports failures as
exceptions with a `message`; `register` would not survive another kind of error. The
customers of `Cart` have a profile and are approved.

In `Products`, code, material, quantity and price are one value (`Details`); readings of the
clock that become ids differ, so two devices do not create in the same millisecond; a device
runs one import at a time and all its rows are stored; a press of Done with empty fields
changes nothing. Alerts that lie on top of each other count as one, and closing a second dialog
ends the exit transition of the first. `Blank` is a form with any field emptied; when an update
ends, only an emptied quantity or price throws, so `EndUpdate` allows both outcomes. A card that
was swiped away does not return to the page until the page is read again. In `NDP`, the fields are one value, one picture is picked at a time, and the
two clock readings of a submission are one.

Left out of these modules: layout and wording; which page a `context.pop()` uncovers; the
quantity of an item in `Cart` (it influences nothing there; `MCDispatch` takes its total
from the quantities as `calculateQuantity` does); the locally cached view of pending
writes other than in `Dispatch`, which only lets a device act on its own write a little
earlier; an order whose creating `set` is sent again after its dispatch has begun, which would
need `Cart` and `Dispatch` in one; the `Reload` button of the page for customers who are not approved, which runs the splash screen
without a restart.

## Runs

| Run | Instance | Shows |
|---|---|---|
| `dispatch_many` | two dialogs, lines of 1 and 2 pieces, dispatched piece by piece, failures, fairness | entries never overstate, and an order is delivered only when the pieces that left, with those counted again after a lost answer, are as many as it asks for, except after a refused write that a dialog was opened over; a line is on the order, held or dropped by a failure; concurrent increments are not lost and only a lost answer counts twice; a line that was taken out returns unless a failure dropped it or its administrator is signed out |
| `dispatch_one` | one dialog, the same order, amounts 0, 1, 2, failures | one exact entry per line, a status that agrees with the total, and the refinement of `OrderBook` |
| `cart_patient` | one device, two customers, two products, six clock readings | list mirrors document, nothing is lost or bought twice, refinement of `Basket` |
| `cart_hurried` | a device two customers share who press without waiting, four readings, fairness | a cart holds only its customer's items and the list shows all of it; every add appears in the list |
| `cart_devices` | two devices of one customer (symmetric), failures, lists not loaded, two readings each | a cart disappears only after an order, and no order is empty |
| `session` | an administrator and two calm customers, or one who is not, with failures; fairness | calm: at rest page and role fit the user, the shop opens only to one who was approved at some moment since they set out for it. Always: submit buttons are disabled exactly while a form's call is under way, and only for a while; nothing but the switch, or the registration sent again, takes an approval back |
| `products_one` | one administrator, waiting or not, two customers, two details, one price, two ids, sheets of up to two rows, two calls when a button is pressed | to one who waits `productModel` with the swiped cards tells what is stored, and an answer closes its own dialog; in any case no answer takes another dialog for its own, and no dialog is left loading except by an exception or an alert that was popped instead |
| `products_many` | two administrators, who do not wait, one id, one customer; one has two calls under way, the other one | special prices change only by their own writes; deleted products stay deleted; the creating write sent again is the exception to both |
| `products_toast` | as `products_one` with three ids; a violation is expected | the report "Product Deleted" is not true of an imported product: finding 1 |
| `ndp` | a customer who waits or not, signs in and out, one text, two pictures, two submissions, both platforms, failures, fairness | a request is what the form showed to one who waited; requests have their pictures and both are kept; submissions are answered |
| `writes_order` | two users (symmetric), three writes, a pipeline of two, two changes of user, one fault | the pipeline is the front of the queue and the idle timer runs only when it is empty, answers line up with it, every batch goes out under its user's name, callers hear the truth; refinement of `WriteLog` |
| `writes_answered` | two users, two writes, a pipeline of one, a change of user, a wait, two faults, fairness | callbacks stay with their batches, those of `waitForPendingWrites` too; a write is applied twice only after a lost answer; the queue of whoever stays signed in empties |

**Finding 1.** `showConfirmationDelete` reports `'$id Product Deleted'` after deleting the
document named by the product's id. `pickExcelAndDecode` stores products with `add`, under
other names, so deleting an imported product deletes nothing and reports success. For the
same reason such a product cannot be updated, priced, refreshed or shown in an order.

**Bounds.** `MaxDelivered` stops an `Ok` that would, by the dialog's own copy, deliver more
than that, and a lost answer that would. In both runs it is above the order's total of three,
so that a total which is exceeded and, in `dispatch_one`, one which jumps over three occur.
Two lines let one be complete while the other is not; the amounts of `dispatch_one` cover
zero, a partial, an exact and an excessive dispatch, while two dialogs get at stale copies
piece by piece. `MaxTime` bounds how often a device is used: two uses are add and confirm, on
each of two devices; four give two purchases, six an item between them too. `MaxSwitches` = 2
approvals under way is the least with which a stale one follows a fresh one. With failures and
impatience the calls under way multiply, so the device that is not calm has one customer; the
properties it is for are about one device's calls and one profile at a time, and are proved
for any number. In `products_many` one id, a product or an imported row, and three calls
between the devices let a refresh, an update or a price be answered after a deletion on the
other one; one value of each kind suffices, since the properties tell only present from absent,
and that a price of another customer leaves one alone rests on the theorem. In `products_one`
two calls let the button be pressed again while an update is under way, which is what the exit
transition needs, and one price is enough to be set and taken away. In `session` `MaxCalls` lets
a call of a form meet two of navigations that overtake one another. Two
submissions overlap, or follow each other with other pictures. Three writes and a pipeline of
two let a batch wait outside the pipeline while one is refused or answered, two changes take
the device to another user and back, and one fault of each kind can fall anywhere between;
`writes_answered` trades a write for a second fault, so that the repair of one is hit by the
next. `MaxPendingWrites` is ten in the code; nothing depends on the number.

`CHECK_DEADLOCK` is off where the system may really stop: an order that is fully dispatched
offers no button; a hurried customer who insists on a list that shows the cart may have
nothing left to do; a client whose writes are all answered is at rest. Everywhere else
something can always be done: a restart, or opening a page.

**Conditions on people.** The code does not protect itself against several orders of events,
so the stronger properties are stated for a customer who waits (`Patient`, `patient`, `calm`),
who works with a list that shows the cart (`AlwaysLoaded`), for one dialog at a time, or
without failures (`Faults`). These are constants of a run, or variables chosen at the start
that the property names. They exclude some of the hazards, on purpose: to a patient customer on
one device with a loaded list nothing is added while Buy is under way, no list is stale and no
write fails, so `CartMirrored`, `EachItemOnce` and `ImplementsBasket` say that nothing else goes
wrong, and not that the code withstands these; likewise `SubmittedAsSeen` of a form that
changes under a submission, and `PageFitsUser` of a registration that fails half way. What
happens without the conditions follows from the code and is not claimed otherwise: two dialogs on one
line store it twice with different counts and can leave the order pending for ever; a
failure between the writes of a dispatch removes the line; an item added just before Buy, or
present on the server when a session starts without the splash screen, is deleted with the
cart and is in no order; a second Buy before the first is stored orders the same items
again, as does a process that ends between storing the order and deleting the cart. A write
sent again adds its increment again, and the `set` of a profile or product replaces what
became of the document since. A registration cut off between its two steps leaves an account that is taken for an
administrator, and so is a customer who does not wait and presses Reload while the second
step of another registration is under way. A profile that is parked because its customer was
signed out leaves Login and Register disabled until they are signed in again or the
application is restarted.

**Fairness** is weak and only on answers: `RemoveLine` and `AddLine` answered, `Respond`, and
`Answer` for each kind of caller of a session. The client keeps sending a write until it is
answered, which `EventuallySettled` shows of `WritePipeline` for a user who stays signed in; the
writes of one who is not wait, so these actions are enabled only while their user is signed in,
which `LineReturns`, `AddShows` and `ButtonsReturn` except. A call to Firebase Auth or Storage
completes or fails. In `NDP` reading the picked file (`BytesRead`) is fair too. In
`WritePipeline` the worker queue runs its tasks and timers (`Client`), the backend takes what a
stream that stays up brings it (`Server`), FirebaseAuth answers requests for tokens, and a
network that was disabled is enabled again; faults are bounded, since nothing can be promised
over a stream that breaks for ever. No button is ever assumed to be pressed.

## Proofs

Every safety property the passing runs check is also a theorem, for every value of the
constants: invariants, properties of steps, and the three refinements. Each proof
finds an inductive invariant, which TLC checked on the runs' instances first, and then goes
through the actions one by one. What a theorem takes for granted is written in it: the
assumptions on constants of the module, and in some the constants or numbers of people that
the corresponding run has (`OneDialog`, `OneDevice`, `OneCustomer`, `OneEditor`, `Patient`,
`AlwaysLoaded`, `Faults`).

**`DispatchProofs`.** For every finite set of lines, every set of dialogs, quantities, amounts
and total (positive, as `AddToCartModal` refuses zero pieces), whether or not writes fail:

- `TypeCorrect`: `Spec => []TypeOK`;
- `NeverOverstatedHolds` and `DeliveredNotPrematureHolds`. Neither is inductive: a stale
  dialog might know more than the document. The strengthening `CopiesLag` says that it
  never does, and `StatusLags` that an order marked delivered has counted its total; with the
  ledger below, what was counted is what was shipped or counted again. As for the copies: the copy of a line is at most what was shipped of it and the copy of the
  total at most the total, which every write keeps because both only grow. A dialog opened
  over a write may be ahead by that write's amount for as long as it is under way, and for
  good only if it is refused, which is what `misled` records. A write already applied is
  counted already, so sending it again keeps the bounds;
- `LineNotLostHolds`, inductive together with typing;
- `DeliveredIsLedgerHolds`, inductive together with typing, once the sum over the lines is
  understood: raising one line's entry by an amount raises the sum by that amount
  (`SumRaised`), shown by induction over the number of lines, which is why they are finite.

For one dialog at a time (`OneDialog`), with failures:

- `StatusExactHolds`, `LinesExactHolds` and `DispatchImplementsOrderBook`. The inductive
  invariant `OneInv` says that the copies are fresh: the dialog's total is the document's,
  its line is an entry until the first write and no entry of that line exists after it, until
  the second write is applied, answered or not.
  The refinement then needs one lemma, that the mapping reads exactly `shipped`.

**`CartProofs`.** `CartTypeCorrect` holds for any devices and customers (`BaseInv`: typing, the
screen fits the user, an add is for the cart of whoever tapped, no items in a cart that is
not there). Then, each for any number of products and readings of the clock:

- `DeletedAfterOrderHolds`, for patient customers on one device, or one patient customer on any
  devices, with failures and lists that were never loaded. `OrdersInv` says that no answer
  reaches the list while a confirmation is asked for, so what Buy saw in it is there; that an
  order under way has items and replaces no order of somebody else; and that a deletion under
  way follows a stored order. Without it a second order with the same id, or an emptied list,
  could come between;
- `CartInListHolds`, on one device (`Loyal`: always loaded, no failures), however hurried.
  `LoyalInv` follows an item on its way: it was tapped by the owner of the cart it goes to, is
  under way once and not yet in the list; and the items are no newer than the clock, so that the
  next one differs from all of them;
- `CartMirroredHolds`, `EachItemOnceHolds` and `CartImplementsBasket`, for patient customers of
  that device (`Careful`). `CarefulInv` says per device what the one write under way means for
  list and cart (`Mirror`: they are equal while an item is being added or the list ordered; the
  list is empty and everything in the cart ordered while the cart is being deleted), and over
  all where the tapped items may be (`Books`: one that is in a cart and in an order is in a
  cart whose deletion is under way). The basket of the refinement is the cart, or nothing once
  its deletion is under way.

**`SessionProofs`.** For any people and any number of approvals, patient or not, with failures
or without:

- `SessionTypeCorrect`: `Spec => []TypeOK`;
- `LoadingMeansCallHolds`: inductive with typing, because every answer to a form either ends
  its call and resets `_isLoading` or replaces the call by the next one;
- `ApprovalKeptHolds`, a property of steps. It needs `ProfileInv`: only accounts have
  profiles, a registration about to store a profile is for an account that has none or got it
  from that very registration, of which there is one, and a switch is for a profile that
  exists. That a second registration cannot be about to overwrite the first one's profile
  follows from the account it would have to create;
- `PageFitsUserHolds` and `HomeChecksProfileHolds`, which speak of `calm` devices. `RolesInv`
  says that administrators have no profile; `CalmInv` that one call at most is under way, what
  page and user it was made from, and that every customer's account has a profile or it is
  being stored. Without it the device might take a customer for an administrator. What a read has
  found is for `HomeChecksProfile` one of the approvals of the way home, `eligible`, because a
  customer joins these whenever the switch approves them while it lasts.

**`ProductsProofs`.** For any administrators, customers, products, calls under way and sheets:

- `ProductsTypeCorrect` and `AnswersOwnDialogHolds`, from `DeviceInv`: what a call belongs to is
  still there (`Attached`: the page, the one import, a dialog that can have made it), and a
  dialog that is loading has such a call or its code has ended and left it so (`Awaiting`). For
  one who waits `PatientInv` adds that no dialog is on its way out with a call under way, and that
  a dialog's call is alone and meets no alert;
- `NotRevivedHolds` and `PricesKeptHolds`, from `IdsInv`: a reading of the clock names one
  product or one row (`NumbersInv`), a product is created by one call, which is still under way
  after its creation only if its answer was lost (`CreationInv`), and nothing deletes or prices
  an imported document (`AutoInv`). `NotRevived` alone is not inductive: a second creating call
  could bring a deleted product back;
- `PageTruthfulHolds`, for one administrator. `TruthInv` says that whoever waits has one call
  under way at most and what page and document may differ in until it is answered (`Reported`:
  the details in the fields, the price of the swiped card, anything before a reload); that a
  document carries the number it is named by; and that an imported product, which no call
  finds, is shown as it is all along.

**`NDPProofs`.** `NDPTypeCorrect` and `RequestsKeptHolds` from `NamesInv`: submissions under
way have different times, none of them of a stored request, and the picture of one that is
about to be stored is there. `SubmittedAsSeenHolds` from `WaitingInv`, which says of a patient
customer that nothing is picked during a submission and that the fields, the user and the
picture are still those of `seen`, except for bytes that could not be read on the web.

**`WritePipelineProofs`.** For any users, writes and `kMaxPendingWrites`, any number of faults
and changes of user: `PipelineTypeCorrect`, `PipelineIsFrontHolds`, `AnswersLineUpHolds`,
`OwnNameHolds`, `CallbacksMatchHolds`, `TruthfulAnswersHolds`, `OnceUnlessLostHolds` and
`PipelineKeepsOrder`, the refinement of `WriteLog`. One invariant, `IInv`, carries them all; its parts:
ids grow along each queue and a queue is the end of what its user was accepted (`QueueInv`);
the pipeline is as much of the front of the queue as it may hold, and the shape of the stream
fits its state (`StreamInv`); at most one token request is fresh (`RequestInv`); going through the
waiting tasks from the current user leads to the one FirebaseAuth has, and every task waits under the user
it was issued by (`TaskInv`); a write is accepted once (`WriteTaskInv`, `AcceptedOnce`); what
is applied but still queued is answered but unread or lost (`AppliedInv`); what callers and
waits were told is settled (`SettledInv`). They need one another: that an
answer belongs to the front of the pipeline rests on the stream having been restarted with
every change of user, which rests on the order of the tasks.

**Induction.** The prover's induction theorems take a predicate as a parameter, which its
backends cannot instantiate. `Induction` therefore starts from the least element of a set of
naturals and puts the predicate into a set: a set that holds 0 and with every number the next
holds all (`ByInduction`). From it follow the existence of the recursive function inside
`FoldLeft` and that a fold stays within a chain of sets its steps lead through
(`FoldedThrough`), which is what `View` and the writes kept over a `Restart` need. Numbers of
elements of a finite set are treated the same way for the sum in `Dispatch`.

**Only model-checked**: liveness (`LineReturns`, `AddShows`, `ButtonsReturn`,
`SubmitAnswered`, `EventuallySettled`), which this prover does not do. `ToastTrue` does not
hold (finding 1).

## Not modelled

- Prices and totals: computed for display from documents that were read, without state. (Rows
  show the customer's special price, grand totals are summed from the list price; a special
  price of zero shows as zero in the cart and as none in the shop.)
- The watch path and the local view of the Firestore client: listens, query views, limbo
  documents, garbage collection. Pages of the application may show any earlier state in the
  models, which is what this path guarantees and no more.
- The rest of `ios/Pods` (gRPC, Abseil, LevelDB, BoringSSL, Auth, Storage): libraries under
  the modelled write path. gRPC appears as a call whose messages arrive in order or not at
  all, LevelDB as state that survives a restart.
- Layout, search and the widgets without state; `NewUserDialog`, which nothing constructs.

## Plan

1. Done: `Dispatch` with its order book, `Cart` with its basket, their runs and theorems.
2. Done: `Session`, `Products` and `NDP` with their runs and theorems.
3. Done: `WritePipeline` with `WriteLog`, its theorems, and in every module of the application
   the writes that the client keeps, parks and sends again.
4. Left: an abstract specification of who may be on which page of a session.
5. Left: `Mart`, `Cart` and `Dispatch` composed, from a tap to a delivered order, for an order
   whose creation is sent again.
