------------------------------ MODULE Session ------------------------------
(***************************************************************************)
(* Who is signed in on a device, which role the device has worked out for  *)
(* them and which page it shows: AuthProvider, the splash screen, the two  *)
(* forms, the redirects of the router and the approval switch of an        *)
(* administrator elsewhere.                                                *)
(*                                                                         *)
(* An administrator is an account without a profile; getUserData takes     *)
(* every missing profile for one.  Everything else is several calls to     *)
(* Firebase, each a member of futures until it is answered, and only the   *)
(* two submit buttons are disabled meanwhile.                              *)
(*                                                                         *)
(* The profile of a new customer is a write of the Firestore client, which *)
(* sends it while that customer is signed in, keeps it over a restart and  *)
(* sends it again when the answer was lost.  A profile is read in two      *)
(* steps: the server reads it, and some time later the answer is used.     *)
(***************************************************************************)
EXTENDS Naturals, FiniteSets

CONSTANTS
    Customers,      \* people who may register
    Admins,         \* accounts the shop has made: they have no profile
    Nobody,         \* the current user when nobody is signed in
    Crowd,          \* bound: the customers of a calm device and of another
    MaxSwitches,    \* bound: approvals under way at once
    MaxCalls        \* bound: calls under way on a device when something is pressed

ASSUME PeopleAssumption ==
    Customers \cap Admins = {} /\ Nobody \notin Customers \cup Admins
ASSUME CrowdAssumption == Crowd \in [BOOLEAN -> SUBSET Customers]
ASSUME SwitchesAssumption == MaxSwitches \in Nat
ASSUME CallsAssumption == MaxCalls \in Nat

VARIABLES
    calm,        \* nothing is pressed while a call is under way, nothing fails
    accounts,    \* the accounts Firebase Auth knows
    profile,     \* the documents of usersCollection
    switches,    \* approvals written by an administrator and not yet stored
    user,        \* FirebaseAuth.instance.currentUser
    isAdmin,     \* _isAdmin: "null", "true" or "false"
    userModel,   \* _userModel, the profile last read
    isLoading,   \* _isLoading
    page,        \* the page on top
    going,       \* the page the router is on its way to, if any
    futures,     \* calls under way
    inDoubt,     \* the customers whose profile is stored and not yet answered
    wasApproved, \* history: the customers that were ever approved
    eligible     \* history: those approved at some moment of a calm way home

vars == <<calm, accounts, profile, switches, user, isAdmin, userModel, isLoading,
          page, going, futures, inDoubt, wasApproved, eligible>>
server == <<calm, accounts, profile, switches, inDoubt, wasApproved>>

----------------------------------------------------------------------------
People == Customers \cup Admins

\* isApproved of a profile, or that there is none.
Profile == {"none", "waiting", "approved"}

\* The pages that matter: the register page lies on top of the login page, and
\* the pages pushed on top of a home page count as that page.
Page == {"splash", "login", "register", "home", "blocked", "admin"}

\* A call under way, for which account, the code that awaits it, and for a read
\* what the server has found.  Nobody awaits a write that was kept over a restart.
Future ==
    [call : {"signIn", "create", "store"}, uid : People, by : {"form"},
     is : {"asked"}]
    \cup [call : {"store"}, uid : People, by : {"nobody"}, is : {"asked"}]
    \cup [call : {"getUserData"}, uid : People \cup {Nobody},
          by : {"form", "check", "redirect"}, is : Profile \cup {"asked"}]
    \cup [call : {"signOut"}, uid : {Nobody}, by : {"login", "register"},
          is : {"asked"}]

TypeOK ==
    /\ calm \in BOOLEAN
    /\ accounts \subseteq People
    /\ profile \in [People -> Profile]
    /\ switches \subseteq [uid : Customers, to : {"waiting", "approved"}]
    /\ user \in People \cup {Nobody}
    /\ isAdmin \in {"null", "true", "false"}
    /\ userModel \in [uid : People \cup {Nobody}, is : Profile]
    /\ isLoading \in BOOLEAN
    /\ page \in Page
    /\ going \in Page \cup {"none"}
    /\ futures \subseteq Future
    /\ inDoubt \subseteq People
    /\ wasApproved \subseteq Customers
    /\ eligible \subseteq Customers

NoModel == [uid |-> Nobody, is |-> "none"]

Call(c, u, who) == [call |-> c, uid |-> u, by |-> who, is |-> "asked"]

\* The calls SplashScreen.check and the router's redirect begin with when a
\* page is made for account u.
Calls(to, u) ==
    CASE to = "splash" /\ u # Nobody -> {Call("getUserData", u, "check")}
      [] to = "splash" /\ u = Nobody -> {Call("signOut", Nobody, "login")}
      [] to \in {"login", "register"} -> {Call("signOut", Nobody, to)}
      [] to = "home" -> {Call("getUserData", u, "redirect")}
      [] OTHER -> {}

Init ==
    /\ calm \in BOOLEAN
    /\ accounts = Admins
    /\ profile = [u \in People |-> "none"]
    /\ switches = {}
    /\ user = Nobody
    /\ isAdmin = "null"
    /\ userModel = NoModel
    /\ isLoading = FALSE
    /\ page = "splash"
    /\ going = "login"
    /\ futures = Calls("splash", Nobody)
    /\ inDoubt = {}
    /\ wasApproved = {}
    /\ eligible = {}

\* A calm device is pressed only at rest, another one at any time.
Ready == IF calm THEN futures = {} ELSE Cardinality(futures) <= MaxCalls

----------------------------------------------------------------------------
(* Navigation.                                                             *)

\* context.go and context.push, with the futures rest left under way.  A page
\* whose redirect awaits nothing is shown at once, and the splash screen sends
\* on whom it does not know; a later navigation overtakes an earlier one, whose
\* calls go on.
Go(to, rest) ==
    /\ futures' = rest \cup Calls(to, user)
    /\ page' = IF to \in {"splash", "admin"} THEN to ELSE page
    /\ going' = CASE to = "splash" -> IF user = Nobody THEN "login" ELSE "none"
                  [] to = "admin" -> "none"
                  [] OTHER -> to
    /\ eligible' = {u \in Customers : calm /\ to = "home" /\ profile[u] = "approved"}

\* 'Don't have an account', which stays enabled during a login.
OpenRegister ==
    /\ page = "login" /\ Ready
    /\ Go("register", futures)
    /\ UNCHANGED <<server, user, isAdmin, userModel, isLoading>>

\* 'Already have an account': a pop, which no redirect sees.
BackToLogin ==
    /\ page = "register" /\ Ready
    /\ page' = "login"
    /\ UNCHANGED <<server, user, isAdmin, userModel, isLoading, going, futures,
                   eligible>>

\* Logout, from the settings or from the page of a blocked customer.
Logout ==
    /\ page \in {"home", "blocked", "admin"} /\ Ready
    /\ Go("login", futures)
    /\ UNCHANGED <<server, user, isAdmin, userModel, isLoading>>

\* Reload, on the page of a blocked customer.
Reload ==
    /\ page = "blocked" /\ Ready
    /\ Go("splash", futures)
    /\ UNCHANGED <<server, user, isAdmin, userModel, isLoading>>

\* A submitted NDP request leads back to the home page, which checks again.
ReturnHome ==
    /\ page = "home" /\ Ready
    /\ Go("home", futures)
    /\ UNCHANGED <<server, user, isAdmin, userModel, isLoading>>

\* The process ends and starts again.  The session survives, and so do the
\* writes that the Firestore client has kept: on the web, none.
Restart(kept) ==
    /\ Ready
    /\ isAdmin' = "null"
    /\ userModel' = NoModel
    /\ isLoading' = FALSE
    /\ Go("splash", {[f EXCEPT !.by = "nobody"] : f \in kept})
    /\ UNCHANGED <<server, user>>

----------------------------------------------------------------------------
(* The forms.                                                              *)

\* Mutant: Login stays enabled during a login.
PressLoginAgain(u) ==
    /\ page = "login" /\ Ready
    /\ isLoading' = TRUE
    /\ futures' = futures \cup {Call("signIn", u, "form")}
    /\ UNCHANGED <<server, user, isAdmin, userModel, page, going, eligible>>

\* Login with valid entries.
PressLogin(u) ==
    /\ page = "login" /\ ~isLoading /\ Ready
    /\ isLoading' = TRUE
    /\ futures' = futures \cup {Call("signIn", u, "form")}
    /\ UNCHANGED <<server, user, isAdmin, userModel, page, going, eligible>>

\* Register with valid entries.
PressRegister(u) ==
    /\ page = "register" /\ ~isLoading /\ Ready
    /\ isLoading' = TRUE
    /\ futures' = futures \cup {Call("create", u, "form")}
    /\ UNCHANGED <<server, user, isAdmin, userModel, page, going, eligible>>

\* The rest of processLogin and processRegister, for a page that is mounted; the
\* page on top may also be another one than the page that made the call.
Enter(rest, mounted) ==
    \/ /\ page \in mounted
       /\ Go(IF isAdmin' = "true" THEN "admin" ELSE "home", rest)
    \/ /\ page \notin mounted \/ ~calm
       /\ futures' = rest
       /\ UNCHANGED <<page, going, eligible>>

\* An error response: the alert is shown and the form can be used again.
ErrorResponse(f) ==
    /\ isLoading' = FALSE
    /\ futures' = futures \ {f}
    /\ UNCHANGED <<server, user, isAdmin, userModel, page, going, eligible>>

\* signInWithEmailAndPassword succeeds: login goes on to getUserData.
SignedIn(f) ==
    /\ f.call = "signIn" /\ f.uid \in accounts
    /\ user' = f.uid
    /\ futures' = (futures \ {f}) \cup {Call("getUserData", f.uid, "form")}
    /\ UNCHANGED <<server, isAdmin, userModel, isLoading, page, going, eligible>>

\* Mutant: nobody handles an address that is taken.
RejectedLoginOnly(f) ==
    /\ f.call = "signIn" /\ f.uid \notin accounts
    /\ ErrorResponse(f)

\* There is no such account, or the address is taken.
Rejected(f) ==
    /\ \/ f.call = "signIn" /\ f.uid \notin accounts
       \/ f.call = "create" /\ f.uid \in accounts
    /\ ErrorResponse(f)

\* Mutant: an address that is taken is no obstacle.
CreatedAgain(f) ==
    /\ f.call = "create"
    /\ accounts' = accounts \cup {f.uid}
    /\ user' = f.uid
    /\ futures' = (futures \ {f}) \cup {Call("store", f.uid, "form")}
    /\ UNCHANGED <<calm, profile, switches, inDoubt, wasApproved, isAdmin,
                   userModel, isLoading, page, going, eligible>>

\* createUserWithEmailAndPassword also signs the new account in; register goes
\* on to store the profile.
Created(f) ==
    /\ f.call = "create" /\ f.uid \notin accounts
    /\ accounts' = accounts \cup {f.uid}
    /\ user' = f.uid
    /\ futures' = (futures \ {f}) \cup {Call("store", f.uid, "form")}
    /\ UNCHANGED <<calm, profile, switches, inDoubt, wasApproved, isAdmin,
                   userModel, isLoading, page, going, eligible>>

\* The Firestore client sends a customer's writes while they are signed in.
Sent(f) == f.call = "store" => f.uid = user

\* The calls that are left when a store for u is acknowledged: whatever the server
\* had found before, the client does not go behind its own write.
Remember(rest, u) ==
    {IF g.call = "getUserData" /\ g.uid = u /\ g.is # "asked"
     THEN [g EXCEPT !.is = "waiting"] ELSE g : g \in rest}

\* Mutant: register leaves the role of the previous user.
StoredRoleKept(f) ==
    /\ f.call = "store" /\ f.by = "form" /\ Sent(f)
    /\ profile' = [profile EXCEPT ![f.uid] = "waiting"]
    /\ inDoubt' = inDoubt \ {f.uid}
    /\ userModel' = [uid |-> f.uid, is |-> "waiting"]
    /\ isLoading' = FALSE
    /\ isAdmin' = isAdmin
    /\ Enter(Remember(futures \ {f}, f.uid), {"register"})
    /\ UNCHANGED <<calm, accounts, switches, wasApproved, user>>

\* The profile of a new customer is stored, and register goes on.
Stored(f) ==
    /\ f.call = "store" /\ f.by = "form" /\ Sent(f)
    /\ profile' = [profile EXCEPT ![f.uid] = "waiting"]
    /\ inDoubt' = inDoubt \ {f.uid}
    /\ userModel' = [uid |-> f.uid, is |-> "waiting"]
    /\ isAdmin' = "false"
    /\ isLoading' = FALSE
    /\ Enter(Remember(futures \ {f}, f.uid), {"register"})
    /\ UNCHANGED <<calm, accounts, switches, wasApproved, user>>

\* A write that was kept over a restart is answered, to nobody.
StoredLate(f) ==
    /\ f.call = "store" /\ f.by = "nobody" /\ Sent(f)
    /\ profile' = [profile EXCEPT ![f.uid] = "waiting"]
    /\ inDoubt' = inDoubt \ {f.uid}
    /\ futures' = Remember(futures \ {f}, f.uid)
    /\ UNCHANGED <<calm, accounts, switches, wasApproved, user, isAdmin,
                   userModel, isLoading, page, going, eligible>>

\* The profile is stored and the connection breaks before the answer is read:
\* the client will send the write again.
StoredUnanswered(f) ==
    /\ ~calm
    /\ f.call = "store" /\ Sent(f)
    /\ profile' = [profile EXCEPT ![f.uid] = "waiting"]
    /\ inDoubt' = inDoubt \cup {f.uid}
    /\ UNCHANGED <<calm, accounts, switches, wasApproved, user, isAdmin,
                   userModel, isLoading, page, going, futures, eligible>>

----------------------------------------------------------------------------
(* getUserData and signOut.                                                *)

\* The server reads the profile: doc(null) names a document that does not exist.
Served(f) ==
    /\ f.call = "getUserData" /\ f.is = "asked"
    /\ LET found == IF f.uid = Nobody THEN "none" ELSE profile[f.uid]
       IN  futures' = (futures \ {f}) \cup {[f EXCEPT !.is = found]}
    /\ UNCHANGED <<server, user, isAdmin, userModel, isLoading, page, going,
                   eligible>>

\* What the read f answers: the user's own pending write is seen on top of what
\* the server has found.
ProfileOf(f) ==
    IF f.uid = user /\ \E g \in futures : g.call = "store" /\ g.uid = f.uid
    THEN "waiting"
    ELSE f.is

\* Mutant: a profile that was read before is not read again.
AssumeCached(f) ==
    IF userModel.uid = f.uid /\ f.uid # Nobody
    THEN isAdmin' = "false" /\ UNCHANGED userModel
    ELSE IF ProfileOf(f) = "none"
    THEN isAdmin' = "true" /\ UNCHANGED userModel
    ELSE isAdmin' = "false" /\ userModel' = [uid |-> f.uid, is |-> ProfileOf(f)]

\* The answer of getUserData.  A missing profile leaves _userModel as it is.
Assume(f) ==
    IF ProfileOf(f) = "none"
    THEN isAdmin' = "true" /\ UNCHANGED userModel
    ELSE isAdmin' = "false" /\ userModel' = [uid |-> f.uid, is |-> ProfileOf(f)]

\* Awaited by login and processLogin; the login page is mounted under the
\* register page too.
FormRead(f) ==
    /\ f.call = "getUserData" /\ f.by = "form" /\ f.is # "asked"
    /\ Assume(f)
    /\ isLoading' = FALSE
    /\ Enter(futures \ {f}, {"login", "register"})
    /\ UNCHANGED <<server, user>>

\* Awaited by check on the splash screen.
CheckRead(f) ==
    /\ f.call = "getUserData" /\ f.by = "check" /\ f.is # "asked"
    /\ Assume(f)
    /\ Enter(futures \ {f}, {"splash"})
    /\ UNCHANGED <<server, user, isLoading>>

\* The page that the redirect awaiting f is for.
Target(f) == IF f.by = "redirect" THEN "home" ELSE f.by

\* Awaited by the redirect of the home page, which then looks at the profile
\* last read.
RedirectRead(f) ==
    /\ f.call = "getUserData" /\ f.by = "redirect" /\ f.is # "asked"
    /\ Assume(f)
    /\ futures' = futures \ {f}
    /\ IF going = Target(f)
       THEN /\ page' = IF userModel'.is = "approved" THEN "home" ELSE "blocked"
            /\ going' = "none" /\ eligible' = {}
       ELSE UNCHANGED <<page, going, eligible>>
    /\ UNCHANGED <<server, user, isLoading>>

\* Mutant: the redirect ends a navigation that was overtaken and has arrived.
SignedOutOvertaken(f) ==
    /\ f.call = "signOut"
    /\ user' = Nobody
    /\ futures' = futures \ {f}
    /\ page' = going /\ going' = "none"
    /\ UNCHANGED <<server, isAdmin, userModel, isLoading, eligible>>

\* The redirect of a form has signed the user out.
SignedOut(f) ==
    /\ f.call = "signOut"
    /\ user' = Nobody
    /\ futures' = futures \ {f}
    /\ IF going = Target(f) THEN page' = going /\ going' = "none"
       ELSE UNCHANGED <<page, going>>
    /\ UNCHANGED <<server, isAdmin, userModel, isLoading, eligible>>

\* A call fails.  login and register answer with an error, also when the
\* account was already signed in or created; check and the redirects are thrown
\* out of, and the page stays.
Failed(f) ==
    /\ ~calm /\ Sent(f)
    /\ IF f.by = "form" THEN ErrorResponse(f)
       ELSE /\ futures' = futures \ {f}
            /\ going' = IF going = Target(f) THEN "none" ELSE going
            /\ UNCHANGED <<server, user, isAdmin, userModel, isLoading, page, eligible>>

Answer(f) ==
    /\ f \in futures
    /\ \/ SignedIn(f)
       \/ Rejected(f)
       \/ Created(f)
       \/ Stored(f)
       \/ StoredLate(f)
       \/ Served(f)
       \/ FormRead(f)
       \/ CheckRead(f)
       \/ RedirectRead(f)
       \/ SignedOut(f)

----------------------------------------------------------------------------
(* The approval switch of an administrator on another device.              *)

\* The switch is flipped: it writes the negation of what it shows.
Flip(u) ==
    /\ profile[u] # "none"
    /\ Cardinality(switches) < MaxSwitches
    /\ switches' = switches \cup
           {[uid |-> u, to |-> IF profile[u] = "approved"
                               THEN "waiting" ELSE "approved"]}
    /\ UNCHANGED <<calm, accounts, profile, inDoubt, wasApproved, user, isAdmin,
                   userModel, isLoading, page, going, futures, eligible>>

\* The write of a switch takes effect; unless it is answered, once more later.
Flipped(s, answered) ==
    /\ calm => answered
    /\ profile' = [profile EXCEPT ![s.uid] = s.to]
    /\ switches' = IF answered THEN switches \ {s} ELSE switches
    /\ wasApproved' = IF s.to = "approved" THEN wasApproved \cup {s.uid}
                      ELSE wasApproved
    /\ eligible' = IF calm /\ s.to = "approved" /\ going = "home"
                   THEN eligible \cup {s.uid} ELSE eligible
    /\ UNCHANGED <<calm, accounts, inDoubt, user, isAdmin, userModel, isLoading,
                   page, going, futures>>

Next ==
    \/ OpenRegister
    \/ BackToLogin
    \/ Logout
    \/ Reload
    \/ ReturnHome
    \/ \E kept \in SUBSET {f \in futures : f.call = "store"} : Restart(kept)
    \/ \E u \in Crowd[calm] \cup Admins : PressLogin(u)
    \/ \E u \in Crowd[calm] : PressRegister(u)
    \/ \E f \in futures : Answer(f) \/ StoredUnanswered(f) \/ Failed(f)
    \/ \E u \in Customers : Flip(u)
    \/ \E s \in switches, answered \in BOOLEAN : Flipped(s, answered)

Spec == Init /\ [][Next]_vars

\* Firebase serves and answers the calls that are sent: whoever awaits calls gets
\* answers, though not to all of them if there are more and more.
FairSpec ==
    /\ Spec
    /\ \A who \in {"form", "check", "redirect", "login", "register"} :
           WF_vars(\E f \in futures : f.by = who /\ Answer(f))

----------------------------------------------------------------------------
(* A device used one press at a time, whose calls succeed.                 *)

\* At rest the page fits the session: the forms are for nobody, the
\* administration for administrators, the customer pages for the customer whose
\* profile was read last, and the shop itself for one who was approved.
PageFitsUser ==
    calm /\ futures = {} =>
        /\ page \in {"login", "register"} => user = Nobody
        /\ page = "admin" => user \in Admins
        /\ page \in {"home", "blocked"}
               => user \in Customers /\ userModel.uid = user
        /\ page = "home" => user \in wasApproved

\* Whoever arrives at the shop was approved at some moment since they set out for
\* it, also when they come back to it after an administrator has changed the
\* switch: the redirect reads the profile anew for every navigation.  An approval
\* that is taken back while the answer is on its way still opens the shop.
HomeChecksProfile ==
    [][calm /\ page' = "home" /\ going = "home" /\ going' = "none"
           => user \in eligible]_vars

----------------------------------------------------------------------------
(* Any order of presses and answers, with failures.                        *)

\* The two submit buttons, which share _isLoading, are disabled exactly while a
\* call of one of the forms is under way, and there is at most one: no answer
\* enables them early and no failure leaves them disabled.
LoadingMeansCall ==
    /\ isLoading <=> \E f \in futures : f.by = "form"
    /\ \A f, g \in futures : f.by = "form" /\ g.by = "form" => f = g

\* The first profile of u has been stored and is to be sent again.
Resending(u) == u \in inDoubt /\ \E f \in futures : f.call = "store" /\ f.uid = u

\* Nothing but the switch takes an approval back: registering again under the
\* same address, after whatever failed before, does not replace the profile.
\* Only the registration itself may, when it is sent again after the customer
\* was approved: register sets the document whatever is there.
ApprovalKept ==
    [][\A u \in Customers :
           profile[u] = "approved" /\ profile'[u] # "approved"
               => [uid |-> u, to |-> "waiting"] \in switches \/ Resending(u)]_vars

\* Login and Register are disabled only for a while, whichever calls Firebase
\* answers with an error: both functions reset _isLoading on all of these paths.
\* The exception is a customer who was signed out, by opening the register page
\* again, before their profile was stored: the write waits for them to come
\* back, and both buttons with it.
ButtonsReturn ==
    isLoading ~> \/ ~isLoading
                 \/ \E f \in futures : f.call = "store" /\ f.uid # user

\* What makes ApprovalKept inductive: only accounts have profiles, a registration
\* under way is for an account that has none or got it from that very
\* registration, of which there is one, and a switch is for a profile that is
\* there.
ProfileInv ==
    /\ \A u \in People \ accounts : profile[u] = "none"
    /\ \A f \in futures :
          f.call = "store" => /\ profile[f.uid] = "none" \/ f.uid \in inDoubt
                             /\ f.uid \in accounts
    /\ \A f, g \in futures :
          f.call = "store" /\ g.call = "store" /\ f.uid = g.uid => f = g
    /\ \A s \in switches : profile[s.uid] # "none"

=============================================================================
