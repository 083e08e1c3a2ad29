--------------------------- MODULE SessionProofs ---------------------------
(***************************************************************************)
(* What Session shows for any number of people, in whatever order buttons  *)
(* are pressed and calls are answered or fail.                             *)
(***************************************************************************)
EXTENDS Session, TLAPS

\* The calls of a navigation are well formed and none of them is of a form.
LEMMA CallsType ==
    ASSUME NEW u \in People \cup {Nobody},
           NEW to \in {"splash", "login", "register", "home", "admin"}
    PROVE  /\ Calls(to, u) \subseteq Future
           /\ \A f \in Calls(to, u) : f.by # "form" /\ f.call # "store"
BY DEF Calls, Call, Future

\* A navigation keeps the types.
LEMMA GoType ==
    ASSUME TypeOK, NEW rest \in SUBSET Future,
           NEW to \in {"splash", "login", "register", "home", "admin"},
           Go(to, rest)
    PROVE  /\ futures' = rest \cup Calls(to, user)
           /\ futures' \subseteq Future
           /\ page' \in Page /\ going' \in Page \cup {"none"}
           /\ eligible' \subseteq Customers
<1>1. Calls(to, user) \subseteq Future
  BY CallsType DEF TypeOK
<1>2. futures' = rest \cup Calls(to, user)
  BY DEF Go
<1>3. futures' \subseteq Future
  BY <1>1, <1>2
<1>4. /\ page' \in Page /\ going' \in Page \cup {"none"}
      /\ eligible' \subseteq Customers
  BY DEF Go, Page, TypeOK
<1> QED
  BY <1>2, <1>3, <1>4

\* So does entering the shop or the administration.
LEMMA EnterType ==
    ASSUME TypeOK, NEW rest \in SUBSET Future, NEW mounted, Enter(rest, mounted)
    PROVE  /\ futures' \subseteq Future
           /\ rest \subseteq futures'
           /\ \A f \in futures' \ rest : f.by # "form" /\ f.call # "store"
           /\ page' \in Page /\ going' \in Page \cup {"none"}
           /\ eligible' \subseteq Customers
<1> DEFINE to == IF isAdmin' = "true" THEN "admin" ELSE "home"
<1>1. CASE Go(to, rest)
  <2>1. to \in {"splash", "login", "register", "home", "admin"}
    OBVIOUS
  <2> HIDE DEF to
  <2>2. user \in People \cup {Nobody}
    BY DEF TypeOK
  <2> QED
    BY <1>1, <2>1, <2>2, GoType, CallsType
<1>2. CASE futures' = rest /\ UNCHANGED <<page, going, eligible>>
  BY <1>2 DEF TypeOK
<1> QED
  BY <1>1, <1>2 DEF Enter

\* What an acknowledged store leaves: the same calls, some reads with another
\* answer.
LEMMA RememberType ==
    ASSUME NEW rest \in SUBSET Future, NEW u
    PROVE  /\ Remember(rest, u) \subseteq Future
           /\ \A g \in Remember(rest, u) :
                 \E h \in rest : g.call = h.call /\ g.uid = h.uid /\ g.by = h.by
           /\ \A h \in rest :
                 \E g \in Remember(rest, u) : g.by = h.by
           /\ \A g \in Remember(rest, u) : g.call # "getUserData" => g \in rest
<1> DEFINE Image(g) == IF g.call = "getUserData" /\ g.uid = u /\ g.is # "asked"
                       THEN [g EXCEPT !.is = "waiting"] ELSE g
<1>1. Remember(rest, u) = {Image(g) : g \in rest}
  BY DEF Remember
<1>2. ASSUME NEW g \in Future
      PROVE  /\ Image(g) \in Future
             /\ Image(g).call = g.call /\ Image(g).uid = g.uid /\ Image(g).by = g.by
             /\ g.call # "getUserData" => Image(g) = g
  BY DEF Future, Profile
<1> HIDE DEF Image
<1> QED
  BY <1>1, <1>2

\* The people looked at are people.
LEMMA CrowdType ==
    ASSUME TypeOK
    PROVE  /\ Crowd[calm] \subseteq Customers
           /\ Crowd[calm] \cup Admins \subseteq People
BY CrowdAssumption DEF TypeOK, People

\* What a restart keeps is a set of stores that nobody awaits.
LEMMA KeptType ==
    ASSUME NEW kept \in SUBSET {f \in futures : f.call = "store"},
           futures \subseteq Future
    PROVE  /\ {[f EXCEPT !.by = "nobody"] : f \in kept} \subseteq Future
           /\ \A g \in {[f EXCEPT !.by = "nobody"] : f \in kept} :
                 /\ g.by = "nobody"
                 /\ \E f \in kept : g.call = f.call /\ g.uid = f.uid
<1> SUFFICES ASSUME NEW f \in kept
             PROVE  /\ [f EXCEPT !.by = "nobody"] \in Future
                    /\ [f EXCEPT !.by = "nobody"].by = "nobody"
                    /\ [f EXCEPT !.by = "nobody"].call = f.call
                    /\ [f EXCEPT !.by = "nobody"].uid = f.uid
  OBVIOUS
<1>1. f \in Future /\ f.call = "store"
  OBVIOUS
<1> QED
  BY <1>1 DEF Future

\* Typing, in any order of presses, answers and failures.
THEOREM SessionTypeCorrect == Spec => []TypeOK
<1> USE PeopleAssumption
<1>1. Init => TypeOK
  <2>1. Calls("splash", Nobody) \subseteq Future
    BY CallsType
  <2>2. Init => profile \in [People -> Profile] /\ accounts \subseteq People
    BY DEF Init, Profile, People
  <2>3. NoModel \in [uid : People \cup {Nobody}, is : Profile]
    BY DEF NoModel, Profile
  <2> QED
    BY <2>1, <2>2, <2>3 DEF Init, TypeOK, Page
<1>2. TypeOK /\ [Next]_vars => TypeOK'
  <2> SUFFICES ASSUME TypeOK, [Next]_vars PROVE TypeOK'
    OBVIOUS
  <2>1. CASE OpenRegister \/ Logout \/ Reload \/ ReturnHome
    <3>1. PICK to \in {"splash", "login", "register", "home", "admin"} :
              Go(to, futures)
      BY <2>1 DEF OpenRegister, Logout, Reload, ReturnHome
    <3>2. UNCHANGED <<server, user, isAdmin, userModel, isLoading>>
      BY <2>1 DEF OpenRegister, Logout, Reload, ReturnHome
    <3>3. futures \in SUBSET Future
      BY DEF TypeOK
    <3>4. /\ futures' \subseteq Future /\ page' \in Page /\ going' \in Page \cup {"none"}
          /\ eligible' \subseteq Customers
      BY <3>1, <3>3, GoType
    <3> QED
      BY <3>2, <3>4 DEF TypeOK, server
  <2>2. CASE BackToLogin
    BY <2>2 DEF BackToLogin, TypeOK, server, Page
  <2>3. ASSUME NEW kept \in SUBSET {f \in futures : f.call = "store"}, Restart(kept)
        PROVE  TypeOK'
    <3> DEFINE rest == {[f EXCEPT !.by = "nobody"] : f \in kept}
    <3>1. Go("splash", rest)
      BY <2>3 DEF Restart
    <3>2. rest \in SUBSET Future
      BY KeptType DEF TypeOK
    <3> HIDE DEF rest
    <3>3. /\ futures' \subseteq Future /\ page' \in Page /\ going' \in Page \cup {"none"}
          /\ eligible' \subseteq Customers
      BY <3>1, <3>2, GoType
    <3> QED
      BY <2>3, <3>3 DEF Restart, TypeOK, server, NoModel, Profile
  <2>4. ASSUME NEW u \in People, PressLogin(u) \/ (u \in Customers /\ PressRegister(u))
        PROVE  TypeOK'
    <3>1. Call("signIn", u, "form") \in Future /\ Call("create", u, "form") \in Future
      BY DEF Call, Future
    <3> QED
      BY <2>4, <3>1 DEF PressLogin, PressRegister, TypeOK, server
  <2>5. ASSUME NEW f \in futures, SignedIn(f) PROVE TypeOK'
    BY <2>5 DEF SignedIn, TypeOK, server, Call, Future
  <2>6. ASSUME NEW f \in futures, Rejected(f) PROVE TypeOK'
    BY <2>6 DEF Rejected, ErrorResponse, TypeOK, server
  <2>7. ASSUME NEW f \in futures, Created(f) PROVE TypeOK'
    <3>1. f.uid \in People
      BY <2>7 DEF Created, TypeOK, Future
    <3>2. Call("store", f.uid, "form") \in Future
      BY <3>1 DEF Call, Future
    <3> QED
      BY <2>7, <3>1, <3>2 DEF Created, TypeOK
  <2>8. ASSUME NEW f \in futures, Stored(f) PROVE TypeOK'
    <3>1. f.uid \in People
      BY <2>8 DEF Stored, TypeOK, Future
    <3>2. /\ futures' \subseteq Future /\ page' \in Page /\ going' \in Page \cup {"none"}
          /\ eligible' \subseteq Customers
      <4> DEFINE rest == Remember(futures \ {f}, f.uid)
      <4>1. rest \in SUBSET Future
        BY RememberType DEF TypeOK
      <4>2. Enter(rest, {"register"})
        BY <2>8 DEF Stored
      <4> HIDE DEF rest
      <4> QED
        BY <4>1, <4>2, EnterType
    <3> QED
      BY <2>8, <3>1, <3>2 DEF Stored, TypeOK, Profile
  <2>9. ASSUME NEW f \in futures, f.call = "getUserData", f.is # "asked", Assume(f)
        PROVE  isAdmin' \in {"null", "true", "false"}
               /\ userModel' \in [uid : People \cup {Nobody}, is : Profile]
    <3>1. f.uid \in People \cup {Nobody}
      BY <2>9 DEF TypeOK, Future
    <3>2. ProfileOf(f) \in Profile
      <4>1. f.is \in Profile
        BY <2>9 DEF TypeOK, Future
      <4> QED
        BY <4>1 DEF ProfileOf, Profile
    <3> QED
      BY <2>9, <3>1, <3>2 DEF Assume, TypeOK
  <2>10. ASSUME NEW f \in futures, FormRead(f) PROVE TypeOK'
    <3>1. futures \ {f} \in SUBSET Future
          /\ Enter(futures \ {f}, {"login", "register"})
      BY <2>10 DEF FormRead, TypeOK
    <3>2. /\ futures' \subseteq Future /\ page' \in Page /\ going' \in Page \cup {"none"}
          /\ eligible' \subseteq Customers
      BY <3>1, EnterType
    <3> QED
      BY <2>9, <2>10, <3>2 DEF FormRead, TypeOK, server
  <2>11. ASSUME NEW f \in futures, CheckRead(f) PROVE TypeOK'
    <3>1. futures \ {f} \in SUBSET Future /\ Enter(futures \ {f}, {"splash"})
      BY <2>11 DEF CheckRead, TypeOK
    <3>2. /\ futures' \subseteq Future /\ page' \in Page /\ going' \in Page \cup {"none"}
          /\ eligible' \subseteq Customers
      BY <3>1, EnterType
    <3> QED
      BY <2>9, <2>11, <3>2 DEF CheckRead, TypeOK, server
  <2>12. ASSUME NEW f \in futures, RedirectRead(f) PROVE TypeOK'
    BY <2>9, <2>12 DEF RedirectRead, TypeOK, server, Page
  <2>13. ASSUME NEW f \in futures, SignedOut(f) PROVE TypeOK'
    <3>1. Target(f) \in Page
      BY <2>13 DEF SignedOut, TypeOK, Future, Target, Page
    <3> QED
      BY <2>13, <3>1 DEF SignedOut, TypeOK, server, Page
  <2>14. ASSUME NEW f \in futures, Failed(f) PROVE TypeOK'
    BY <2>14 DEF Failed, ErrorResponse, TypeOK, server
  <2>15. ASSUME NEW u \in Customers, Flip(u) PROVE TypeOK'
    BY <2>15 DEF Flip, TypeOK
  <2>16. ASSUME NEW s \in switches, NEW answered \in BOOLEAN, Flipped(s, answered)
         PROVE  TypeOK'
    BY <2>16 DEF Flipped, TypeOK, Profile, People
  <2>17. ASSUME NEW f \in futures, StoredLate(f) \/ StoredUnanswered(f)
         PROVE  TypeOK'
    <3>1. f.uid \in People
      BY <2>17 DEF StoredLate, StoredUnanswered, TypeOK, Future
    <3>2. futures' \subseteq Future
      <4>1. Remember(futures \ {f}, f.uid) \subseteq Future
        BY RememberType DEF TypeOK
      <4> QED
        BY <2>17, <4>1 DEF StoredLate, StoredUnanswered, TypeOK
    <3> QED
      BY <2>17, <3>1, <3>2 DEF StoredLate, StoredUnanswered, TypeOK, Profile
  <2>18. CASE UNCHANGED vars
    BY <2>18 DEF vars, TypeOK
  <2>19. ASSUME NEW f \in futures, Served(f) PROVE TypeOK'
    <3>1. PICK found \in Profile :
              futures' = (futures \ {f}) \cup {[f EXCEPT !.is = found]}
      <4>1. /\ f.uid \in People \cup {Nobody} /\ profile \in [People -> Profile]
            /\ "none" \in Profile
        BY DEF TypeOK, Future, Profile
      <4> QED
        BY <2>19, <4>1 DEF Served
    <3>2. [f EXCEPT !.is = found] \in Future
      <4>1. f \in Future /\ f.call = "getUserData"
        BY <2>19 DEF Served, TypeOK
      <4> QED
        BY <4>1 DEF Future
    <3> QED
      BY <2>19, <3>1, <3>2 DEF Served, TypeOK, server
  <2> QED
    BY <2>1, <2>2, <2>3, <2>4, <2>5, <2>6, <2>7, <2>8, <2>10, <2>11, <2>12,
       <2>13, <2>14, <2>15, <2>16, <2>17, <2>18, <2>19, CrowdType DEF Next, Answer
<1> QED
  BY <1>1, <1>2, PTL DEF Spec

----------------------------------------------------------------------------
(* The buttons.                                                            *)

FormCall(f) == f.by = "form"

\* Which callers belong to which calls.
LEMMA CallersType ==
    ASSUME NEW f \in Future
    PROVE  /\ f.call \in {"signIn", "create"} => FormCall(f)
           /\ f.call = "signOut" => ~FormCall(f)
BY DEF Future, FormCall

\* Steps that leave the calls of the forms, and the button, alone.
LEMMA SameFormCalls ==
    ASSUME LoadingMeansCall, isLoading' = isLoading,
           \A f \in futures : FormCall(f) => f \in futures',
           \A f \in futures' : FormCall(f) => f \in futures
    PROVE  LoadingMeansCall'
BY DEF LoadingMeansCall, FormCall

\* Steps that end the only call of a form, f, and enable the button.
LEMMA NoFormCalls ==
    ASSUME LoadingMeansCall, NEW f \in futures, FormCall(f), isLoading' = FALSE,
           \A g \in futures' : FormCall(g) => g \in futures \ {f}
    PROVE  LoadingMeansCall'
BY DEF LoadingMeansCall, FormCall

\* Login and Register are disabled exactly while a call of a form is under way,
\* in any order of presses, answers and failures.
THEOREM LoadingMeansCallHolds == Spec => []LoadingMeansCall
<1>1. Init => LoadingMeansCall
  BY DEF Init, LoadingMeansCall, Calls, Call
<1>2. TypeOK /\ LoadingMeansCall /\ [Next]_vars => LoadingMeansCall'
  <2> SUFFICES ASSUME TypeOK, LoadingMeansCall, [Next]_vars
               PROVE  LoadingMeansCall'
    OBVIOUS
  <2>0. futures \subseteq Future /\ user \in People \cup {Nobody}
    BY DEF TypeOK
  <2>1. CASE OpenRegister \/ Logout \/ Reload \/ ReturnHome
    <3>1. PICK to \in {"splash", "login", "register", "home", "admin"} :
              Go(to, futures)
      BY <2>1 DEF OpenRegister, Logout, Reload, ReturnHome
    <3>2. isLoading' = isLoading
      BY <2>1 DEF OpenRegister, Logout, Reload, ReturnHome
    <3>3. futures' = futures \cup Calls(to, user)
      BY <3>1 DEF Go
    <3> QED
      BY <2>0, <3>2, <3>3, CallsType, SameFormCalls DEF FormCall
  <2>2. CASE BackToLogin
    BY <2>2, SameFormCalls DEF BackToLogin
  <2>3. ASSUME NEW kept \in SUBSET {f \in futures : f.call = "store"}, Restart(kept)
        PROVE  LoadingMeansCall'
    <3> DEFINE rest == {[f EXCEPT !.by = "nobody"] : f \in kept}
    <3>1. futures' = rest \cup Calls("splash", user) /\ isLoading' = FALSE
      BY <2>3 DEF Restart, Go
    <3>2. \A g \in rest : g.by = "nobody"
      BY <2>0, KeptType
    <3> HIDE DEF rest
    <3>3. \A g \in futures' : g.by # "form"
      BY <2>0, <3>1, <3>2, CallsType
    <3> QED
      BY <3>1, <3>3 DEF LoadingMeansCall
  <2>4. ASSUME NEW u \in People, PressLogin(u) \/ PressRegister(u)
        PROVE  LoadingMeansCall'
    <3>1. PICK g : futures' = futures \cup {g} /\ g.by = "form"
      <4>1. Call("signIn", u, "form").by = "form" /\ Call("create", u, "form").by = "form"
        BY DEF Call
      <4> QED
        BY <2>4, <4>1 DEF PressLogin, PressRegister
    <3>2. isLoading' = TRUE /\ ~isLoading
      BY <2>4 DEF PressLogin, PressRegister
    <3> QED
      BY <3>1, <3>2 DEF LoadingMeansCall
  <2>5. ASSUME NEW f \in futures, SignedIn(f) \/ Created(f)
        PROVE  LoadingMeansCall'
    <3>1. FormCall(f) /\ isLoading' = isLoading
      BY <2>0, <2>5, CallersType DEF SignedIn, Created
    <3>2. PICK g : futures' = (futures \ {f}) \cup {g} /\ g.by = "form"
      <4>1. /\ Call("getUserData", f.uid, "form").by = "form"
            /\ Call("store", f.uid, "form").by = "form"
        BY DEF Call
      <4> QED
        BY <2>5, <4>1 DEF SignedIn, Created
    <3> QED
      BY <3>1, <3>2 DEF LoadingMeansCall, FormCall
  <2>6. ASSUME NEW f \in futures, Rejected(f) PROVE LoadingMeansCall'
    BY <2>0, <2>6, CallersType, NoFormCalls DEF Rejected, ErrorResponse
  <2>7. ASSUME NEW f \in futures, Stored(f) PROVE LoadingMeansCall'
    <3> DEFINE rest == Remember(futures \ {f}, f.uid)
    <3>1. FormCall(f) /\ isLoading' = FALSE /\ Enter(rest, {"register"})
      BY <2>7 DEF Stored, FormCall
    <3>2. /\ rest \in SUBSET Future
          /\ \A g \in rest : \E h \in futures \ {f} : g.by = h.by
      <4>1. futures \ {f} \in SUBSET Future
        BY <2>0
      <4> QED
        BY <4>1, RememberType
    <3> HIDE DEF rest
    <3>3. \A g \in futures' : FormCall(g) => g \in rest
      BY <3>1, <3>2, EnterType DEF FormCall
    <3>4. \A h \in futures \ {f} : ~FormCall(h)
      BY <3>1 DEF LoadingMeansCall, FormCall
    <3>5. \A g \in futures' : ~FormCall(g)
      BY <3>2, <3>3, <3>4 DEF FormCall
    <3> QED
      BY <3>1, <3>5 DEF LoadingMeansCall, FormCall
  <2>8. ASSUME NEW f \in futures, FormRead(f) PROVE LoadingMeansCall'
    <3>1. /\ FormCall(f) /\ isLoading' = FALSE
          /\ futures \ {f} \in SUBSET Future
          /\ Enter(futures \ {f}, {"login", "register"})
      BY <2>0, <2>8 DEF FormRead, FormCall
    <3>2. \A g \in futures' : FormCall(g) => g \in futures \ {f}
      BY <3>1, EnterType DEF FormCall
    <3> QED
      BY <3>1, <3>2, NoFormCalls
  <2>9. ASSUME NEW f \in futures, CheckRead(f) PROVE LoadingMeansCall'
    <3>1. /\ ~FormCall(f) /\ isLoading' = isLoading
          /\ futures \ {f} \in SUBSET Future /\ Enter(futures \ {f}, {"splash"})
      BY <2>0, <2>9 DEF CheckRead, FormCall
    <3>2. /\ \A g \in futures' : FormCall(g) => g \in futures
          /\ \A g \in futures : FormCall(g) => g \in futures'
      BY <3>1, EnterType DEF FormCall
    <3> QED
      BY <3>1, <3>2, SameFormCalls
  <2>10. ASSUME NEW f \in futures, RedirectRead(f) \/ SignedOut(f)
         PROVE  LoadingMeansCall'
    <3>1. ~FormCall(f)
      BY <2>0, <2>10, CallersType DEF RedirectRead, SignedOut, FormCall
    <3>2. futures' = futures \ {f} /\ isLoading' = isLoading
      BY <2>10 DEF RedirectRead, SignedOut
    <3> QED
      BY <3>1, <3>2, SameFormCalls
  <2>11. ASSUME NEW f \in futures, Failed(f) PROVE LoadingMeansCall'
    <3>1. CASE FormCall(f)
      BY <2>11, <3>1, NoFormCalls DEF Failed, ErrorResponse, FormCall
    <3>2. CASE ~FormCall(f)
      BY <2>11, <3>2, SameFormCalls DEF Failed, FormCall
    <3> QED
      BY <3>1, <3>2
  <2>12. ASSUME NEW u \in Customers, Flip(u) PROVE LoadingMeansCall'
    BY <2>12, SameFormCalls DEF Flip
  <2>13. ASSUME NEW s \in switches, NEW answered \in BOOLEAN, Flipped(s, answered)
         PROVE  LoadingMeansCall'
    BY <2>13, SameFormCalls DEF Flipped
  <2>14. ASSUME NEW f \in futures, StoredLate(f) \/ StoredUnanswered(f)
         PROVE  LoadingMeansCall'
    <3>1. CASE StoredUnanswered(f)
      BY <3>1, SameFormCalls DEF StoredUnanswered
    <3>2. CASE StoredLate(f)
      <4>1. /\ f.by = "nobody" /\ futures' = Remember(futures \ {f}, f.uid)
            /\ isLoading' = isLoading
        BY <3>2 DEF StoredLate
      <4> DEFINE Image(g) == IF g.call = "getUserData" /\ g.uid = f.uid /\ g.is # "asked"
                             THEN [g EXCEPT !.is = "waiting"] ELSE g
      <4>2. futures' = {Image(g) : g \in futures \ {f}}
        BY <4>1 DEF Remember
      <4>3. \A g \in futures : Image(g).by = g.by
        BY <2>0 DEF Future
      <4> HIDE DEF Image
      <4>4. \A g \in futures' : \E h \in futures : g = Image(h) /\ g.by = h.by
        BY <4>2, <4>3
      <4>5. \A h \in futures : h.by = "form" => Image(h) \in futures' /\ Image(h).by = "form"
        BY <4>1, <4>2, <4>3
      <4>6. isLoading' <=> \E g \in futures' : g.by = "form"
        BY <4>1, <4>4, <4>5 DEF LoadingMeansCall
      <4>7. \A g, h \in futures' : g.by = "form" /\ h.by = "form" => g = h
        BY <4>4 DEF LoadingMeansCall
      <4> QED
        BY <4>6, <4>7 DEF LoadingMeansCall
    <3> QED
      BY <2>14, <3>1, <3>2
  <2>15. CASE UNCHANGED vars
    BY <2>15, SameFormCalls DEF vars
  <2>16. ASSUME NEW f \in futures, Served(f) PROVE LoadingMeansCall'
    <3>1. PICK g : futures' = (futures \ {f}) \cup {g} /\ g.by = f.by
      <4>1. \A found : [f EXCEPT !.is = found].by = f.by
        BY <2>0 DEF Future
      <4> QED
        BY <2>16, <4>1 DEF Served
    <3>2. isLoading' = isLoading
      BY <2>16 DEF Served
    <3> QED
      BY <3>1, <3>2 DEF LoadingMeansCall
  <2> QED
    BY <2>1, <2>2, <2>3, <2>4, <2>5, <2>6, <2>7, <2>8, <2>9, <2>10, <2>11,
       <2>12, <2>13, <2>14, <2>15, <2>16, CrowdType DEF Next, Answer, People
<1> QED
  BY <1>1, <1>2, SessionTypeCorrect, PTL DEF Spec

----------------------------------------------------------------------------
(* The profiles.                                                           *)

\* Steps that touch no profile and begin no registration.
LEMMA SameProfiles ==
    ASSUME ProfileInv, UNCHANGED <<accounts, profile, switches, inDoubt>>,
           \A f \in futures' : f.call = "store" => f \in futures
    PROVE  ProfileInv'
BY DEF ProfileInv

\* A store that ends: profile u is there, and no other store is for it.
LEMMA StoreKeeps ==
    ASSUME TypeOK, ProfileInv, NEW u \in accounts, UNCHANGED <<accounts, switches>>,
           profile' = [profile EXCEPT ![u] = "waiting"], inDoubt' = inDoubt \ {u},
           \A g \in futures' : g.call = "store" => g.uid # u /\ g \in futures
    PROVE  ProfileInv'
<1>1. /\ profile \in [People -> Profile] /\ futures \subseteq Future
      /\ switches \subseteq [uid : Customers, to : {"waiting", "approved"}]
  BY DEF TypeOK
<1>2. \A s \in switches' : profile'[s.uid] # "none"
  BY <1>1 DEF ProfileInv, People
<1>3. \A v \in People \ accounts' : profile'[v] = "none"
  BY <1>1 DEF ProfileInv
<1>4. \A g \in futures' : g.call = "store"
          => /\ profile'[g.uid] = "none" \/ g.uid \in inDoubt'
             /\ g.uid \in accounts'
  <2> SUFFICES ASSUME NEW g \in futures', g.call = "store"
               PROVE  /\ profile'[g.uid] = "none" \/ g.uid \in inDoubt'
                      /\ g.uid \in accounts'
    OBVIOUS
  <2>1. g \in futures /\ g.uid # u /\ g.uid \in People
    BY <1>1 DEF Future
  <2> QED
    BY <1>1, <2>1 DEF ProfileInv
<1> QED
  BY <1>2, <1>3, <1>4 DEF ProfileInv

\* Only accounts have profiles, and only new accounts get one by registering.
LEMMA ProfileInvHolds == Spec => []ProfileInv
<1>1. Init => ProfileInv
  BY DEF Init, ProfileInv, Calls, Call
<1>2. TypeOK /\ ProfileInv /\ [Next]_vars => ProfileInv'
  <2> SUFFICES ASSUME TypeOK, ProfileInv, [Next]_vars
               PROVE  ProfileInv'
    OBVIOUS
  <2>0. futures \subseteq Future /\ user \in People \cup {Nobody}
    BY DEF TypeOK
  <2>1. CASE OpenRegister \/ Logout \/ Reload \/ ReturnHome
    <3>1. PICK to \in {"splash", "login", "register", "home", "admin"} :
              Go(to, futures)
      BY <2>1 DEF OpenRegister, Logout, Reload, ReturnHome
    <3>2. UNCHANGED <<accounts, profile, switches, inDoubt>>
      BY <2>1 DEF OpenRegister, Logout, Reload, ReturnHome, server
    <3>3. futures' = futures \cup Calls(to, user)
      BY <3>1 DEF Go
    <3> QED
      BY <2>0, <3>2, <3>3, CallsType, SameProfiles
  <2>2. CASE BackToLogin
    BY <2>2, SameProfiles DEF BackToLogin, server
  <2>3. ASSUME NEW kept \in SUBSET {f \in futures : f.call = "store"}, Restart(kept)
        PROVE  ProfileInv'
    <3> DEFINE rest == {[f EXCEPT !.by = "nobody"] : f \in kept}
    <3>1. futures' = rest \cup Calls("splash", user)
      BY <2>3 DEF Restart, Go
    <3>2. UNCHANGED <<accounts, profile, switches, inDoubt>>
      BY <2>3 DEF Restart, server
    <3>3. \A g \in rest : \E f \in futures : f.call = "store" /\ g.uid = f.uid
      BY <2>0, KeptType
    <3>4. \A g, h \in rest : g.uid = h.uid => g = h
      <4>1. \A f \in kept : [f EXCEPT !.by = "nobody"].uid = f.uid
        BY <2>0, KeptType DEF Future
      <4>2. \A f, g \in kept : f.uid = g.uid => f = g
        BY DEF ProfileInv
      <4> SUFFICES ASSUME NEW f \in kept, NEW g \in kept,
                          [f EXCEPT !.by = "nobody"].uid = [g EXCEPT !.by = "nobody"].uid
                   PROVE  [f EXCEPT !.by = "nobody"] = [g EXCEPT !.by = "nobody"]
        OBVIOUS
      <4>3. f = g
        BY <4>1, <4>2
      <4> QED
        BY <4>3
    <3> HIDE DEF rest
    <3>5. \A g \in futures' : g.call = "store" => g \in rest
      BY <2>0, <3>1, CallsType
    <3> QED
      BY <3>2, <3>3, <3>4, <3>5 DEF ProfileInv
  <2>4. ASSUME NEW u \in People, PressLogin(u) \/ PressRegister(u)
        PROVE  ProfileInv'
    <3>1. PICK g : futures' = futures \cup {g} /\ g.call # "store"
      <4>1. /\ Call("signIn", u, "form").call # "store"
            /\ Call("create", u, "form").call # "store"
        BY DEF Call
      <4> QED
        BY <2>4, <4>1 DEF PressLogin, PressRegister
    <3>2. UNCHANGED <<accounts, profile, switches, inDoubt>>
      BY <2>4 DEF PressLogin, PressRegister, server
    <3> QED
      BY <3>1, <3>2, SameProfiles
  <2>5. ASSUME NEW f \in futures, SignedIn(f) PROVE ProfileInv'
    <3>1. Call("getUserData", f.uid, "form").call # "store"
      BY DEF Call
    <3>2. UNCHANGED <<accounts, profile, switches, inDoubt>>
      BY <2>5 DEF SignedIn, server
    <3> QED
      BY <2>5, <3>1, <3>2, SameProfiles DEF SignedIn
  <2>6. ASSUME NEW f \in futures, Created(f) PROVE ProfileInv'
    <3> DEFINE g == Call("store", f.uid, "form")
    <3>1. g.uid = f.uid /\ f.uid \in People
      BY <2>0, <2>6 DEF Created, Future, Call
    <3>2. /\ futures' = (futures \ {f}) \cup {g}
          /\ accounts' = accounts \cup {f.uid} /\ f.uid \notin accounts
          /\ UNCHANGED <<profile, switches, inDoubt>>
      BY <2>6 DEF Created
    <3> HIDE DEF g
    <3> QED
      BY <3>1, <3>2 DEF ProfileInv
  <2>7. ASSUME NEW f \in futures, Stored(f) \/ StoredLate(f) PROVE ProfileInv'
    <3>1. f.call = "store" /\ f.uid \in People /\ futures \ {f} \in SUBSET Future
      BY <2>0, <2>7 DEF Stored, StoredLate, Future
    <3>2. \A g \in futures' : g.call = "store" => g \in futures \ {f}
      <4> DEFINE rest == Remember(futures \ {f}, f.uid)
      <4>0. /\ rest \in SUBSET Future
            /\ \A g \in rest : g.call = "store" => g \in futures \ {f}
        BY <3>1, RememberType
      <4> HIDE DEF rest
      <4>1. CASE Stored(f)
        <5>1. Enter(rest, {"register"})
          BY <4>1 DEF Stored, rest
        <5> QED
          BY <4>0, <5>1, EnterType
      <4>2. CASE StoredLate(f)
        BY <4>0, <4>2 DEF StoredLate, rest
      <4> QED
        BY <2>7, <4>1, <4>2
    <3>3. \A g \in futures' : g.call = "store" => g.uid # f.uid /\ g \in futures
      BY <3>1, <3>2 DEF ProfileInv
    <3>4. /\ UNCHANGED <<accounts, switches>> /\ f.uid \in accounts
          /\ profile' = [profile EXCEPT ![f.uid] = "waiting"]
          /\ inDoubt' = inDoubt \ {f.uid}
      BY <2>7 DEF Stored, StoredLate, ProfileInv
    <3> QED
      BY <2>0, <3>3, <3>4, StoreKeeps
  <2>8. ASSUME NEW f \in futures, FormRead(f) \/ CheckRead(f)
        PROVE  ProfileInv'
    <3>1. PICK mounted : Enter(futures \ {f}, mounted)
      BY <2>8 DEF FormRead, CheckRead
    <3>2. futures \ {f} \in SUBSET Future
      BY <2>0
    <3>3. \A g \in futures' : g.call = "store" => g \in futures
      BY <3>1, <3>2, EnterType
    <3>4. UNCHANGED <<accounts, profile, switches, inDoubt>>
      BY <2>8 DEF FormRead, CheckRead, server
    <3> QED
      BY <3>3, <3>4, SameProfiles
  <2>9. ASSUME NEW f \in futures,
               Rejected(f) \/ RedirectRead(f) \/ SignedOut(f) \/ Failed(f)
        PROVE  ProfileInv'
    <3>1. futures' = futures \ {f} /\ UNCHANGED <<accounts, profile, switches, inDoubt>>
      BY <2>9 DEF Rejected, RedirectRead, SignedOut, Failed, ErrorResponse, server
    <3> QED
      BY <3>1, SameProfiles
  <2>10. ASSUME NEW u \in Customers, Flip(u) PROVE ProfileInv'
    BY <2>10 DEF Flip, ProfileInv
  <2>11. ASSUME NEW s \in switches, NEW answered \in BOOLEAN, Flipped(s, answered)
         PROVE  ProfileInv'
    <3>1. /\ profile \in [People -> Profile] /\ s.uid \in People /\ s.to # "none"
          /\ switches \subseteq [uid : Customers, to : {"waiting", "approved"}]
      BY DEF TypeOK, People
    <3>2. /\ profile' = [profile EXCEPT ![s.uid] = s.to]
          /\ UNCHANGED <<accounts, futures, inDoubt>> /\ switches' \subseteq switches
      BY <2>11 DEF Flipped
    <3>3. profile[s.uid] # "none"
      BY DEF ProfileInv
    <3>4. \A u \in People : profile[u] = "none" <=> profile'[u] = "none"
      BY <3>1, <3>2, <3>3
    <3>5. \A f \in futures : f.call = "store" => f.uid \in People
      BY <2>0 DEF Future
    <3> QED
      BY <3>1, <3>2, <3>4, <3>5 DEF ProfileInv, People
  <2>12. ASSUME NEW f \in futures, StoredUnanswered(f) PROVE ProfileInv'
    <3>1. /\ profile' = [profile EXCEPT ![f.uid] = "waiting"]
          /\ inDoubt' = inDoubt \cup {f.uid}
          /\ UNCHANGED <<accounts, switches, futures>>
      BY <2>12 DEF StoredUnanswered
    <3>2. f.uid \in accounts /\ f.uid \in People
      BY <2>0, <2>12 DEF StoredUnanswered, ProfileInv, Future
    <3>3. /\ profile \in [People -> Profile]
          /\ switches \subseteq [uid : Customers, to : {"waiting", "approved"}]
      BY DEF TypeOK
    <3>4. \A s \in switches' : profile'[s.uid] # "none"
      BY <3>1, <3>3 DEF ProfileInv, People
    <3>5. \A g \in futures : g.call = "store" => g.uid \in People
      BY <2>0 DEF Future
    <3> QED
      BY <3>1, <3>2, <3>3, <3>4, <3>5 DEF ProfileInv
  <2>13. CASE UNCHANGED vars
    BY <2>13, SameProfiles DEF vars
  <2>14. ASSUME NEW f \in futures, Served(f) PROVE ProfileInv'
    <3>1. PICK g : futures' = (futures \ {f}) \cup {g} /\ g.call # "store"
      <4>1. \A found : [f EXCEPT !.is = found].call # "store"
        BY <2>0, <2>14 DEF Future, Served
      <4> QED
        BY <2>14, <4>1 DEF Served
    <3>2. UNCHANGED <<accounts, profile, switches, inDoubt>>
      BY <2>14 DEF Served, server
    <3> QED
      BY <3>1, <3>2, SameProfiles
  <2> QED
    BY <2>1, <2>2, <2>3, <2>4, <2>5, <2>6, <2>7, <2>8, <2>9, <2>10, <2>11,
       <2>12, <2>13, <2>14, CrowdType DEF Next, Answer, People
<1> QED
  BY <1>1, <1>2, SessionTypeCorrect, PTL DEF Spec

\* Only an administrator's switch takes an approval back, whatever is pressed,
\* fails or is tried again: a registration stores a profile only where there was
\* none, or once more when the answer was lost.
THEOREM ApprovalKeptHolds == Spec => ApprovalKept
<1> DEFINE Keeps == \A u \in Customers :
                        profile[u] = "approved" /\ profile'[u] # "approved"
                            => [uid |-> u, to |-> "waiting"] \in switches
                               \/ Resending(u)
<1>1. TypeOK /\ ProfileInv /\ [Next]_vars => [Keeps]_vars
  <2> SUFFICES ASSUME TypeOK, ProfileInv, [Next]_vars PROVE Keeps
    OBVIOUS
  <2>0. profile \in [People -> Profile] /\ futures \subseteq Future
    BY DEF TypeOK
  <2>1. CASE UNCHANGED profile
    BY <2>1
  <2>2. ASSUME NEW f \in futures,
               Stored(f) \/ StoredLate(f) \/ StoredUnanswered(f)
        PROVE  Keeps
    <3>1. /\ f.call = "store"
          /\ profile' = [profile EXCEPT ![f.uid] = "waiting"]
      BY <2>2 DEF Stored, StoredLate, StoredUnanswered
    <3>2. profile[f.uid] = "none" \/ Resending(f.uid)
      BY <3>1 DEF ProfileInv, Resending
    <3> QED
      BY <2>0, <3>1, <3>2 DEF People
  <2>3. ASSUME NEW s \in switches, NEW answered \in BOOLEAN, Flipped(s, answered)
        PROVE  Keeps
    <3>1. s \in [uid : Customers, to : {"waiting", "approved"}]
      BY DEF TypeOK
    <3>2. profile' = [profile EXCEPT ![s.uid] = s.to]
      BY <2>3 DEF Flipped
    <3> QED
      BY <2>0, <3>1, <3>2 DEF People
  <2>4. \/ UNCHANGED profile
        \/ \E f \in futures : Stored(f) \/ StoredLate(f) \/ StoredUnanswered(f)
        \/ \E s \in switches, answered \in BOOLEAN : Flipped(s, answered)
    BY DEF Next, Answer, vars, server, OpenRegister, BackToLogin, Logout, Reload,
           ReturnHome, Restart, PressLogin, PressRegister, SignedIn, Rejected,
           ErrorResponse, Created, Served, FormRead, CheckRead, RedirectRead, SignedOut,
           Failed, Flip
  <2> QED
    BY <2>1, <2>2, <2>3, <2>4
<1> QED
  BY <1>1, SessionTypeCorrect, ProfileInvHolds, PTL DEF Spec, ApprovalKept

----------------------------------------------------------------------------
(* A device used one press at a time, whose calls succeed.                 *)

\* Profiles are of customers, and no approval goes unnoticed.
RolesInv ==
    /\ \A u \in Admins : profile[u] = "none"
    /\ \A f \in futures : f.call \in {"create", "store"} => f.uid \in Customers
    /\ \A u \in Customers : profile[u] = "approved" => u \in wasApproved

\* The call that is under way, with what it was made for; a read that the server
\* has served knows an administrator, and an approval only of a customer who had
\* one, for the home page since the navigation to it began.
CalmCall(f) ==
    \/ f.call = "signOut" /\ going = f.by
    \/ f.call = "signIn" /\ page = "login" /\ user = Nobody
    \/ f.call = "create" /\ page = "register" /\ user = Nobody
    \/ f.call = "store" /\ f.by = "form" /\ f.uid = user /\ page = "register"
    \/ /\ f.call = "getUserData" /\ f.uid = user /\ user # Nobody
       /\ f.is = "none" => user \in Admins
       /\ f.is \in {"waiting", "approved"} => user \in Customers
       /\ f.is = "approved" => user \in wasApproved
       /\ \/ f.by = "form" /\ page = "login"
          \/ f.by = "check" /\ page = "splash"
          \/ /\ f.by = "redirect" /\ going = "home" /\ user \in Customers
             /\ f.is = "approved" \/ profile[user] = "approved" => user \in eligible

\* What PageFitsUser says, and the splash screen is left.
AtRest ==
    /\ page # "splash"
    /\ page \in {"login", "register"} => user = Nobody
    /\ page = "admin" => user \in Admins
    /\ page \in {"home", "blocked"} => user \in Customers /\ userModel.uid = user
    /\ page = "home" => user \in wasApproved

\* One call is under way, or the device is at rest; and a customer with an account
\* has a profile, or it is being stored.
CalmInv ==
    calm =>
        /\ user \in accounts \cup {Nobody}
        /\ \A u \in accounts \cap Customers :
              profile[u] # "none" \/ \E f \in futures : f.call = "store" /\ f.uid = u
        /\ \A f, g \in futures : f = g
        /\ \A f \in futures : CalmCall(f)
        /\ futures = {} => AtRest

\* No profile is of an administrator, and an approval is remembered.
LEMMA RolesInvHolds == Spec => []RolesInv
<1> USE PeopleAssumption
<1>1. Init => RolesInv
  BY DEF Init, RolesInv, Calls, Call, People
<1>2. TypeOK /\ RolesInv /\ [Next]_vars => RolesInv'
  <2> SUFFICES ASSUME TypeOK, RolesInv, [Next]_vars PROVE RolesInv'
    OBVIOUS
  <2>0. futures \subseteq Future /\ user \in People \cup {Nobody} /\ profile \in [People -> Profile]
    BY DEF TypeOK
  <2>1. ASSUME UNCHANGED <<profile, wasApproved>>,
               \A f \in futures' : f.call \in {"create", "store"} => f.uid \in Customers
        PROVE  RolesInv'
    BY <2>1 DEF RolesInv
  <2>2. ASSUME UNCHANGED <<profile, wasApproved>>,
               \A f \in futures' : f \in futures \/ f.call \notin {"create", "store"}
        PROVE  RolesInv'
    BY <2>2 DEF RolesInv
  <2>3. \A to \in {"splash", "login", "register", "home", "admin"} :
           \A f \in Calls(to, user) : f.call \notin {"create", "store"}
    BY <2>0 DEF Calls, Call
  <2>4. CASE OpenRegister \/ Logout \/ Reload \/ ReturnHome
    <3>1. PICK to \in {"splash", "login", "register", "home", "admin"} : Go(to, futures)
      BY <2>4 DEF OpenRegister, Logout, Reload, ReturnHome
    <3>2. UNCHANGED <<profile, wasApproved>> /\ futures' = futures \cup Calls(to, user)
      BY <2>4, <3>1 DEF OpenRegister, Logout, Reload, ReturnHome, server, Go
    <3> QED
      BY <2>2, <2>3, <3>2
  <2>5. CASE BackToLogin
    BY <2>2, <2>5 DEF BackToLogin, server
  <2>6. ASSUME NEW kept \in SUBSET {f \in futures : f.call = "store"}, Restart(kept)
        PROVE  RolesInv'
    <3> DEFINE rest == {[f EXCEPT !.by = "nobody"] : f \in kept}
    <3>1. /\ futures' = rest \cup Calls("splash", user)
          /\ UNCHANGED <<profile, wasApproved>>
      BY <2>6 DEF Restart, Go, server
    <3>2. \A g \in rest : \E f \in kept : g.call = f.call /\ g.uid = f.uid
      BY <2>0, KeptType
    <3>3. \A g \in rest : g.uid \in Customers
      BY <3>2 DEF RolesInv
    <3> HIDE DEF rest
    <3> QED
      BY <2>1, <2>3, <3>1, <3>3
  <2>7. ASSUME NEW u \in People, PressLogin(u) PROVE RolesInv'
    <3>1. Call("signIn", u, "form").call = "signIn"
      BY DEF Call
    <3> QED
      BY <2>2, <2>7, <3>1 DEF PressLogin, server
  <2>8. ASSUME NEW u \in Customers, PressRegister(u) PROVE RolesInv'
    <3>1. Call("create", u, "form").uid = u
      BY DEF Call
    <3>2. UNCHANGED <<profile, wasApproved>> /\ futures' = futures \cup {Call("create", u, "form")}
      BY <2>8 DEF PressRegister, server
    <3> QED
      BY <2>1, <3>1, <3>2 DEF RolesInv
  <2>9. ASSUME NEW f \in futures, SignedIn(f) PROVE RolesInv'
    <3>1. Call("getUserData", f.uid, "form").call = "getUserData"
      BY DEF Call
    <3> QED
      BY <2>2, <2>9, <3>1 DEF SignedIn, server
  <2>10. ASSUME NEW f \in futures, Created(f) PROVE RolesInv'
    <3>1. Call("store", f.uid, "form").uid = f.uid /\ f.uid \in Customers
      BY <2>10 DEF Call, Created, RolesInv
    <3>2. /\ UNCHANGED <<profile, wasApproved>>
          /\ futures' = (futures \ {f}) \cup {Call("store", f.uid, "form")}
      BY <2>10 DEF Created
    <3> QED
      BY <2>1, <3>1, <3>2 DEF RolesInv
  <2>11. ASSUME NEW f \in futures, Stored(f) \/ StoredLate(f) \/ StoredUnanswered(f)
         PROVE  RolesInv'
    <3>1. /\ f.call = "store" /\ profile' = [profile EXCEPT ![f.uid] = "waiting"]
          /\ wasApproved' = wasApproved
      BY <2>11 DEF Stored, StoredLate, StoredUnanswered
    <3>2. f.uid \in Customers
      BY <3>1 DEF RolesInv
    <3>3. \A g \in futures' : g \in futures \/ g.call \notin {"create", "store"}
      <4> DEFINE rest == Remember(futures \ {f}, f.uid)
      <4>0. \A g \in rest : g \in futures \/ g.call \notin {"create", "store"}
        BY <2>0, RememberType
      <4> HIDE DEF rest
      <4>1. CASE Stored(f)
        <5>1. Enter(rest, {"register"}) /\ isAdmin' = "false"
          BY <4>1 DEF Stored, rest
        <5> QED
          BY <2>3, <4>0, <5>1 DEF Enter, Go
      <4>2. CASE StoredLate(f) \/ StoredUnanswered(f)
        BY <4>0, <4>2 DEF StoredLate, StoredUnanswered, rest
      <4> QED
        BY <2>11, <4>1, <4>2
    <3> QED
      BY <2>0, <3>1, <3>2, <3>3 DEF RolesInv, People
  <2>12. ASSUME NEW f \in futures, FormRead(f) \/ CheckRead(f) PROVE RolesInv'
    <3>1. PICK mounted : Enter(futures \ {f}, mounted)
      BY <2>12 DEF FormRead, CheckRead
    <3>2. UNCHANGED <<profile, wasApproved>>
      BY <2>12 DEF FormRead, CheckRead, server
    <3> DEFINE to == IF isAdmin' = "true" THEN "admin" ELSE "home"
    <3>3. to \in {"splash", "login", "register", "home", "admin"}
      OBVIOUS
    <3>4. futures' \subseteq futures \cup Calls(to, user)
      BY <3>1 DEF Enter, Go
    <3> HIDE DEF to
    <3> QED
      BY <2>2, <2>3, <3>2, <3>3, <3>4
  <2>13. ASSUME NEW f \in futures, Rejected(f) \/ RedirectRead(f) \/ SignedOut(f) \/ Failed(f)
         PROVE  RolesInv'
    <3>1. futures' = futures \ {f} /\ UNCHANGED <<profile, wasApproved>>
      BY <2>13 DEF Rejected, RedirectRead, SignedOut, Failed, ErrorResponse, server
    <3> QED
      BY <2>2, <3>1
  <2>14. ASSUME NEW u \in Customers, Flip(u) PROVE RolesInv'
    BY <2>2, <2>14 DEF Flip
  <2>15. ASSUME NEW s \in switches, NEW answered \in BOOLEAN, Flipped(s, answered)
         PROVE  RolesInv'
    <3>1. s.uid \in Customers /\ s.to \in {"waiting", "approved"}
      BY DEF TypeOK
    <3>2. /\ profile' = [profile EXCEPT ![s.uid] = s.to] /\ futures' = futures
          /\ wasApproved' = IF s.to = "approved" THEN wasApproved \cup {s.uid} ELSE wasApproved
      BY <2>15 DEF Flipped
    <3> QED
      BY <2>0, <3>1, <3>2 DEF RolesInv, People
  <2>16. CASE UNCHANGED vars
    BY <2>2, <2>16 DEF vars
  <2>17. ASSUME NEW f \in futures, Served(f) PROVE RolesInv'
    <3>1. \A found : [f EXCEPT !.is = found].call = "getUserData"
      BY <2>0, <2>17 DEF Served, Future
    <3> QED
      BY <2>2, <2>17, <3>1 DEF Served, server
  <2> QED
    BY <2>4, <2>5, <2>6, <2>7, <2>8, <2>9, <2>10, <2>11, <2>12, <2>13, <2>14, <2>15, <2>16, <2>17,
       CrowdType DEF Next, Answer
<1> QED
  BY <1>1, <1>2, SessionTypeCorrect, PTL DEF Spec

\* A navigation with no call under way.
LEMMA GoCalm ==
    ASSUME NEW to \in {"splash", "login", "register", "home", "admin"},
           calm, Go(to, {}), user' = user, user \in accounts' \cup {Nobody},
           \A u \in accounts' \cap Customers : profile'[u] # "none",
           profile'[user] = "approved" => profile[user] = "approved",
           to = "home" => user \in Customers, to = "admin" => user \in Admins
    PROVE  CalmInv'
<1> USE PeopleAssumption
<1>1. futures' = Calls(to, user)
  BY DEF Go
<1>2. CASE to \in {"login", "register"} \/ (to = "splash" /\ user = Nobody)
  <2> DEFINE who == IF to = "splash" THEN "login" ELSE to
             f == Call("signOut", Nobody, who)
  <2>1. futures' = {f} /\ f.call = "signOut" /\ f.by = who /\ going' = who
    BY <1>1, <1>2 DEF Calls, Call, Go
  <2> HIDE DEF f, who
  <2>2. CalmCall(f)'
    BY <2>1 DEF CalmCall
  <2> QED
    BY <2>1, <2>2 DEF CalmInv
<1>3. CASE to = "splash" /\ user # Nobody
  <2> DEFINE f == Call("getUserData", user, "check")
  <2>1. /\ futures' = {f} /\ f.call = "getUserData" /\ f.by = "check" /\ f.uid = user
        /\ f.is = "asked" /\ page' = "splash"
    BY <1>1, <1>3 DEF Calls, Call, Go
  <2> HIDE DEF f
  <2>2. \A g \in futures' : CalmCall(g)'
    BY <1>3, <2>1 DEF CalmCall
  <2> QED
    BY <2>1, <2>2 DEF CalmInv
<1>4. CASE to = "home"
  <2> DEFINE f == Call("getUserData", user, "redirect")
  <2>1. /\ futures' = {f} /\ f.call = "getUserData" /\ f.by = "redirect" /\ f.uid = user
        /\ f.is = "asked" /\ going' = "home"
        /\ profile'[user] = "approved" => user \in eligible'
    BY <1>1, <1>4 DEF Calls, Call, Go
  <2>2. user # Nobody
    BY <1>4
  <2> HIDE DEF f
  <2>3. \A g \in futures' : CalmCall(g)'
    BY <1>4, <2>1, <2>2 DEF CalmCall
  <2> QED
    BY <2>1, <2>3 DEF CalmInv
<1>5. CASE to = "admin"
  <2>1. futures' = {} /\ page' = "admin"
    BY <1>1, <1>5 DEF Calls, Go
  <2>2. AtRest'
    BY <1>5, <2>1 DEF AtRest
  <2> QED
    BY <2>1, <2>2 DEF CalmInv
<1> QED
  BY <1>2, <1>3, <1>4, <1>5

\* What getUserData answers on a calm device: a role that is right.
LEMMA CalmRead ==
    ASSUME TypeOK, CalmInv, calm, NEW f \in futures, f.call = "getUserData",
           f.is # "asked", Assume(f)
    PROVE  /\ user \in People /\ user \in accounts /\ f.uid = user /\ futures \ {f} = {}
           /\ \A u \in accounts \cap Customers : profile[u] # "none"
           /\ isAdmin' = "true" => user \in Admins
           /\ isAdmin' # "true" => user \in Customers
           /\ user \in Customers => userModel' = [uid |-> user, is |-> f.is]
           /\ f.is = "approved" => user \in wasApproved
<1> USE PeopleAssumption
<1>1. /\ f.uid = user /\ user # Nobody /\ user \in People /\ user \in accounts
      /\ \A g \in futures : g = f
      /\ f.is = "none" => user \in Admins
      /\ f.is \in {"waiting", "approved"} => user \in Customers
      /\ f.is = "approved" => user \in wasApproved
  BY DEF CalmInv, CalmCall, TypeOK
<1>2. \A u \in accounts \cap Customers : profile[u] # "none"
  BY <1>1 DEF CalmInv
<1>3. ProfileOf(f) = f.is
  BY <1>1 DEF ProfileOf
<1>4. f.is \in Profile
  BY DEF TypeOK, Future
<1> QED
  BY <1>1, <1>2, <1>3, <1>4 DEF Assume, People, Profile

\* A step of a calm device.
LEMMA CalmStep ==
    ASSUME TypeOK, ProfileInv, RolesInv, CalmInv, calm, Next
    PROVE  CalmInv'
<1> USE PeopleAssumption
<1>0. /\ futures \subseteq Future /\ user \in People \cup {Nobody} /\ user \in accounts \cup {Nobody}
      /\ profile \in [People -> Profile]
      /\ \A f, g \in futures : f = g
      /\ \A f \in futures : CalmCall(f)
      /\ futures = {} => AtRest
  BY DEF TypeOK, CalmInv
<1>1. ASSUME futures = {}
      PROVE  \A u \in accounts \cap Customers : profile[u] # "none"
  BY <1>1 DEF CalmInv
<1>2. CASE OpenRegister \/ Logout \/ Reload \/ ReturnHome
  <2>1. futures = {}
    BY <1>2 DEF OpenRegister, Logout, Reload, ReturnHome, Ready
  <2>2. PICK to \in {"splash", "login", "register", "home", "admin"} :
            Go(to, {}) /\ to # "admin" /\ (to = "home" => page = "home")
    BY <1>2, <2>1 DEF OpenRegister, Logout, Reload, ReturnHome
  <2>3. UNCHANGED <<user, accounts, profile>>
    BY <1>2 DEF OpenRegister, Logout, Reload, ReturnHome, server
  <2>4. to = "home" => user \in Customers
    BY <1>0, <2>1, <2>2 DEF AtRest
  <2> QED
    BY <1>0, <1>1, <2>1, <2>2, <2>3, <2>4, GoCalm
<1>3. CASE BackToLogin
  <2>1. futures = {} /\ futures' = {} /\ page' = "login" /\ page = "register"
        /\ UNCHANGED <<user, accounts, profile>>
    BY <1>3 DEF BackToLogin, Ready, server
  <2>2. AtRest'
    BY <1>0, <2>1 DEF AtRest
  <2> QED
    BY <1>0, <1>1, <2>1, <2>2 DEF CalmInv
<1>4. ASSUME NEW kept \in SUBSET {f \in futures : f.call = "store"}, Restart(kept)
      PROVE  CalmInv'
  <2>1. futures = {}
    BY <1>4 DEF Restart, Ready
  <2>2. kept = {}
    BY <2>1
  <2>3. {[f EXCEPT !.by = "nobody"] : f \in kept} = {}
    BY <2>2
  <2>4. Go("splash", {}) /\ UNCHANGED <<user, accounts, profile>>
    BY <1>4, <2>3 DEF Restart, server
  <2> QED
    BY <1>0, <1>1, <2>1, <2>4, GoCalm
<1>5. ASSUME NEW u \in People, PressLogin(u) \/ PressRegister(u) PROVE CalmInv'
  <2>1. futures = {} /\ UNCHANGED <<user, accounts, profile, page>>
    BY <1>5 DEF PressLogin, PressRegister, Ready, server
  <2>2. \/ futures' = {Call("signIn", u, "form")} /\ page = "login"
        \/ futures' = {Call("create", u, "form")} /\ page = "register"
    BY <1>5, <2>1 DEF PressLogin, PressRegister
  <2>3. /\ Call("signIn", u, "form").call = "signIn" /\ Call("create", u, "form").call = "create"
    BY DEF Call
  <2>4. PICK g : /\ futures' = {g}
                 /\ \/ g.call = "signIn" /\ page = "login"
                    \/ g.call = "create" /\ page = "register"
    BY <2>2, <2>3
  <2>5. \A h \in futures' : CalmCall(h)'
    BY <1>0, <2>1, <2>4 DEF CalmCall, AtRest
  <2> QED
    BY <1>0, <1>1, <2>1, <2>4, <2>5 DEF CalmInv
<1>6. ASSUME NEW f \in futures, SignedIn(f) PROVE CalmInv'
  <2> DEFINE g == Call("getUserData", f.uid, "form")
  <2>1. /\ f.call = "signIn" /\ f.uid \in accounts /\ user' = f.uid /\ page' = page
        /\ futures' = (futures \ {f}) \cup {g} /\ UNCHANGED <<accounts, profile>>
    BY <1>6 DEF SignedIn, server
  <2>2. futures' = {g} /\ page = "login" /\ \A h \in futures : h.call # "store"
    BY <1>0, <2>1 DEF CalmCall
  <2>3. g.call = "getUserData" /\ g.uid = f.uid /\ g.by = "form" /\ g.is = "asked"
    BY DEF Call
  <2>4. f.uid # Nobody
    BY <2>1 DEF TypeOK, People
  <2> HIDE DEF g
  <2>5. \A h \in futures' : CalmCall(h)'
    BY <2>1, <2>2, <2>3, <2>4 DEF CalmCall
  <2>6. \A u \in accounts \cap Customers : profile[u] # "none"
    BY <2>2 DEF CalmInv
  <2> QED
    BY <2>1, <2>2, <2>5, <2>6 DEF CalmInv
<1>7. ASSUME NEW f \in futures, Rejected(f) PROVE CalmInv'
  <2>1. /\ f.call \in {"signIn", "create"} /\ futures' = futures \ {f}
        /\ UNCHANGED <<user, accounts, profile, page, userModel, wasApproved>>
    BY <1>7 DEF Rejected, ErrorResponse, server
  <2>2. futures' = {} /\ \A h \in futures : h.call # "store"
    BY <1>0, <2>1
  <2>3. page \in {"login", "register"} /\ user = Nobody
    BY <1>0, <2>1 DEF CalmCall
  <2>4. AtRest'
    BY <2>1, <2>3 DEF AtRest
  <2>5. \A u \in accounts \cap Customers : profile[u] # "none"
    BY <2>2 DEF CalmInv
  <2> QED
    BY <1>0, <2>1, <2>2, <2>4, <2>5 DEF CalmInv
<1>8. ASSUME NEW f \in futures, Created(f) PROVE CalmInv'
  <2> DEFINE g == Call("store", f.uid, "form")
  <2>1. /\ f.call = "create" /\ accounts' = accounts \cup {f.uid} /\ user' = f.uid /\ page' = page
        /\ futures' = (futures \ {f}) \cup {g} /\ profile' = profile
    BY <1>8 DEF Created
  <2>2. futures' = {g} /\ page = "register" /\ \A h \in futures : h.call # "store"
    BY <1>0, <2>1 DEF CalmCall
  <2>3. g.call = "store" /\ g.uid = f.uid /\ g.by = "form"
    BY DEF Call
  <2> HIDE DEF g
  <2>4. \A h \in futures' : CalmCall(h)'
    BY <2>1, <2>2, <2>3 DEF CalmCall
  <2>5. \A u \in accounts \cap Customers : profile[u] # "none"
    BY <2>2 DEF CalmInv
  <2> QED
    BY <2>1, <2>2, <2>3, <2>4, <2>5 DEF CalmInv
<1>9. ASSUME NEW f \in futures, Stored(f) PROVE CalmInv'
  <2>1. /\ f.call = "store" /\ profile' = [profile EXCEPT ![f.uid] = "waiting"]
        /\ isAdmin' = "false" /\ UNCHANGED <<accounts, user>>
        /\ Enter(Remember(futures \ {f}, f.uid), {"register"})
    BY <1>9 DEF Stored
  <2>2. page = "register" /\ f.uid = user /\ futures \ {f} = {} /\ \A h \in futures : h = f
    BY <1>0, <2>1 DEF CalmCall
  <2>3. f.uid \in Customers
    BY <2>1 DEF RolesInv
  <2>4. Go("home", {})
    <3>1. Remember(futures \ {f}, f.uid) = {}
      BY <2>2 DEF Remember
    <3> QED
      BY <2>1, <2>2, <3>1 DEF Enter
  <2>5. \A u \in accounts \cap Customers : profile[u] # "none" \/ u = f.uid
    BY <2>2 DEF CalmInv
  <2>6. \A u \in accounts' \cap Customers : profile'[u] # "none"
    BY <1>0, <2>1, <2>5 DEF People
  <2> QED
    BY <1>0, <2>1, <2>2, <2>3, <2>4, <2>6, GoCalm
<1>10. ASSUME NEW f \in futures, StoredLate(f) \/ StoredUnanswered(f) \/ Failed(f)
       PROVE  CalmInv'
  <2>1. CASE StoredLate(f)
    BY <1>0, <2>1 DEF StoredLate, CalmCall
  <2>2. CASE StoredUnanswered(f) \/ Failed(f)
    BY <2>2 DEF StoredUnanswered, Failed
  <2> QED
    BY <1>10, <2>1, <2>2
<1>11. ASSUME NEW f \in futures, FormRead(f) \/ CheckRead(f) PROVE CalmInv'
  <2>1. /\ f.call = "getUserData" /\ f.is # "asked" /\ Assume(f)
        /\ UNCHANGED <<user, accounts, profile>>
        /\ \/ f.by = "form" /\ Enter(futures \ {f}, {"login", "register"})
           \/ f.by = "check" /\ Enter(futures \ {f}, {"splash"})
    BY <1>11 DEF FormRead, CheckRead, server
  <2>2. /\ f.by = "form" => page = "login"
        /\ f.by = "check" => page = "splash"
    BY <1>0, <2>1 DEF CalmCall
  <2>3. /\ futures \ {f} = {} /\ user \in accounts
        /\ \A u \in accounts \cap Customers : profile[u] # "none"
        /\ isAdmin' = "true" => user \in Admins
        /\ isAdmin' # "true" => user \in Customers
    BY <2>1, CalmRead
  <2> DEFINE to == IF isAdmin' = "true" THEN "admin" ELSE "home"
  <2>4. Go(to, {})
    BY <2>1, <2>2, <2>3 DEF Enter
  <2>5. /\ to \in {"splash", "login", "register", "home", "admin"}
        /\ to = "home" => user \in Customers
        /\ to = "admin" => user \in Admins
    BY <2>3
  <2> HIDE DEF to
  <2> QED
    BY <2>1, <2>3, <2>4, <2>5, GoCalm
<1>12. ASSUME NEW f \in futures, RedirectRead(f) PROVE CalmInv'
  <2>1. /\ f.call = "getUserData" /\ f.is # "asked" /\ Assume(f)
        /\ f.by = "redirect" /\ futures' = futures \ {f}
        /\ UNCHANGED <<user, accounts, profile, wasApproved>>
    BY <1>12 DEF RedirectRead, server
  <2>2. going = "home" /\ user \in Customers
    BY <1>0, <2>1 DEF CalmCall
  <2>3. page' = IF userModel'.is = "approved" THEN "home" ELSE "blocked"
    BY <1>12, <2>1, <2>2 DEF RedirectRead, Target
  <2>4. /\ futures' = {} /\ user \in accounts
        /\ \A u \in accounts \cap Customers : profile[u] # "none"
        /\ userModel' = [uid |-> user, is |-> f.is]
    BY <2>1, <2>2, CalmRead
  <2>5. userModel'.uid = user /\ userModel'.is = f.is
    BY <2>4
  <2>6. f.is = "approved" => user \in wasApproved
    BY <2>1, <2>2, CalmRead
  <2>7. AtRest'
    BY <2>1, <2>2, <2>3, <2>5, <2>6 DEF AtRest
  <2> QED
    BY <2>1, <2>4, <2>7 DEF CalmInv
<1>13. ASSUME NEW f \in futures, SignedOut(f) PROVE CalmInv'
  <2>1. /\ f.call = "signOut" /\ user' = Nobody /\ futures' = futures \ {f}
        /\ UNCHANGED <<accounts, profile>>
    BY <1>13 DEF SignedOut, server
  <2>2. going = f.by /\ futures' = {} /\ f.by \in {"login", "register"}
        /\ \A h \in futures : h.call # "store"
    BY <1>0, <2>1 DEF CalmCall, Future
  <2>3. page' \in {"login", "register"}
    BY <1>13, <2>2 DEF SignedOut, Target
  <2>4. AtRest'
    BY <2>1, <2>3 DEF AtRest
  <2>5. \A u \in accounts \cap Customers : profile[u] # "none"
    BY <2>2 DEF CalmInv
  <2> QED
    BY <2>1, <2>2, <2>4, <2>5 DEF CalmInv
<1>14. ASSUME NEW u \in Customers, Flip(u) PROVE CalmInv'
  BY <1>14 DEF Flip, CalmInv, CalmCall, AtRest
<1>15. ASSUME NEW s \in switches, NEW answered \in BOOLEAN, Flipped(s, answered)
       PROVE  CalmInv'
  <2>1. /\ profile' = [profile EXCEPT ![s.uid] = s.to]
        /\ wasApproved \subseteq wasApproved' /\ eligible \subseteq eligible'
        /\ going = "home" /\ s.to = "approved" => s.uid \in eligible'
        /\ UNCHANGED <<calm, accounts, user, userModel, page, going, futures>>
    BY <1>15 DEF Flipped
  <2>2. s.uid \in Customers /\ s.to # "none"
    BY DEF TypeOK
  <2>3. \A u \in Customers : profile[u] # "none" => profile'[u] # "none"
    BY <1>0, <2>1, <2>2 DEF People
  <2>4. \A f \in futures' : CalmCall(f)'
    BY <1>0, <2>1 DEF CalmCall, People
  <2>5. futures' = {} => AtRest'
    BY <1>0, <2>1 DEF AtRest
  <2> QED
    BY <1>0, <2>1, <2>3, <2>4, <2>5 DEF CalmInv
<1>16. ASSUME NEW f \in futures, Served(f) PROVE CalmInv'
  <2>1. PICK found, g :
            /\ found = IF f.uid = Nobody THEN "none" ELSE profile[f.uid]
            /\ g = [f EXCEPT !.is = found]
            /\ f.call = "getUserData" /\ futures' = (futures \ {f}) \cup {g}
            /\ UNCHANGED <<user, accounts, profile, page, going, wasApproved, eligible>>
    BY <1>16 DEF Served, server
  <2>2. futures' = {g} /\ CalmCall(f) /\ \A h \in futures : h.call # "store"
    BY <1>0, <2>1
  <2>3. /\ f.uid = user /\ user # Nobody /\ user \in accounts /\ user \in People
    BY <1>0, <2>1, <2>2 DEF CalmCall
  <2>4. \A u \in accounts \cap Customers : profile[u] # "none"
    BY <2>2 DEF CalmInv
  <2>5. g.call = "getUserData" /\ g.uid = f.uid /\ g.by = f.by /\ g.is = profile[user]
    BY <1>0, <2>1, <2>3 DEF Future
  <2>6. /\ profile[user] = "none" => user \in Admins
        /\ profile[user] \in {"waiting", "approved"} => user \in Customers
        /\ profile[user] = "approved" => user \in wasApproved
    BY <2>3, <2>4 DEF RolesInv, People
  <2>7. CalmCall(g)'
    BY <2>1, <2>2, <2>3, <2>5, <2>6 DEF CalmCall
  <2> QED
    BY <2>1, <2>2, <2>3, <2>4, <2>7 DEF CalmInv
<1> QED
  BY <1>2, <1>3, <1>4, <1>5, <1>6, <1>7, <1>8, <1>9, <1>10, <1>11, <1>12, <1>13, <1>14, <1>15,
     <1>16, CrowdType DEF Next, Answer, People

\* calm stays as it is.
LEMMA CalmStays ==
    ASSUME [Next]_vars
    PROVE  calm' = calm
BY DEF Next, Answer, vars, server, OpenRegister, BackToLogin, Logout, Reload,
       ReturnHome, Restart, PressLogin, PressRegister, SignedIn, Rejected,
       ErrorResponse, Created, Stored, StoredLate, StoredUnanswered, Served, FormRead,
       CheckRead,
       RedirectRead, SignedOut, Failed, Flip, Flipped

\* One call at a time, each from the page it belongs to.
LEMMA CalmInvHolds == Spec => []CalmInv
<1>1. Init => CalmInv
  <2> SUFFICES ASSUME Init PROVE CalmInv
    OBVIOUS
  <2> DEFINE f == Call("signOut", Nobody, "login")
  <2>1. futures = {f} /\ f.call = "signOut" /\ f.by = "login"
    BY DEF Init, Calls, Call
  <2> HIDE DEF f
  <2>2. going = "login" /\ user = Nobody /\ accounts \cap Customers = {}
    BY PeopleAssumption DEF Init
  <2>3. CalmCall(f)
    BY <2>1, <2>2 DEF CalmCall
  <2> QED
    BY <2>1, <2>2, <2>3 DEF CalmInv
<1>2. TypeOK /\ ProfileInv /\ RolesInv /\ CalmInv /\ [Next]_vars => CalmInv'
  <2> SUFFICES ASSUME TypeOK, ProfileInv, RolesInv, CalmInv, [Next]_vars PROVE CalmInv'
    OBVIOUS
  <2>1. CASE ~calm
    BY <2>1, CalmStays DEF CalmInv
  <2>2. CASE calm /\ Next
    BY <2>2, CalmStep
  <2>3. CASE UNCHANGED vars
    BY <2>3 DEF vars, CalmInv, CalmCall, AtRest
  <2> QED
    BY <2>1, <2>2, <2>3
<1> QED
  BY <1>1, <1>2, SessionTypeCorrect, ProfileInvHolds, RolesInvHolds, PTL DEF Spec

\* At rest the page fits the session, for whoever signs in, registers and is
\* approved, one after the other, on one device.
THEOREM PageFitsUserHolds == Spec => []PageFitsUser
<1>1. CalmInv => PageFitsUser
  BY DEF CalmInv, AtRest, PageFitsUser
<1> QED
  BY <1>1, CalmInvHolds, PTL

\* Whoever arrives at the shop was approved at some moment since they set out.
THEOREM HomeChecksProfileHolds == Spec => HomeChecksProfile
<1> DEFINE Checks == calm /\ page' = "home" /\ going = "home" /\ going' = "none"
                         => user \in eligible
<1>1. TypeOK /\ RolesInv /\ CalmInv /\ [Next]_vars => [Checks]_vars
  <2> SUFFICES ASSUME TypeOK, RolesInv, CalmInv, [Next]_vars, calm,
                      page' = "home", going = "home", going' = "none"
               PROVE  user \in eligible
    OBVIOUS
  <2>1. ASSUME NEW f \in futures, RedirectRead(f) PROVE user \in eligible
    <3>1. /\ f.call = "getUserData" /\ f.is # "asked" /\ Assume(f)
          /\ f.by = "redirect"
      BY <2>1 DEF RedirectRead
    <3>2. user \in Customers /\ (f.is = "approved" => user \in eligible)
      BY <3>1 DEF CalmInv, CalmCall
    <3>3. userModel'.is = "approved"
      BY <2>1, <3>1 DEF RedirectRead, Target
    <3>4. userModel' = [uid |-> user, is |-> f.is]
      BY <3>1, <3>2, CalmRead
    <3> QED
      BY <3>2, <3>3, <3>4
  <2>2. ASSUME NEW f \in futures, SignedOut(f) PROVE FALSE
    <3>1. f.by \in {"login", "register"} /\ f.call = "signOut"
      BY <2>2 DEF SignedOut, TypeOK, Future
    <3> QED
      BY <2>2, <3>1 DEF SignedOut, Target
  <2>3. ASSUME NEW to \in {"splash", "login", "register", "home", "admin"}, NEW rest,
               Go(to, rest)
        PROVE  FALSE
    BY <2>3 DEF Go
  <2>4. \/ going' = going
        \/ \E to \in {"splash", "login", "register", "home", "admin"} : \E rest : Go(to, rest)
        \/ \E f \in futures : RedirectRead(f) \/ SignedOut(f)
    BY DEF Next, Answer, vars, server, OpenRegister, BackToLogin, Logout, Reload, Enter,
           ReturnHome, Restart, PressLogin, PressRegister, SignedIn, Rejected,
           ErrorResponse, Created, Stored, StoredLate, StoredUnanswered, Served,
           FormRead, CheckRead,
           Failed, Flip, Flipped
  <2> QED
    BY <2>1, <2>2, <2>3, <2>4
<1> QED
  BY <1>1, SessionTypeCorrect, RolesInvHolds, CalmInvHolds, PTL DEF Spec, HomeChecksProfile

=============================================================================
