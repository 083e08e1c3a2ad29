----------------------------- MODULE NDPProofs -----------------------------
(***************************************************************************)
(* What NDP shows for any number of customers, texts, pictures and         *)
(* submissions.                                                            *)
(*                                                                         *)
(* That a request is stored once, after its picture, rests on the names of *)
(* the submissions: each has a time of its own that no stored request has  *)
(* (SubmissionInv, RequestInv).  That it holds what was seen rests on what *)
(* a customer who waits leaves alone while it is under way (WaitingInv).   *)
(***************************************************************************)
EXTENDS NDP, TLAPS

Shown == [uid : Users \cup {Nobody}, text : Text, picture : Picture]

SubmissionInv ==
    /\ \A s \in under :
          /\ s.at <= clock /\ s.at \notin DOMAIN ndp /\ s.picture \in Pictures
          /\ s.step = "store" => s.at \in DOMAIN pictures /\ s.uid \in Users
    /\ \A s, r \in under : s.at = r.at => s = r

RequestInv ==
    \A t \in DOMAIN ndp : ndp[t].imgUrl = t /\ t \in DOMAIN pictures /\ t <= clock

SeenInv == seen \in Seq(Shown) /\ Len(seen) = clock

NamesInv == TypeOK /\ SubmissionInv /\ RequestInv /\ SeenInv

\* Submission r is submission s, of which at most the page is gone.
SameSubmission(r, s) ==
    /\ r.at = s.at /\ r.step = s.step /\ r.picture = s.picture
    /\ r.uid = s.uid /\ r.text = s.text

\* Steps that store nothing: no submission is added or goes on.
Carried ==
    /\ UNCHANGED saved
    /\ under' \subseteq Submission
    /\ \A r \in under' : \E s \in under : SameSubmission(r, s)
    /\ \A r, q \in under' : r.at = q.at => r = q

----------------------------------------------------------------------------
\* What the alerts are after the top one is popped.
LEMMA FrontType ==
    ASSUME NEW S, NEW s \in Seq(S)
    PROVE  Front(s) \in Seq(S)
<1>1. CASE s = <<>>
  <2>1. Front(s) = <<>>
    BY <1>1 DEF Front
  <2> QED
    BY <2>1
<1>2. CASE s # <<>>
  BY <1>2 DEF Front
<1> QED
  BY <1>1, <1>2

\* The fields of a submission.
LEMMA SubmissionFields ==
    ASSUME NEW s \in Submission
    PROVE  /\ s.at \in Time /\ s.step \in {"upload", "store"} /\ s.picture \in Picture
           /\ s.mounted \in BOOLEAN /\ s.left \in Text /\ s.uid \in Users \cup {Nobody}
           /\ s.text \in Text
BY DEF Submission

\* Taking submissions away, or leaving all alone, carries them.
LEMMA FewerCarried ==
    ASSUME NamesInv, UNCHANGED saved, under' \subseteq under
    PROVE  Carried
BY DEF NamesInv, TypeOK, SubmissionInv, Carried, SameSubmission

\* So does leaving the page.
LEMMA LeaveCarries ==
    ASSUME NamesInv, UNCHANGED saved, Leave
    PROVE  Carried
<1> DEFINE g(s) == [s EXCEPT !.mounted = FALSE, !.left = IF s.mounted THEN form.text ELSE @]
<1>1. under' = {g(s) : s \in under}
  BY DEF Leave
<1>2. form.text \in Text /\ under \subseteq Submission
  BY DEF NamesInv, TypeOK, Form
<1>3. ASSUME NEW s \in under PROVE g(s) \in Submission /\ SameSubmission(g(s), s)
  <2>1. s \in Submission
    BY <1>2
  <2>2. g(s) \in Submission
    BY <1>2, <2>1 DEF Submission
  <2>3. SameSubmission(g(s), s)
    BY <2>1 DEF Submission, SameSubmission
  <2> QED
    BY <2>2, <2>3
<1> HIDE DEF g
<1>4. \A s, r \in under : s.at = r.at => s = r
  BY DEF NamesInv, SubmissionInv
<1>5. \A s \in under : g(s).at = s.at
  BY <1>3 DEF SameSubmission
<1>6. \A r, q \in under' : r.at = q.at => r = q
  BY <1>1, <1>4, <1>5
<1> QED
  BY <1>1, <1>3, <1>6 DEF Carried

\* And so does a restart.
LEMMA RestartCarries ==
    ASSUME NamesInv, NEW kept \in SUBSET under, Restart(kept)
    PROVE  Carried
<1> DEFINE g(s) == [s EXCEPT !.mounted = FALSE]
<1>1. under' = {g(s) : s \in kept} /\ UNCHANGED saved
  BY DEF Restart
<1>2. under \subseteq Submission
  BY DEF NamesInv, TypeOK
<1>3. ASSUME NEW s \in under PROVE g(s) \in Submission /\ SameSubmission(g(s), s)
  <2>1. s \in Submission
    BY <1>2
  <2>2. g(s) \in Submission
    BY <2>1 DEF Submission
  <2>3. SameSubmission(g(s), s)
    BY <2>1 DEF Submission, SameSubmission
  <2> QED
    BY <2>2, <2>3
<1> HIDE DEF g
<1>4. \A s, r \in under : s.at = r.at => s = r
  BY DEF NamesInv, SubmissionInv
<1>5. \A s \in under : g(s).at = s.at
  BY <1>3 DEF SameSubmission
<1>6. \A r, q \in under' : r.at = q.at => r = q
  BY <1>1, <1>4, <1>5
<1> QED
  BY <1>1, <1>3, <1>6 DEF Carried

\* Every step stores nothing, or is one of the three of a submission.
LEMMA StepKinds ==
    ASSUME NamesInv, [Next]_vars
    PROVE  Carried \/ Submit \/ \E s \in under : Uploaded(s) \/ Stored(s)
<1>1. CASE Open \/ Dismiss \/ Pick \/ Source \/ NoSource \/ PickCancelled \/ PickFailed \/ SubmitIncomplete
  BY <1>1, FewerCarried DEF Open, Dismiss, Pick, Source, NoSource, PickCancelled, PickFailed,
     SubmitIncomplete
<1>2. CASE \/ \E u \in Users \cup {Nobody} : ChangeUser(u)
           \/ \E t \in Text : Type(t)
           \/ \E p \in Pictures : Chosen(p)
           \/ \E s \in under : Failed(s)
           \/ UNCHANGED vars
  BY <1>2, FewerCarried DEF ChangeUser, Type, Chosen, Failed, vars
<1>3. CASE Back \/ Confirm
  BY <1>3, LeaveCarries DEF Back, Confirm
<1>4. CASE BytesRead
  <2>1. UNCHANGED saved /\ (Leave \/ UNCHANGED under)
    BY <1>4 DEF BytesRead
  <2> QED
    BY <2>1, LeaveCarries, FewerCarried
<1>5. CASE \E kept \in SUBSET {s \in under : s.step = "store"} : Restart(kept)
  <2>1. PICK kept \in SUBSET {s \in under : s.step = "store"} : Restart(kept)
    BY <1>5
  <2>2. kept \in SUBSET under
    OBVIOUS
  <2> QED
    BY <2>1, <2>2, RestartCarries
<1> QED
  BY <1>1, <1>2, <1>3, <1>4, <1>5 DEF Next

----------------------------------------------------------------------------
\* The types of what is on the device and of what is stored.

\* What the steps make of the page.
LEMMA PageTypes ==
    ASSUME NamesInv, [Next]_vars
    PROVE  /\ {kIsWeb, patient, unread}' \subseteq BOOLEAN
           /\ user' \in Users \cup {Nobody} /\ onPage' \in BOOLEAN /\ form' \in Form
           /\ picking' \in {"none", "source", "picking", "reading"}
           /\ alerts' \in Seq(Alert)
<1> DEFINE Good ==
           /\ {kIsWeb, patient, unread}' \subseteq BOOLEAN
           /\ user' \in Users \cup {Nobody} /\ onPage' \in BOOLEAN /\ form' \in Form
           /\ picking' \in {"none", "source", "picking", "reading"}
           /\ alerts' \in Seq(Alert)
<1>1. /\ {kIsWeb, patient, unread} \subseteq BOOLEAN
      /\ user \in Users \cup {Nobody} /\ onPage \in BOOLEAN /\ form \in Form
      /\ picking \in {"none", "source", "picking", "reading"}
      /\ alerts \in Seq(Alert)
  BY DEF NamesInv, TypeOK
<1>2. NewForm \in Form
  BY DEF NewForm, Form, Text, Picture
<1>3. Front(alerts) \in Seq(Alert) /\ Front(Front(alerts)) \in Seq(Alert)
  BY <1>1, FrontType
<1>4. \A a \in Alert : Append(alerts, a) \in Seq(Alert) /\ <<a>> \in Seq(Alert)
  BY <1>1
<1>5. {"loading", "source", "error", "success"} \subseteq Alert
  BY DEF Alert
<1>6. <<"loading", "source">> \in Seq(Alert) /\ <<"loading", "error">> \in Seq(Alert) /\ <<>> \in Seq(Alert)
  BY DEF Alert
<1>7. CASE Open \/ Dismiss \/ Pick \/ Source \/ NoSource \/ PickCancelled \/ SubmitIncomplete
  BY <1>1, <1>3, <1>4, <1>5, <1>6, <1>7 DEF Open, Dismiss, Pick, Source, NoSource, PickCancelled,
     SubmitIncomplete, saved, fixed
<1>8. CASE PickFailed
  BY <1>1, <1>4, <1>5, <1>8 DEF PickFailed, saved, fixed
<1>9. ASSUME NEW u \in Users \cup {Nobody}, ChangeUser(u) PROVE Good
  BY <1>1, <1>9 DEF ChangeUser, saved, fixed
<1>10. ASSUME NEW t \in Text, Type(t) PROVE Good
  BY <1>1, <1>10 DEF Type, saved, fixed, Form
<1>11. ASSUME NEW p \in Pictures, Chosen(p) PROVE Good
  BY <1>1, <1>11 DEF Chosen, saved, fixed, Form, Picture
<1>12. CASE Back \/ Confirm
  BY <1>1, <1>2, <1>6, <1>12 DEF Back, Confirm, Leave, saved, fixed
<1>13. CASE BytesRead
  <2>1. UNCHANGED <<kIsWeb, patient, unread, user>> /\ picking' = "none"
    BY <1>13 DEF BytesRead, saved, fixed
  <2>2. \/ onPage' = FALSE /\ alerts' = <<>> /\ form' = NewForm
        \/ onPage' = onPage /\ alerts' = Front(alerts) /\ form' = [form EXCEPT !.image = form.imageFile]
    BY <1>13 DEF BytesRead, Leave
  <2>3. [form EXCEPT !.image = form.imageFile] \in Form
    BY <1>1 DEF Form
  <2> QED
    BY <1>1, <1>2, <1>3, <1>6, <2>1, <2>2, <2>3
<1>14. CASE Submit
  BY <1>1, <1>4, <1>5, <1>6, <1>14 DEF Submit, fixed
<1>15. ASSUME NEW s \in under, Uploaded(s) \/ Stored(s) \/ Failed(s) PROVE Good
  BY <1>1, <1>4, <1>5, <1>15 DEF Uploaded, Stored, Failed, Tell, saved, fixed
<1>16. ASSUME NEW kept, Restart(kept) PROVE Good
  BY <1>1, <1>2, <1>6, <1>16 DEF Restart, saved, fixed
<1>17. CASE UNCHANGED vars
  BY <1>1, <1>17 DEF vars, saved, fixed
<1> QED
  BY <1>7, <1>8, <1>9, <1>10, <1>11, <1>12, <1>13, <1>14, <1>15, <1>16, <1>17 DEF Next

\* Steps that store nothing keep the names apart.
LEMMA NamesCarried ==
    ASSUME NamesInv, [Next]_vars, Carried
    PROVE  NamesInv'
<1>1. UNCHANGED <<clock, pictures, ndp, seen>>
  BY DEF Carried, saved
<1>2. TypeOK'
  BY <1>1, PageTypes DEF NamesInv, TypeOK, Carried
<1>3. SubmissionInv'
  BY <1>1 DEF NamesInv, SubmissionInv, Carried, SameSubmission
<1> QED
  BY <1>1, <1>2, <1>3 DEF NamesInv, RequestInv, SeenInv

\* SUBMIT names the submission by a new time.
LEMMA NamesSubmit ==
    ASSUME NamesInv, [Next]_vars, Submit
    PROVE  NamesInv'
<1> DEFINE p == IF kIsWeb THEN form.image ELSE form.imageFile
           s0 == [at |-> clock + 1, step |-> "upload", picture |-> p, mounted |-> TRUE,
                  left |-> Blank, uid |-> Nobody, text |-> Blank]
           shown == [uid |-> user, text |-> form.text, picture |-> form.imageFile]
<1>1. /\ clock < MaxTime /\ clock' = clock + 1 /\ seen' = Append(seen, shown)
      /\ UNCHANGED <<pictures, ndp>>
      /\ UNCHANGED under \/ (p # NoPicture /\ under' = under \cup {s0})
  BY DEF Submit
<1>2. /\ clock \in Nat /\ MaxTime \in Nat /\ under \subseteq Submission /\ form \in Form
      /\ user \in Users \cup {Nobody} /\ seen \in Seq(Shown) /\ Len(seen) = clock
      /\ DOMAIN ndp \subseteq Time /\ DOMAIN pictures \subseteq Time
  BY MaxTimeAssumption DEF NamesInv, TypeOK, SeenInv
<1>3. clock' \in 0 .. MaxTime /\ clock + 1 \in Time /\ clock' \in Nat
  BY <1>1, <1>2 DEF Time
<1>4. p \in Picture /\ shown \in Shown
  BY <1>2 DEF Form, Shown, Picture
<1>5. SeenInv'
  BY <1>1, <1>2, <1>4 DEF SeenInv
<1>6. s0 \in Submission /\ s0.at = clock + 1 /\ s0.step = "upload" /\ s0.picture = p
  BY <1>3, <1>4 DEF Submission, Text
<1>7. \A s \in under : s.at \in Nat /\ s.at <= clock
  BY <1>2, SubmissionFields DEF NamesInv, SubmissionInv, Time
<1>8. RequestInv'
  <2>1. \A t \in DOMAIN ndp : t \in Nat /\ t <= clock
    BY <1>2 DEF NamesInv, RequestInv, Time
  <2>2. \A t \in DOMAIN ndp : t <= clock'
    BY <1>1, <1>2, <2>1
  <2> QED
    BY <1>1, <2>2 DEF NamesInv, RequestInv
<1> HIDE DEF s0, shown, p
<1>9. clock + 1 \notin DOMAIN ndp
  BY <1>2 DEF NamesInv, RequestInv
<1>10. p # NoPicture => p \in Pictures
  BY <1>4 DEF Picture
<1>11. \A s \in under : s.at <= clock' /\ s.at # clock + 1
  BY <1>1, <1>2, <1>7
<1>12. clock + 1 <= clock'
  BY <1>1, <1>3
<1>13. SubmissionInv'
  <2>1. \A s \in under : /\ s.at \notin DOMAIN ndp /\ s.picture \in Pictures
                         /\ s.step = "store" => s.at \in DOMAIN pictures /\ s.uid \in Users
    BY DEF NamesInv, SubmissionInv
  <2>2. \A s, r \in under : s.at = r.at => s = r
    BY DEF NamesInv, SubmissionInv
  <2>3. s0.step # "store"
    BY <1>6
  <2> QED
    BY <2>1, <2>2, <2>3, <1>1, <1>6, <1>9, <1>10, <1>11, <1>12 DEF SubmissionInv
<1>14. TypeOK'
  <2>1. under' \subseteq Submission
    BY <1>1, <1>2, <1>6
  <2> QED
    BY <2>1, <1>1, <1>3, PageTypes DEF NamesInv, TypeOK
<1> QED
  BY <1>5, <1>8, <1>13, <1>14 DEF NamesInv

\* The picture of a submission is stored under its own time.
LEMMA NamesUploaded ==
    ASSUME NamesInv, [Next]_vars, NEW s \in under, Uploaded(s)
    PROVE  NamesInv'
<1> DEFINE s1 == [s EXCEPT !.step = "store", !.uid = user,
                           !.text = IF s.mounted THEN form.text ELSE s.left]
<1>1. /\ s.step = "upload" /\ pictures' = Put(pictures, s.at, s.picture)
      /\ UNCHANGED <<clock, ndp, seen>>
      /\ \/ under' = under \ {s}
         \/ user # Nobody /\ under' = (under \ {s}) \cup {s1}
  BY DEF Uploaded
<1>2. s \in Submission /\ form \in Form /\ user \in Users \cup {Nobody} /\ under \subseteq Submission
  BY DEF NamesInv, TypeOK
<1>3. /\ s1 \in Submission /\ s1.at = s.at /\ s1.picture = s.picture /\ s1.uid = user
  BY <1>2, SubmissionFields DEF Submission, Form
<1> HIDE DEF s1
<1>4. DOMAIN pictures' = DOMAIN pictures \cup {s.at} /\ Range(pictures') \subseteq Range(pictures) \cup {s.picture}
  <2>1. pictures' = Put(pictures, s.at, s.picture)
    BY <1>1
  <2> QED
    BY <2>1 DEF Put, Range
<1>5. s.at \in Time /\ s.picture \in Pictures /\ s.at <= clock /\ s.at \notin DOMAIN ndp
  BY <1>2, SubmissionFields DEF NamesInv, SubmissionInv
<1>6. under' \subseteq Submission
  BY <1>1, <1>2, <1>3
<1>7. TypeOK'
  BY <1>1, <1>4, <1>5, <1>6, PageTypes DEF NamesInv, TypeOK
<1>8. SubmissionInv'
  <2>1. \A r \in under : /\ r.at <= clock /\ r.at \notin DOMAIN ndp /\ r.picture \in Pictures
                         /\ r.step = "store" => r.at \in DOMAIN pictures /\ r.uid \in Users
    BY DEF NamesInv, SubmissionInv
  <2>2. \A r, q \in under : r.at = q.at => r = q
    BY DEF NamesInv, SubmissionInv
  <2>3. user # Nobody => user \in Users
    BY <1>2
  <2> QED
    BY <2>1, <2>2, <2>3, <1>1, <1>3, <1>4, <1>5 DEF SubmissionInv
<1>9. RequestInv'
  BY <1>1, <1>4 DEF NamesInv, RequestInv
<1> QED
  BY <1>1, <1>7, <1>8, <1>9 DEF NamesInv, SeenInv

\* The request of a submission is stored under its own time, once.
LEMMA NamesStored ==
    ASSUME NamesInv, [Next]_vars, NEW s \in under, Stored(s)
    PROVE  NamesInv'
<1> DEFINE q == [uid |-> s.uid, text |-> s.text, imgUrl |-> s.at]
<1>1. /\ s.step = "store" /\ ndp' = Put(ndp, s.at, q) /\ under' = under \ {s}
      /\ UNCHANGED <<clock, pictures, seen>>
  BY DEF Stored
<1>2. s \in Submission /\ under \subseteq Submission
  BY DEF NamesInv, TypeOK
<1>3. s.at \in Time /\ s.at <= clock /\ s.at \in DOMAIN pictures /\ s.uid \in Users /\ s.text \in Text
  BY <1>1, <1>2, SubmissionFields DEF NamesInv, SubmissionInv
<1>4. q \in Request /\ q.imgUrl = s.at
  BY <1>3 DEF Request
<1> HIDE DEF q
<1>5. /\ DOMAIN ndp' = DOMAIN ndp \cup {s.at} /\ Range(ndp') \subseteq Range(ndp) \cup {q}
      /\ ndp'[s.at] = q /\ \A x \in DOMAIN ndp : x # s.at => ndp'[x] = ndp[x]
  <2>1. ndp' = Put(ndp, s.at, q)
    BY <1>1
  <2> QED
    BY <2>1 DEF Put, Range
<1>6. TypeOK'
  BY <1>1, <1>2, <1>3, <1>4, <1>5, PageTypes DEF NamesInv, TypeOK
<1>7. SubmissionInv'
  BY <1>1, <1>5 DEF NamesInv, SubmissionInv
<1>8. RequestInv'
  BY <1>1, <1>3, <1>4, <1>5 DEF NamesInv, RequestInv
<1> QED
  BY <1>1, <1>6, <1>7, <1>8 DEF NamesInv, SeenInv

\* Names and types are invariant.
LEMMA NamesInductive == Spec => []NamesInv
<1>1. Init => NamesInv
  <2> SUFFICES ASSUME Init PROVE NamesInv
    OBVIOUS
  <2>1. DOMAIN pictures = {} /\ Range(pictures) = {} /\ DOMAIN ndp = {} /\ Range(ndp) = {}
    BY DEF Init, Range
  <2>2. NewForm \in Form
    BY DEF NewForm, Form, Text, Picture
  <2>3. TypeOK
    <3>1. /\ {kIsWeb, patient, unread} \subseteq BOOLEAN
          /\ user \in Users \cup {Nobody} /\ onPage \in BOOLEAN
          /\ picking \in {"none", "source", "picking", "reading"}
      BY DEF Init
    <3>2. alerts \in Seq(Alert) /\ clock \in 0 .. MaxTime
      BY MaxTimeAssumption DEF Init
    <3> QED
      BY <2>1, <2>2, <3>1, <3>2 DEF Init, TypeOK
  <2>4. SubmissionInv /\ RequestInv /\ SeenInv
    BY <2>1 DEF Init, SubmissionInv, RequestInv, SeenInv
  <2> QED
    BY <2>3, <2>4 DEF NamesInv
<1>2. NamesInv /\ [Next]_vars => NamesInv'
  BY StepKinds, NamesCarried, NamesSubmit, NamesUploaded, NamesStored
<1> QED
  BY <1>1, <1>2, PTL DEF Spec

\* The form, its alerts, the submissions and what they store keep their types,
\* in whatever order the steps of pickAndCrop and proceedUpload come.
THEOREM NDPTypeCorrect == Spec => []TypeOK
<1>1. NamesInv => TypeOK
  BY DEF NamesInv
<1> QED
  BY <1>1, NamesInductive, PTL

\* No submission, whichever overlap, fail or outlive their page, is stored before
\* its picture or replaces another, and no picture replaces that of a request.
THEOREM RequestsKeptHolds == Spec => RequestsKept
<1> DEFINE Kept == \A t \in DOMAIN ndp :
                      LET at == ndp[t].imgUrl
                      IN  /\ at \in DOMAIN pictures
                          /\ t \in DOMAIN ndp' /\ ndp'[t] = ndp[t]
                          /\ at \in DOMAIN pictures' /\ pictures'[at] = pictures[at]
<1>1. ASSUME NamesInv, [Next]_vars PROVE Kept
  <2>1. \A t \in DOMAIN ndp : ndp[t].imgUrl = t /\ t \in DOMAIN pictures
    BY <1>1 DEF NamesInv, RequestInv
  <2>2. CASE Carried \/ Submit
    <3>1. UNCHANGED <<pictures, ndp>>
      BY <2>2 DEF Carried, Submit, saved
    <3> QED
      BY <2>1, <3>1
  <2>3. ASSUME NEW s \in under, Uploaded(s) \/ Stored(s) PROVE Kept
    <3>1. s.at \notin DOMAIN ndp
      BY <1>1 DEF NamesInv, SubmissionInv
    <3>2. CASE Uploaded(s)
      <4>1. pictures' = Put(pictures, s.at, s.picture) /\ ndp' = ndp
        BY <3>2 DEF Uploaded
      <4> QED
        BY <2>1, <3>1, <4>1 DEF Put
    <3>3. CASE Stored(s)
      <4>1. pictures' = pictures /\ ndp' = Put(ndp, s.at, [uid |-> s.uid, text |-> s.text, imgUrl |-> s.at])
        BY <3>3 DEF Stored
      <4> QED
        BY <2>1, <3>1, <4>1 DEF Put
    <3> QED
      BY <2>3, <3>2, <3>3
  <2> QED
    BY <1>1, <2>2, <2>3, StepKinds
<1>2. NamesInv /\ [Next]_vars => [Kept]_vars
  BY <1>1
<1> QED
  BY <1>2, NamesInductive, PTL DEF Spec, RequestsKept

----------------------------------------------------------------------------
\* What a customer who waits submitted.

\* The picture p is the one the form showed at time t.
AsShown(p, t) == p = seen[t].picture \/ (kIsWeb /\ unread)

WaitingInv ==
    patient =>
        /\ under # {} => picking = "none"
        /\ picking = "reading" \/ form.image = form.imageFile \/ unread
        /\ \A s \in under : s.step = "upload" =>
              /\ s.mounted /\ form.text = seen[s.at].text /\ user = seen[s.at].uid
              /\ AsShown(s.picture, s.at)
        /\ \A s \in under : s.step = "store" =>
              /\ s.text = seen[s.at].text /\ s.uid = seen[s.at].uid
              /\ AsShown(pictures[s.at], s.at)
        /\ \A t \in DOMAIN ndp :
              /\ ndp[t].text = seen[t].text /\ ndp[t].uid = seen[t].uid
              /\ AsShown(pictures[t], t)

\* The parts of WaitingInv.
LEMMA WaitingParts ==
    ASSUME WaitingInv, patient
    PROVE  /\ under # {} => picking = "none"
           /\ picking = "reading" \/ form.image = form.imageFile \/ unread
           /\ \A s \in under : s.step = "upload" =>
                 /\ s.mounted /\ form.text = seen[s.at].text /\ user = seen[s.at].uid
                 /\ AsShown(s.picture, s.at)
           /\ \A s \in under : s.step = "store" =>
                 /\ s.text = seen[s.at].text /\ s.uid = seen[s.at].uid
                 /\ AsShown(pictures[s.at], s.at)
           /\ \A t \in DOMAIN ndp :
                 /\ ndp[t].text = seen[t].text /\ ndp[t].uid = seen[t].uid
                 /\ AsShown(pictures[t], t)
BY DEF WaitingInv

\* While a submission of a waiting customer is under way, nothing but the
\* submission itself changes.
Still ==
    /\ UNCHANGED saved /\ under' \subseteq under /\ (unread => unread')
    /\ picking' = "reading" \/ form'.image = form'.imageFile \/ unread'
    /\ \/ under' = {}
       \/ UNCHANGED <<picking, user>> /\ form'.text = form.text

\* A step that leaves form, submissions and requests alone.
LEMMA StillKeeps ==
    ASSUME WaitingInv, Still
    PROVE  WaitingInv'
<1> SUFFICES ASSUME patient' PROVE WaitingInv'
  BY DEF WaitingInv
<1>1. /\ UNCHANGED <<kIsWeb, patient, clock, pictures, ndp, seen>> /\ under' \subseteq under
      /\ (unread => unread')
  BY DEF Still, saved, fixed
<1>2. patient
  BY <1>1
<1>3. \A p, t : AsShown(p, t) => AsShown(p, t)'
  BY <1>1 DEF AsShown
<1>4. \A t \in DOMAIN ndp' : /\ ndp'[t].text = seen'[t].text /\ ndp'[t].uid = seen'[t].uid
                             /\ AsShown(pictures[t], t)'
  <2> SUFFICES ASSUME NEW t \in DOMAIN ndp
               PROVE  /\ ndp[t].text = seen[t].text /\ ndp[t].uid = seen[t].uid
                      /\ AsShown(pictures[t], t)'
    BY <1>1
  <2> QED
    BY <1>1, <1>2, WaitingParts DEF AsShown
<1>5. \A s \in under' : s.step = "store" =>
         /\ s.text = seen'[s.at].text /\ s.uid = seen'[s.at].uid
         /\ AsShown(pictures[s.at], s.at)'
  BY <1>1, <1>2, WaitingParts DEF AsShown
<1>6. \A s \in under' : s.step = "upload" =>
         /\ s.mounted /\ form'.text = seen'[s.at].text /\ user' = seen'[s.at].uid
         /\ AsShown(s.picture, s.at)'
  BY <1>1, <1>2, WaitingParts DEF AsShown, Still
<1>7. under' # {} => picking' = "none"
  BY <1>1, <1>2, WaitingParts DEF Still
<1> QED
  BY <1>4, <1>5, <1>6, <1>7 DEF WaitingInv, Still

\* Who is patient presses nothing while the page is busy.
LEMMA ReadyIsIdle ==
    ASSUME patient, Ready
    PROVE  picking = "none" /\ under = {}
BY DEF Ready, Idle

\* Leaving with nothing under way.
LEMMA LeaveEmpty ==
    ASSUME Leave, under = {}
    PROVE  under' = {} /\ picking' = "none" /\ form'.image = form'.imageFile
BY DEF Leave, NewForm

\* The steps that are none of a submission.
LEMMA StillSteps ==
    ASSUME NamesInv, WaitingInv, [Next]_vars, patient, ~Submit,
           \A s \in under : ~Uploaded(s) /\ ~Stored(s),
           \A kept \in SUBSET {s \in under : s.step = "store"} : ~Restart(kept)
    PROVE  Still
<1>0. /\ under # {} => picking = "none"
      /\ picking = "reading" \/ form.image = form.imageFile \/ unread
  BY WaitingParts
<1>1. CASE Open \/ Dismiss \/ Pick \/ SubmitIncomplete
  <2>1. /\ UNCHANGED <<saved, unread, user, form, under>>
        /\ UNCHANGED picking \/ (Pick /\ picking' = "source")
    BY <1>1 DEF Open, Dismiss, Pick, SubmitIncomplete
  <2>2. CASE UNCHANGED picking
    BY <1>0, <2>1, <2>2 DEF Still
  <2>3. CASE Pick /\ picking' = "source"
    <3>1. picking = "none" /\ under = {}
      BY <2>3, ReadyIsIdle DEF Pick
    <3> QED
      BY <1>0, <2>1, <3>1 DEF Still
  <2> QED
    BY <2>1, <2>2, <2>3
<1>2. CASE Source \/ NoSource \/ PickCancelled
  <2>1. /\ UNCHANGED <<saved, unread, user, form, under>>
        /\ picking \in {"source", "picking"} /\ picking' \in {"picking", "none"}
    BY <1>2 DEF Source, NoSource, PickCancelled
  <2>2. under = {} /\ (form.image = form.imageFile \/ unread)
    BY <1>0, <2>1
  <2> QED
    BY <2>1, <2>2 DEF Still
<1>3. CASE PickFailed
  <2>1. /\ UNCHANGED <<saved, user, form, under>> /\ picking \in {"picking", "reading"}
        /\ unread' = (unread \/ picking = "reading")
    BY <1>3 DEF PickFailed
  <2>2. under = {}
    BY <1>0, <2>1
  <2>3. form.image = form.imageFile \/ unread'
    BY <1>0, <2>1
  <2>4. unread => unread'
    BY <2>1
  <2> QED
    BY <2>1, <2>2, <2>3, <2>4 DEF Still
<1>4. ASSUME NEW u \in Users \cup {Nobody}, ChangeUser(u) PROVE Still
  <2>1. UNCHANGED <<saved, unread, form, picking, under>> /\ under = {}
    BY <1>4 DEF ChangeUser, Idle
  <2> QED
    BY <1>0, <2>1 DEF Still
<1>5. ASSUME NEW t \in Text, Type(t) PROVE Still
  <2>1. UNCHANGED <<saved, unread, user, picking, under>> /\ form' = [form EXCEPT !.text = t] /\ Ready
    BY <1>5 DEF Type
  <2>2. under = {}
    BY <2>1, ReadyIsIdle
  <2>3. form'.image = form.image /\ form'.imageFile = form.imageFile
    BY <2>1 DEF NamesInv, TypeOK, Form
  <2> QED
    BY <1>0, <2>1, <2>2, <2>3 DEF Still
<1>6. ASSUME NEW p \in Pictures, Chosen(p) PROVE Still
  <2>1. UNCHANGED <<saved, unread, user, under>> /\ picking = "picking" /\ picking' = "reading"
    BY <1>6 DEF Chosen
  <2>2. under = {}
    BY <1>0, <2>1
  <2> QED
    BY <2>1, <2>2 DEF Still
<1>7. CASE Back \/ Confirm
  <2>1. UNCHANGED <<saved, unread>> /\ Leave /\ Ready
    BY <1>7 DEF Back, Confirm
  <2>2. under = {}
    BY <2>1, ReadyIsIdle
  <2> QED
    BY <2>1, <2>2, LeaveEmpty DEF Still
<1>8. CASE BytesRead
  <2>1. /\ UNCHANGED <<saved, unread, user>> /\ picking = "reading"
        /\ Leave \/ (form' = [form EXCEPT !.image = form.imageFile] /\ UNCHANGED under)
    BY <1>8 DEF BytesRead
  <2>2. under = {}
    BY <1>0, <2>1
  <2>3. form' = [form EXCEPT !.image = form.imageFile] => form'.image = form'.imageFile
    BY DEF NamesInv, TypeOK, Form
  <2> QED
    BY <2>1, <2>2, <2>3, LeaveEmpty DEF Still
<1>9. ASSUME NEW s \in under, Failed(s) PROVE Still
  BY <1>0, <1>9 DEF Failed, Still
<1>10. CASE UNCHANGED vars
  BY <1>0, <1>10 DEF vars, Still
<1> QED
  BY <1>1, <1>2, <1>3, <1>4, <1>5, <1>6, <1>7, <1>8, <1>9, <1>10 DEF Next

\* A restart leaves only requests whose fields and user are read already.
LEMMA WaitingRestart ==
    ASSUME NamesInv, WaitingInv, NEW kept \in SUBSET {s \in under : s.step = "store"}, Restart(kept)
    PROVE  WaitingInv'
<1> SUFFICES ASSUME patient' PROVE WaitingInv'
  BY DEF WaitingInv
<1>1. /\ UNCHANGED <<kIsWeb, patient, clock, pictures, ndp, seen, unread>> /\ picking' = "none"
      /\ form'.image = form'.imageFile
  BY DEF Restart, saved, fixed, NewForm
<1>2. patient
  BY <1>1
<1>3. \A r \in under' : \E s \in under : s.step = "store" /\ SameSubmission(r, s)
  <2> SUFFICES ASSUME NEW s \in kept
               PROVE  s.step = "store" /\ SameSubmission([s EXCEPT !.mounted = FALSE], s)
    BY DEF Restart
  <2>1. s \in Submission /\ s.step = "store"
    BY DEF NamesInv, TypeOK
  <2> QED
    BY <2>1 DEF SameSubmission, Submission
<1>4. \A r \in under' : r.step = "store" /\ \E s \in under : s.step = "store" /\ SameSubmission(r, s)
  BY <1>3 DEF SameSubmission
<1>5. \A r \in under' : /\ r.text = seen[r.at].text /\ r.uid = seen[r.at].uid
                        /\ AsShown(pictures[r.at], r.at)
  BY <1>2, <1>4, WaitingParts DEF SameSubmission
<1>6. \A r \in under' : /\ r.step # "upload"
                        /\ r.text = seen'[r.at].text /\ r.uid = seen'[r.at].uid
                        /\ AsShown(pictures[r.at], r.at)'
  BY <1>1, <1>4, <1>5 DEF AsShown
<1>7. \A t \in DOMAIN ndp' : /\ ndp'[t].text = seen'[t].text /\ ndp'[t].uid = seen'[t].uid
                             /\ AsShown(pictures[t], t)'
  BY <1>1, <1>2, WaitingParts DEF AsShown
<1> QED
  BY <1>1, <1>6, <1>7 DEF WaitingInv

\* The form is shown as it is at the press.
LEMMA WaitingSubmit ==
    ASSUME NamesInv, WaitingInv, Submit
    PROVE  WaitingInv'
<1> SUFFICES ASSUME patient' PROVE WaitingInv'
  BY DEF WaitingInv
<1> DEFINE p == IF kIsWeb THEN form.image ELSE form.imageFile
           n == clock + 1
           shown == [uid |-> user, text |-> form.text, picture |-> form.imageFile]
<1>1. /\ UNCHANGED <<kIsWeb, patient, unread, user, form, picking, pictures, ndp>>
      /\ seen' = Append(seen, shown) /\ Ready
  BY DEF Submit, fixed
<1>2. patient
  BY <1>1
<1>3. picking = "none" /\ under = {}
  BY <1>1, <1>2, ReadyIsIdle
<1>4. \A s \in under' : /\ s.at = n /\ s.step = "upload" /\ s.mounted = TRUE /\ s.picture = p
  BY <1>3 DEF Submit
<1>5. seen \in Seq(Shown) /\ Len(seen) = clock /\ shown \in Shown /\ clock \in Nat
  BY DEF NamesInv, SeenInv, TypeOK, Shown, Form
<1>6. seen'[n] = shown /\ \A t \in 1 .. clock : seen'[t] = seen[t]
  BY <1>1, <1>5
<1>7. shown.uid = user /\ shown.text = form.text /\ shown.picture = form.imageFile
  OBVIOUS
<1>8. p = form.imageFile \/ (kIsWeb /\ unread)
  BY <1>2, <1>3, WaitingParts
<1> HIDE DEF n, shown, p
<1>9. \A s \in under' : /\ s.step # "store" /\ s.mounted /\ form'.text = seen'[s.at].text
                        /\ user' = seen'[s.at].uid /\ AsShown(s.picture, s.at)'
  BY <1>1, <1>4, <1>6, <1>7, <1>8 DEF AsShown
<1>10. \A t \in DOMAIN ndp : t \in 1 .. clock
  BY <1>5 DEF NamesInv, RequestInv, TypeOK, Time
<1>11. \A t \in DOMAIN ndp' : /\ ndp'[t].text = seen'[t].text /\ ndp'[t].uid = seen'[t].uid
                              /\ AsShown(pictures[t], t)'
  <2>1. \A t \in DOMAIN ndp : /\ ndp[t].text = seen[t].text /\ ndp[t].uid = seen[t].uid
                              /\ pictures[t] = seen[t].picture \/ (kIsWeb /\ unread)
    BY <1>2, WaitingParts DEF AsShown
  <2>2. \A t \in DOMAIN ndp : seen'[t] = seen[t]
    BY <1>6, <1>10
  <2>3. ndp' = ndp /\ pictures' = pictures /\ kIsWeb' = kIsWeb /\ unread' = unread
    BY <1>1
  <2> QED
    BY <2>1, <2>2, <2>3 DEF AsShown
<1> QED
  BY <1>1, <1>2, <1>3, <1>9, <1>11, WaitingParts DEF WaitingInv

\* The fields and the user are still those of the press.
LEMMA WaitingUploaded ==
    ASSUME NamesInv, WaitingInv, NEW s \in under, Uploaded(s)
    PROVE  WaitingInv'
<1> SUFFICES ASSUME patient' PROVE WaitingInv'
  BY DEF WaitingInv
<1> DEFINE s1 == [s EXCEPT !.step = "store", !.uid = user,
                           !.text = IF s.mounted THEN form.text ELSE s.left]
<1>1. /\ UNCHANGED <<kIsWeb, patient, unread, user, form, picking, clock, ndp, seen>>
      /\ s.step = "upload" /\ pictures' = Put(pictures, s.at, s.picture)
      /\ under' = under \ {s} \/ under' = (under \ {s}) \cup {s1}
  BY DEF Uploaded, fixed
<1>2. patient
  BY <1>1
<1>3. /\ s.mounted /\ form.text = seen[s.at].text /\ user = seen[s.at].uid /\ AsShown(s.picture, s.at)
      /\ picking = "none"
  BY <1>1, <1>2, WaitingParts
<1>4. s1.at = s.at /\ s1.step = "store" /\ s1.uid = user /\ s1.text = form.text
  BY <1>3 DEF NamesInv, TypeOK, Submission
<1> HIDE DEF s1
<1>5. /\ pictures'[s.at] = s.picture
      /\ \A t \in DOMAIN pictures : t # s.at => pictures'[t] = pictures[t]
  <2>1. pictures' = Put(pictures, s.at, s.picture)
    BY <1>1
  <2> QED
    BY <2>1 DEF Put
<1>6. \A t \in DOMAIN ndp : t \in DOMAIN pictures /\ t # s.at
  BY DEF NamesInv, RequestInv, SubmissionInv
<1>7. \A r \in under : r # s => r.at # s.at /\ (r.step = "store" => r.at \in DOMAIN pictures)
  BY DEF NamesInv, SubmissionInv
<1>8. \A r \in under' : r.step = "store" =>
         /\ r.text = seen'[r.at].text /\ r.uid = seen'[r.at].uid
         /\ AsShown(pictures[r.at], r.at)'
  <2> SUFFICES ASSUME NEW r \in under', r.step = "store"
               PROVE  /\ r.text = seen[r.at].text /\ r.uid = seen[r.at].uid
                      /\ pictures'[r.at] = seen[r.at].picture \/ (kIsWeb /\ unread)
    BY <1>1 DEF AsShown
  <2>1. CASE r = s1
    <3>1. pictures'[r.at] = s.picture
      BY <2>1, <1>4, <1>5
    <3> QED
      BY <2>1, <3>1, <1>3, <1>4 DEF AsShown
  <2>2. CASE r # s1
    <3>1. r \in under /\ r # s
      BY <2>2, <1>1
    <3>2. pictures'[r.at] = pictures[r.at]
      BY <3>1, <1>5, <1>7
    <3> QED
      BY <3>1, <3>2, <1>2, WaitingParts DEF AsShown
  <2> QED
    BY <2>1, <2>2
<1>9. \A r \in under' : r.step = "upload" =>
         /\ r.mounted /\ form'.text = seen'[r.at].text /\ user' = seen'[r.at].uid
         /\ AsShown(r.picture, r.at)'
  <2> SUFFICES ASSUME NEW r \in under', r.step = "upload"
               PROVE  /\ r.mounted /\ form.text = seen[r.at].text /\ user = seen[r.at].uid
                      /\ AsShown(r.picture, r.at)
    BY <1>1 DEF AsShown
  <2>1. r \in under
    BY <1>1, <1>4
  <2> QED
    BY <2>1, <1>2, WaitingParts
<1>10. \A t \in DOMAIN ndp' : /\ ndp'[t].text = seen'[t].text /\ ndp'[t].uid = seen'[t].uid
                              /\ AsShown(pictures[t], t)'
  <2> SUFFICES ASSUME NEW t \in DOMAIN ndp
               PROVE  /\ ndp[t].text = seen[t].text /\ ndp[t].uid = seen[t].uid
                      /\ pictures'[t] = seen[t].picture \/ (kIsWeb /\ unread)
    BY <1>1 DEF AsShown
  <2>1. pictures'[t] = pictures[t]
    BY <1>5, <1>6
  <2> QED
    BY <2>1, <1>2, WaitingParts DEF AsShown
<1> QED
  BY <1>1, <1>2, <1>3, <1>8, <1>9, <1>10, WaitingParts DEF WaitingInv

\* The request is stored as it was made.
LEMMA WaitingStored ==
    ASSUME NamesInv, WaitingInv, NEW s \in under, Stored(s)
    PROVE  WaitingInv'
<1> SUFFICES ASSUME patient' PROVE WaitingInv'
  BY DEF WaitingInv
<1> DEFINE q == [uid |-> s.uid, text |-> s.text, imgUrl |-> s.at]
<1>1. /\ UNCHANGED <<kIsWeb, patient, unread, user, form, picking, clock, pictures, seen>>
      /\ s.step = "store" /\ ndp' = Put(ndp, s.at, q) /\ under' = under \ {s}
  BY DEF Stored, fixed
<1>2. patient
  BY <1>1
<1>3. s.text = seen[s.at].text /\ s.uid = seen[s.at].uid /\ AsShown(pictures[s.at], s.at)
  BY <1>1, <1>2, WaitingParts
<1>4. q.text = s.text /\ q.uid = s.uid
  OBVIOUS
<1> HIDE DEF q
<1>5. /\ ndp'[s.at] = q /\ DOMAIN ndp' = DOMAIN ndp \cup {s.at}
      /\ \A t \in DOMAIN ndp : t # s.at => ndp'[t] = ndp[t]
  <2>1. ndp' = Put(ndp, s.at, q)
    BY <1>1
  <2> QED
    BY <2>1 DEF Put
<1>6. \A t \in DOMAIN ndp' : /\ ndp'[t].text = seen'[t].text /\ ndp'[t].uid = seen'[t].uid
                             /\ AsShown(pictures[t], t)'
  <2> SUFFICES ASSUME NEW t \in DOMAIN ndp'
               PROVE  /\ ndp'[t].text = seen[t].text /\ ndp'[t].uid = seen[t].uid
                      /\ AsShown(pictures[t], t)
    BY <1>1 DEF AsShown
  <2> QED
    BY <1>2, <1>3, <1>4, <1>5, WaitingParts
<1>7. \A r \in under' : r.step = "store" =>
         /\ r.text = seen'[r.at].text /\ r.uid = seen'[r.at].uid
         /\ AsShown(pictures[r.at], r.at)'
  BY <1>1, <1>2, WaitingParts DEF AsShown
<1>8. \A r \in under' : r.step = "upload" =>
         /\ r.mounted /\ form'.text = seen'[r.at].text /\ user' = seen'[r.at].uid
         /\ AsShown(r.picture, r.at)'
  BY <1>1, <1>2, WaitingParts DEF AsShown
<1> QED
  BY <1>1, <1>2, <1>6, <1>7, <1>8, WaitingParts DEF WaitingInv

\* No step breaks what a customer who waits may rely on.
LEMMA WaitingStep ==
    ASSUME NamesInv, WaitingInv, [Next]_vars
    PROVE  WaitingInv'
<1>1. patient' = patient
  <2>1. CASE Carried \/ Submit
    BY <2>1 DEF Carried, Submit, saved, fixed
  <2>2. ASSUME NEW s \in under, Uploaded(s) \/ Stored(s) PROVE patient' = patient
    BY <2>2 DEF Uploaded, Stored, fixed
  <2> QED
    BY <2>1, <2>2, StepKinds
<1>2. CASE ~patient
  BY <1>1, <1>2 DEF WaitingInv
<1>3. CASE patient
  BY <1>3, StillSteps, StillKeeps, WaitingRestart, WaitingSubmit, WaitingUploaded, WaitingStored
<1> QED
  BY <1>2, <1>3

\* To a customer who waits, a stored request holds the fields, the picture and
\* the user the form showed at SUBMIT; only bytes that could not be read, on the
\* web, leave the picture before in place.
THEOREM SubmittedAsSeenHolds == Spec => []SubmittedAsSeen
<1>1. Init => WaitingInv
  BY DEF Init, WaitingInv, NewForm
<1>2. NamesInv /\ WaitingInv /\ [Next]_vars => WaitingInv'
  BY WaitingStep
<1>3. NamesInv /\ WaitingInv => SubmittedAsSeen
  BY DEF NamesInv, RequestInv, WaitingInv, SubmittedAsSeen, AsShown
<1> QED
  BY <1>1, <1>2, <1>3, NamesInductive, PTL DEF Spec

=============================================================================
