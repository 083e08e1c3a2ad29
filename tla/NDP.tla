-------------------------------- MODULE NDP --------------------------------
(***************************************************************************)
(* Requests for products that are not displayed: the form of one device,   *)
(* its picture, and the submission in two steps, the picture to Storage    *)
(* and then the request to ndpCollection.                                  *)
(*                                                                         *)
(* What covers the page is a stack of alerts that anybody can tap away and *)
(* that the code pops blindly.  The first step of a submission takes the   *)
(* picture, the second what the fields hold and who is signed in by then.  *)
(***************************************************************************)
EXTENDS Naturals, Sequences, FiniteSets, SequencesExt

CONSTANTS
    Users,      \* customers
    Nobody,     \* the current user when nobody is signed in
    Texts,      \* what the fields may hold when they are filled in
    Blank,      \* the fields of a form that is not filled in
    Pictures,   \* pictures a customer may pick
    NoPicture,
    MaxTime,    \* bound: submissions
    Faults      \* whether steps fail and the application is killed

ASSUME NobodyAssumption == Nobody \notin Users
ASSUME BlankAssumption == Blank \notin Texts /\ NoPicture \notin Pictures
ASSUME MaxTimeAssumption == MaxTime \in Nat
ASSUME FaultsAssumption == Faults \in BOOLEAN

VARIABLES
    kIsWeb,     \* the platform: the web uploads bytes, the others the file
    patient,    \* whether nothing is pressed or typed while code of the page runs
    user,       \* FirebaseAuth.instance.currentUser
    onPage,     \* whether the form is open
    alerts,     \* what covers it, the top last
    form,       \* the fields, imageFile and image
    picking,    \* how far pickAndCrop is
    clock,      \* the last DateTime.now() of a submission
    under,      \* submissions under way
    pictures,   \* Storage: the pictures by their name
    ndp,        \* the documents of ndpCollection by their id
    seen,       \* history: what the form showed when it was submitted
    unread      \* history: whether the bytes of a picture could not be read

fixed == <<kIsWeb, patient>>
saved == <<fixed, clock, pictures, ndp, seen>>
vars == <<saved, user, onPage, alerts, form, picking, under, unread>>

----------------------------------------------------------------------------
Time == 1 .. MaxTime
Alert == {"loading", "source", "error", "success"}
Text == Texts \cup {Blank}
Picture == Pictures \cup {NoPicture}
Form == [text : Text, imageFile : Picture, image : Picture]
NewForm == [text |-> Blank, imageFile |-> NoPicture, image |-> NoPicture]

\* A submission, named by the time of the press.  m is its NDPModel once the
\* picture is uploaded; left is the text of a form that was left meanwhile.
Submission ==
    [at : Time, step : {"upload", "store"}, picture : Picture, mounted : BOOLEAN,
     left : Text, uid : Users \cup {Nobody}, text : Text]

Request == [uid : Users, text : Text, imgUrl : Time]

TypeOK ==
    /\ {kIsWeb, patient, unread} \subseteq BOOLEAN
    /\ user \in Users \cup {Nobody}
    /\ onPage \in BOOLEAN
    /\ alerts \in Seq(Alert)
    /\ form \in Form
    /\ picking \in {"none", "source", "picking", "reading"}
    /\ clock \in 0 .. MaxTime
    /\ under \subseteq Submission
    /\ DOMAIN pictures \subseteq Time /\ Range(pictures) \subseteq Pictures
    /\ DOMAIN ndp \subseteq Time /\ Range(ndp) \subseteq Request

Init ==
    /\ kIsWeb \in BOOLEAN
    /\ patient \in BOOLEAN
    /\ user \in Users
    /\ onPage = FALSE
    /\ alerts = <<>>
    /\ form = NewForm
    /\ picking = "none"
    /\ clock = 0
    /\ under = {}
    /\ pictures = <<>>
    /\ ndp = <<>>
    /\ seen = <<>>
    /\ unread = FALSE

----------------------------------------------------------------------------
Idle == picking = "none" /\ under = {}

\* A press is possible: the form is open and no picker or cropper covers it.
Ready == onPage /\ picking # "picking" /\ (patient => Idle)

\* The page goes away, with everything on top of it; submissions go on with the
\* fields as they are now.
Leave ==
    /\ onPage' = FALSE
    /\ alerts' = <<>>
    /\ form' = NewForm
    /\ picking' = "none"
    /\ under' = {[s EXCEPT !.mounted = FALSE,
                           !.left = IF s.mounted THEN form.text ELSE @] : s \in under}

Open ==
    /\ ~onPage /\ user # Nobody
    /\ onPage' = TRUE
    /\ UNCHANGED <<saved, unread, user, alerts, form, picking, under>>

Back ==
    /\ Ready /\ alerts = <<>>
    /\ Leave
    /\ UNCHANGED <<saved, unread, user>>

\* Away from the form, somebody signs out or in.
ChangeUser(u) ==
    /\ ~onPage /\ u # user /\ (patient => Idle)
    /\ user' = u
    /\ UNCHANGED <<saved, unread, onPage, alerts, form, picking, under>>

\* An alert is tapped away, or an error acknowledged.
Dismiss ==
    /\ Ready /\ alerts # <<>> /\ Last(alerts) # "source"
    /\ alerts' = Front(alerts)
    /\ UNCHANGED <<saved, unread, user, onPage, form, picking, under>>

\* The success alert leads home.
Confirm ==
    /\ Ready /\ alerts # <<>> /\ Last(alerts) = "success"
    /\ Leave
    /\ UNCHANGED <<saved, unread, user>>

Type(t) ==
    /\ Ready /\ alerts = <<>>
    /\ form' = [form EXCEPT !.text = t]
    /\ UNCHANGED <<saved, unread, user, onPage, alerts, picking, under>>

----------------------------------------------------------------------------
(* pickAndCrop.                                                            *)

Pick ==
    /\ Ready /\ alerts = <<>> /\ picking = "none"
    /\ alerts' = <<"loading", "source">>
    /\ picking' = "source"
    /\ UNCHANGED <<saved, unread, user, onPage, form, under>>

\* Camera or gallery.
Source ==
    /\ picking = "source" /\ Last(alerts) = "source"
    /\ alerts' = Front(alerts)
    /\ picking' = "picking"
    /\ UNCHANGED <<saved, unread, user, onPage, form, under>>

\* Neither: the sheet is tapped away, and the code pops the alert below it.
NoSource ==
    /\ picking = "source" /\ Last(alerts) = "source"
    /\ alerts' = Front(Front(alerts))
    /\ picking' = "none"
    /\ UNCHANGED <<saved, unread, user, onPage, form, under>>

\* A picture is chosen and cropped; its bytes are still to be read.
Chosen(p) ==
    /\ picking = "picking"
    /\ form' = [form EXCEPT !.imageFile = p]
    /\ picking' = "reading"
    /\ UNCHANGED <<saved, unread, user, onPage, alerts, under>>

\* Mutant: the bytes of the first picture are kept.
BytesReadOnce ==
    /\ picking = "reading"
    /\ picking' = "none"
    /\ IF alerts = <<>> THEN Leave
       ELSE /\ alerts' = Front(alerts)
            /\ form' = IF form.image = NoPicture
                       THEN [form EXCEPT !.image = form.imageFile] ELSE form
            /\ UNCHANGED <<onPage, under>>
    /\ UNCHANGED <<saved, unread, user>>

\* The bytes are there.  context.pop() is meant for the loading alert and takes
\* whatever is on top: the page itself when the alert was tapped away.
BytesRead ==
    /\ picking = "reading"
    /\ picking' = "none"
    /\ IF alerts = <<>> THEN Leave
       ELSE /\ alerts' = Front(alerts)
            /\ form' = [form EXCEPT !.image = form.imageFile]
            /\ UNCHANGED <<onPage, under>>
    /\ UNCHANGED <<saved, unread, user>>

\* The picker or the cropper is cancelled.
PickCancelled ==
    /\ picking = "picking"
    /\ picking' = "none"
    /\ alerts' = Front(alerts)
    /\ UNCHANGED <<saved, unread, user, onPage, form, under>>

\* They fail, or the bytes cannot be read.
PickFailed ==
    /\ Faults /\ picking \in {"picking", "reading"}
    /\ picking' = "none"
    /\ alerts' = Append(alerts, "error")
    /\ unread' = (unread \/ picking = "reading")
    /\ UNCHANGED <<saved, user, onPage, form, under>>

----------------------------------------------------------------------------
(* proceedUpload.                                                          *)

\* SUBMIT with the fields filled in and no picture.
SubmitIncomplete ==
    /\ Ready /\ alerts = <<>> /\ form.text # Blank /\ form.imageFile = NoPicture
    /\ alerts' = <<"error">>
    /\ UNCHANGED <<saved, unread, user, onPage, form, picking, under>>

\* Mutant: a form without a picture is submitted.
SubmitUnchecked ==
    /\ Ready /\ alerts = <<>> /\ form.text # Blank
    /\ clock < MaxTime
    /\ clock' = clock + 1
    /\ seen' = Append(seen, [uid |-> user, text |-> form.text,
                             picture |-> form.imageFile])
    /\ LET p == IF kIsWeb THEN form.image ELSE form.imageFile
       IN /\ alerts' = <<"loading">>
          /\ under' = under \cup {[at |-> clock', step |-> "upload",
                                   picture |-> p, mounted |-> TRUE,
                                   left |-> Blank, uid |-> Nobody,
                                   text |-> Blank]}
    /\ UNCHANGED <<fixed, unread, user, onPage, form, picking, pictures, ndp>>

\* SUBMIT.  The upload begins with the picture as it is now; on the web there
\* may be no bytes yet, which throws.
Submit ==
    /\ Ready /\ alerts = <<>> /\ form.text # Blank /\ form.imageFile # NoPicture
    /\ clock < MaxTime
    /\ clock' = clock + 1
    /\ seen' = Append(seen, [uid |-> user, text |-> form.text,
                             picture |-> form.imageFile])
    /\ LET p == IF kIsWeb THEN form.image ELSE form.imageFile
       IN IF p = NoPicture
          THEN alerts' = <<"loading", "error">> /\ UNCHANGED under
          ELSE /\ alerts' = <<"loading">>
               /\ under' = under \cup {[at |-> clock', step |-> "upload",
                                        picture |-> p, mounted |-> TRUE,
                                        left |-> Blank, uid |-> Nobody,
                                        text |-> Blank]}
    /\ UNCHANGED <<fixed, unread, user, onPage, form, picking, pictures, ndp>>

Put(f, t, v) == [x \in DOMAIN f \cup {t} |-> IF x = t THEN v ELSE f[x]]

\* What a submission tells the customer, if they are still there.
Tell(s, alert) ==
    alerts' = IF s.mounted THEN Append(alerts, alert) ELSE alerts

\* Mutant: the model is made before the picture is uploaded, which is not
\* waited for.
UploadedLater(s) ==
    /\ s.step = "upload"
    /\ user # Nobody
    /\ under' = (under \ {s}) \cup
           {[s EXCEPT !.step = "store", !.uid = user,
                      !.text = IF s.mounted THEN form.text ELSE s.left]}
    /\ UNCHANGED <<fixed, unread, clock, ndp, seen, pictures, user, onPage, alerts, form,
                   picking>>

\* The picture is stored and the NDPModel made: fields and user are read now.
Uploaded(s) ==
    /\ s.step = "upload"
    /\ pictures' = Put(pictures, s.at, s.picture)
    /\ IF user = Nobody
       THEN under' = under \ {s} /\ Tell(s, "error")
       ELSE /\ under' = (under \ {s}) \cup
                   {[s EXCEPT !.step = "store", !.uid = user,
                              !.text = IF s.mounted THEN form.text ELSE s.left]}
            /\ UNCHANGED alerts
    /\ UNCHANGED <<fixed, unread, clock, ndp, seen, user, onPage, form, picking>>

\* The Firestore client sends a write only while its customer is signed in;
\* Storage does not mind.
Sent(s) == s.step = "store" => s.uid = user

\* The request is stored.
Stored(s) ==
    /\ s.step = "store" /\ Sent(s)
    /\ ndp' = Put(ndp, s.at, [uid |-> s.uid, text |-> s.text, imgUrl |-> s.at])
    /\ under' = under \ {s}
    /\ Tell(s, "success")
    /\ UNCHANGED <<fixed, unread, clock, pictures, seen, user, onPage, form, picking>>

\* Mutant: the error is logged only.
FailedSilently(s) ==
    /\ Faults /\ Sent(s)
    /\ under' = under \ {s}
    /\ UNCHANGED <<saved, unread, user, onPage, alerts, form, picking>>

\* A step fails: the picture, if it was stored, stays.
Failed(s) ==
    /\ Faults /\ Sent(s)
    /\ under' = under \ {s}
    /\ Tell(s, "error")
    /\ UNCHANGED <<saved, unread, user, onPage, form, picking>>

\* The application is killed and started again.  No code goes on with a
\* submission: what is left of it is the write of its request, if that was
\* under way and the Firestore client kept it.
Restart(kept) ==
    /\ Faults /\ under # {}
    /\ onPage' = FALSE
    /\ alerts' = <<>>
    /\ form' = NewForm
    /\ picking' = "none"
    /\ under' = {[s EXCEPT !.mounted = FALSE] : s \in kept}
    /\ UNCHANGED <<saved, unread, user>>

Next ==
    \/ Open
    \/ Back
    \/ \E u \in Users \cup {Nobody} : ChangeUser(u)
    \/ Dismiss
    \/ Confirm
    \/ \E t \in Text : Type(t)
    \/ Pick
    \/ Source
    \/ NoSource
    \/ \E p \in Pictures : Chosen(p)
    \/ BytesRead
    \/ PickCancelled
    \/ PickFailed
    \/ SubmitIncomplete
    \/ Submit
    \/ \E s \in under : Uploaded(s) \/ Stored(s) \/ Failed(s)
    \/ \E kept \in SUBSET {s \in under : s.step = "store"} : Restart(kept)

Spec == Init /\ [][Next]_vars

\* Firebase answers, and so does the device's own file.
FairSpec ==
    /\ Spec
    /\ \A t \in Time : WF_vars(\E s \in under : s.at = t /\ (Uploaded(s) \/ Stored(s)))
    /\ WF_vars(BytesRead)

----------------------------------------------------------------------------
\* To a customer who waits, a request holds what the form showed when it was
\* submitted: fields, picture and whose it is, on both platforms.  Only on the
\* web, where a picture whose bytes could not be read leaves those of the one
\* before it behind, the picture may be another.
SubmittedAsSeen ==
    patient => \A t \in DOMAIN ndp :
        /\ ndp[t].text = seen[t].text
        /\ ndp[t].uid = seen[t].uid
        /\ pictures[ndp[t].imgUrl] = seen[t].picture \/ (kIsWeb /\ unread)

\* Stored requests have their pictures in Storage, and neither changes any more:
\* no submission, whichever overlap, fail or outlive their page, is stored
\* before its picture or replaces another, and no picture replaces that of a
\* stored request.
RequestsKept ==
    [][\A t \in DOMAIN ndp :
           LET at == ndp[t].imgUrl
           IN  /\ at \in DOMAIN pictures
               /\ t \in DOMAIN ndp' /\ ndp'[t] = ndp[t]
               /\ at \in DOMAIN pictures' /\ pictures'[at] = pictures[at]]_vars

\* Every submission is answered, by a success or an error on top of the page, as
\* long as the customer stays.
SubmitAnswered ==
    \A t \in Time :
        (\E s \in under : s.at = t /\ s.mounted)
            ~> \/ alerts # <<>> /\ Last(alerts) \in {"success", "error"}
               \/ ~onPage

=============================================================================
