----------------------------- MODULE BookUpload -----------------------------
(***************************************************************************)
(* Uploading a book: BooksUploadViewController on one device.              *)
(*                                                                         *)
(* A tap on "Submit" checks the form, takes a copy of it and uploads the   *)
(* picture to Storage under a fresh name.  When Storage answers, and the   *)
(* form is still there (the callback holds it weakly), the copy and the    *)
(* picture's name go to Firestore as a new document; when Firestore has    *)
(* acknowledged it an alert says so, whose OK refetches the list and       *)
(* leaves the form.  The button stays enabled, several submissions may be  *)
(* under way, an alert or picker on the screen swallows further alerts,    *)
(* and the app may be left, killed, cut off or signed out at any moment.   *)
(*                                                                         *)
(* The five text fields are one value, NoText when any of them is empty.   *)
(* A definition with an underscore in its name is a deliberately wrong     *)
(* variant of the one below it, which no specification uses: see README.   *)
(***************************************************************************)
EXTENDS Naturals, Sequences, FiniteSets

CONSTANTS
    Texts,          \* what the five text fields can say, all of them filled
    Images,         \* pictures in the photo library
    NoText,         \* at least one of the text fields is empty
    NoImage,        \* no picture was chosen
    MaxSubmits,     \* bound: submissions that pass the checks
    MaxForms,       \* bound: times the form is opened
    MaxFaults       \* bound: lost connections, killed apps, forced sign-outs

ASSUME UploadConstants ==
    /\ NoText \notin Texts
    /\ NoImage \notin Images
    /\ MaxSubmits \in Nat
    /\ MaxForms \in Nat
    /\ MaxFaults \in Nat

VARIABLES
    screen,         \* what the app shows
    form,           \* number of the form that was opened last
    text,           \* its text fields
    image,          \* its picture
    presented,      \* alert or picker over the form, and the submission it is about
    submissions,    \* copies taken by submitTapped, and how far they are
    blobs,          \* the files in Storage, by submission (the UUID of the file)
    queue,          \* Firestore's persistent queue of local writes
    documents,      \* the books in Firestore
    signedIn,       \* Auth.auth().currentUser is not nil
    online,         \* the backend can be reached
    faults          \* faults so far

editing == <<form, text, image>>
session == <<signedIn, online>>
vars    == <<screen, form, text, image, presented, submissions, blobs, queue,
             documents, signedIn, online, faults>>

Ids       == 1 .. MaxSubmits
Phases    == {"putting", "adding", "over"}
Copies    == [form : 1 .. MaxForms, text : Texts, image : Images, phase : Phases]
Blobs     == [sub : Ids, image : Images]
Documents == [id : Ids, text : Texts, path : Ids]
Nothing   == [kind |-> "none", sub |-> 0]
Covers    == [kind : {"none", "picker", "error", "success"}, sub : 0 .. MaxSubmits]

Running  == screen \notin {"stopped", "crashed"}
Ready    == screen = "form" /\ presented = Nothing
CanWrite == Running /\ online /\ signedIn

\* Is the controller that made submission s still there?
FormAlive(s) == screen = "form" /\ submissions[s].form = form

Stored(s)   == \E blob \in blobs : blob.sub = s
InPhase(s, p) == s \in DOMAIN submissions /\ submissions[s].phase = p
UnderWay(s) == InPhase(s, "putting") \/ InPhase(s, "adding")
Queued(s)   == \E k \in DOMAIN queue : queue[k].path = s
Phase(s, p) == submissions' = [submissions EXCEPT ![s].phase = p]

\* UIKit presents an alert only over a controller that presents nothing.
ShowAlert(kind, s) ==
    presented' = IF presented = Nothing THEN [kind |-> kind, sub |-> s]
                                        ELSE presented

\* The process ends: whatever was under way in memory is over.
Quit(how) ==
    /\ screen' = how
    /\ presented' = Nothing
    /\ submissions' = [s \in DOMAIN submissions |->
                         [submissions[s] EXCEPT !.phase = "over"]]

-----------------------------------------------------------------------------
Init ==
    /\ screen = "library"
    /\ form = 0
    /\ text = NoText
    /\ image = NoImage
    /\ presented = Nothing
    /\ submissions = <<>>
    /\ blobs = {}
    /\ queue = <<>>
    /\ documents = {}
    /\ signedIn = TRUE
    /\ online = TRUE
    /\ faults = 0

Launch ==
    /\ ~Running
    /\ screen' = IF signedIn THEN "library" ELSE "auth"
    /\ UNCHANGED <<editing, presented, submissions, blobs, queue, documents,
                   session, faults>>

SignIn ==
    /\ screen = "auth"
    /\ online
    /\ signedIn' = TRUE
    /\ screen' = "library"
    /\ UNCHANGED <<editing, presented, submissions, blobs, queue, documents,
                   online, faults>>

OpenForm ==
    /\ screen = "library"
    /\ form < MaxForms
    /\ form' = form + 1
    /\ text' = NoText
    /\ image' = NoImage
    /\ screen' = "form"
    /\ UNCHANGED <<presented, submissions, blobs, queue, documents, session,
                   faults>>

\* The back button: the form is released, its callbacks find nobody.
Back ==
    /\ Ready
    /\ screen' = "library"
    /\ UNCHANGED <<editing, presented, submissions, blobs, queue, documents,
                   session, faults>>

EditText ==
    /\ Ready
    /\ text' \in Texts \cup {NoText}
    /\ UNCHANGED <<screen, form, image, presented, submissions, blobs, queue,
                   documents, session, faults>>

UploadImageTapped ==
    /\ Ready
    /\ presented' = [kind |-> "picker", sub |-> 0]
    /\ UNCHANGED <<screen, editing, submissions, blobs, queue, documents,
                   session, faults>>

\* The picker is dismissed, with a picture or without.
PickerDone ==
    /\ presented.kind = "picker"
    /\ presented' = Nothing
    /\ image' \in Images \cup {image}
    /\ UNCHANGED <<screen, form, text, submissions, blobs, queue, documents,
                   session, faults>>

-----------------------------------------------------------------------------
(***************************************************************************)
(* submitTapped and its two callbacks.                                     *)
(***************************************************************************)
Complete == text # NoText /\ image # NoImage

SubmitTapped ==
    /\ Ready
    /\ \/ /\ ~Complete
          /\ ShowAlert("error", 0)
          /\ UNCHANGED <<screen, submissions>>
       \/ /\ Complete
          /\ ~signedIn
          /\ Quit("crashed")
       \/ /\ Complete               \* a picture that has no PNG form: nothing
          /\ signedIn
          /\ UNCHANGED <<screen, presented, submissions>>
       \/ /\ Complete
          /\ signedIn
          /\ Len(submissions) < MaxSubmits
          /\ submissions' = Append(submissions,
                [form |-> form, text |-> text, image |-> image,
                 phase |-> "putting"])
          /\ UNCHANGED <<screen, presented>>
    /\ UNCHANGED <<editing, blobs, queue, documents, session, faults>>

\* Storage has received the picture.
StoreBlob(s) ==
    /\ Running /\ online
    /\ InPhase(s, "putting")
    /\ blobs' = blobs \cup {[sub |-> s, image |-> submissions[s].image]}
    /\ UNCHANGED <<screen, editing, presented, submissions, queue, documents,
                   session, faults>>

\* Variant of PutSucceeded that reads the form, not the copy of it.
PutSucceeded_ReadsForm(s) ==
    /\ Running
    /\ InPhase(s, "putting")
    /\ Stored(s)
    /\ FormAlive(s)
    /\ queue' = Append(queue, [id |-> s, text |-> text, path |-> s])
    /\ Phase(s, "adding")
    /\ UNCHANGED <<screen, editing, presented, blobs, documents, session, faults>>

\* putData reports metadata: the copy is queued as a document, unless the form
\* is gone; then the picture stays without a book.
PutSucceeded(s) ==
    /\ Running
    /\ InPhase(s, "putting")
    /\ Stored(s)
    /\ IF FormAlive(s)
       THEN /\ queue' = Append(queue, [id |-> s, text |-> submissions[s].text,
                                       path |-> s])
            /\ Phase(s, "adding")
       ELSE /\ Phase(s, "over")
            /\ UNCHANGED queue
    /\ UNCHANGED <<screen, editing, presented, blobs, documents, session, faults>>

\* putData reports an error, which is printed, or neither error nor metadata.
\* The picture may have been stored all the same.
PutFailed(s) ==
    /\ Running
    /\ InPhase(s, "putting")
    /\ Phase(s, "over")
    /\ UNCHANGED <<screen, editing, presented, blobs, queue, documents, session,
                   faults>>

\* The backend applies a queued document after those before it; the client
\* chose its id, so that applying it again changes nothing.
Commit ==
    /\ CanWrite
    /\ \E k \in DOMAIN queue :
         /\ \A j \in 1 .. k - 1 : queue[j] \in documents
         /\ queue[k] \notin documents
         /\ documents' = documents \cup {queue[k]}
    /\ UNCHANGED <<screen, editing, presented, submissions, blobs, queue,
                   session, faults>>

\* Variant of Completed that holds the form strongly.
Completed_StrongSelf(s, kind) ==
    IF UnderWay(s)
    THEN Phase(s, "over") /\ ShowAlert(kind, s)
    ELSE UNCHANGED <<submissions, presented>>

\* Variant of Completed that forgets a submission whose form was left.
Completed_FormOnly(s, kind) ==
    IF UnderWay(s) /\ FormAlive(s)
    THEN Phase(s, "over") /\ ShowAlert(kind, s)
    ELSE UNCHANGED <<submissions, presented>>

\* The completion of addDocument, if this process called it: an alert, if the
\* form is still there.
Completed(s, kind) ==
    IF UnderWay(s)
    THEN /\ Phase(s, "over")
         /\ IF FormAlive(s) THEN ShowAlert(kind, s) ELSE UNCHANGED presented
    ELSE UNCHANGED <<submissions, presented>>

\* Variant of Ack that waits for the process that queued the write.
Ack_OwnProcess ==
    /\ CanWrite
    /\ queue # <<>>
    /\ Head(queue) \in documents
    /\ UnderWay(Head(queue).path)
    /\ queue' = Tail(queue)
    /\ Completed(Head(queue).path, "success")
    /\ UNCHANGED <<screen, editing, blobs, documents, session, faults>>

Ack ==
    /\ CanWrite
    /\ queue # <<>>
    /\ Head(queue) \in documents
    /\ queue' = Tail(queue)
    /\ Completed(Head(queue).path, "success")
    /\ UNCHANGED <<screen, editing, blobs, documents, session, faults>>

\* The backend refuses the oldest write (also one it had applied before the
\* acknowledgement was lost).
Reject ==
    /\ CanWrite
    /\ queue # <<>>
    /\ queue' = Tail(queue)
    /\ Completed(Head(queue).path, "error")
    /\ UNCHANGED <<screen, editing, blobs, documents, session, faults>>

\* Variant of DismissAlert that leaves the form with the alert still up.
DismissAlert_LeavesFirst ==
    /\ presented.kind \in {"error", "success"}
    /\ IF presented.kind = "success"
       THEN screen' = "library" /\ UNCHANGED presented
       ELSE presented' = Nothing /\ UNCHANGED screen
    /\ UNCHANGED <<editing, submissions, blobs, queue, documents, session, faults>>

\* OK on an alert; after a success the list is refetched and the form left.
DismissAlert ==
    /\ presented.kind \in {"error", "success"}
    /\ presented' = Nothing
    /\ screen' = IF presented.kind = "success" THEN "library" ELSE screen
    /\ UNCHANGED <<editing, submissions, blobs, queue, documents, session, faults>>

-----------------------------------------------------------------------------
Disconnect ==
    /\ Running
    /\ online
    /\ faults < MaxFaults
    /\ faults' = faults + 1
    /\ online' = FALSE
    /\ UNCHANGED <<screen, editing, presented, submissions, blobs, queue,
                   documents, signedIn>>

Reconnect ==
    /\ ~online
    /\ online' = TRUE
    /\ UNCHANGED <<screen, editing, presented, submissions, blobs, queue,
                   documents, signedIn, faults>>

ForcedSignOut ==
    /\ Running
    /\ online
    /\ signedIn
    /\ faults < MaxFaults
    /\ faults' = faults + 1
    /\ signedIn' = FALSE
    /\ UNCHANGED <<screen, editing, presented, submissions, blobs, queue,
                   documents, online>>

Terminate ==
    /\ Running
    /\ faults < MaxFaults
    /\ faults' = faults + 1
    /\ Quit("stopped")
    /\ UNCHANGED <<editing, blobs, queue, documents, session>>

Next ==
    \/ Launch \/ SignIn \/ OpenForm \/ Back
    \/ EditText \/ UploadImageTapped \/ PickerDone \/ SubmitTapped
    \/ \E s \in Ids :
          StoreBlob(s) \/ PutSucceeded(s) \/ PutFailed(s)
    \/ Commit \/ Ack \/ Reject
    \/ DismissAlert
    \/ Disconnect \/ Reconnect \/ ForcedSignOut \/ Terminate

Spec == Init /\ [][Next]_vars

\* The two client libraries keep running and the network comes back; no step
\* of the user is fair.
Fairness ==
    /\ \A s \in Ids : WF_vars(StoreBlob(s))
    /\ \A s \in Ids : WF_vars(PutSucceeded(s))
    /\ WF_vars(Commit)
    /\ WF_vars(Ack)
    /\ WF_vars(Reconnect)

FairSpec == Spec /\ Fairness

-----------------------------------------------------------------------------
(***************************************************************************)
(* Properties                                                              *)
(***************************************************************************)

\* Type correctness; alerts and the picker only cover the form, and the form
\* is not shown before one was opened.
TypeOK ==
    /\ screen \in {"stopped", "crashed", "auth", "library", "form"}
    /\ form \in 0 .. MaxForms
    /\ text \in Texts \cup {NoText}
    /\ image \in Images \cup {NoImage}
    /\ presented \in Covers
    /\ submissions \in Seq(Copies)
    /\ Len(submissions) <= MaxSubmits
    /\ blobs \subseteq Blobs
    /\ queue \in Seq(Documents)
    /\ documents \subseteq Documents
    /\ signedIn \in BOOLEAN
    /\ online \in BOOLEAN
    /\ faults \in 0 .. MaxFaults
    /\ presented # Nothing => screen = "form"
    /\ screen = "form" => form > 0

\* A document that is queued or visible names a picture that is in Storage,
\* and it is the one that was in the form together with the document's text:
\* the picture goes first, whatever is edited, left, killed or sent again.
ImageBeforeDocument ==
    \A doc \in documents \cup {queue[k] : k \in DOMAIN queue} :
        /\ doc.path \in DOMAIN submissions
        /\ doc.text = submissions[doc.path].text
        /\ [sub |-> doc.path, image |-> submissions[doc.path].image] \in blobs

\* "Book Uploaded Successfully" is only ever shown over the form that made the
\* submission, and when its document is in Firestore: the list that OK fetches
\* will contain it.
SuccessIsTrue ==
    presented.kind = "success" =>
        /\ \E doc \in documents : doc.path = presented.sub
        /\ FormAlive(presented.sub)

\* Every submission comes to an end, be it a failure, unless its user has been
\* signed out and the document has to wait.
SubmissionsEnd ==
    \A s \in Ids : UnderWay(s) ~> (~UnderWay(s) \/ ~signedIn)

\* A document that was queued reaches the backend or is refused, also when
\* its form is left or it was queued by an earlier run of the app.
QueueDrains ==
    \A s \in Ids : Queued(s) ~> (~Queued(s) \/ ~Running \/ ~signedIn)

-----------------------------------------------------------------------------
Offered ==
    {[id |-> s, text |-> submissions[s].text, image |-> submissions[s].image] :
        s \in DOMAIN submissions}

\* A book as the others see it: the document and the picture it names.
PictureAt(path) ==
    IF Stored(path) THEN (CHOOSE blob \in blobs : blob.sub = path).image
                    ELSE NoImage

Visible ==
    {[id |-> doc.id, text |-> doc.text, image |-> PictureAt(doc.path)] :
        doc \in documents}

SharedShelf == INSTANCE Shelf WITH offered <- Offered, shelf <- Visible

\* The two-phase upload to two services looks like one atomic, optional,
\* at-most-once placement of what was in the form when Submit was tapped.
ImplementsShelf == SharedShelf!SSpec
=============================================================================
