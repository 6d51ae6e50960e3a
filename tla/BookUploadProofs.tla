--------------------------- MODULE BookUploadProofs ---------------------------
(***************************************************************************)
(* Proofs about module BookUpload, for any texts and pictures and any      *)
(* number of submissions, forms and faults.                                *)
(***************************************************************************)
EXTENDS BookUpload, SequenceTheorems, TLAPS

\* Books that are queued on the device or visible to everybody.
Pending == {queue[k] : k \in DOMAIN queue}
Known   == documents \cup Pending

\* The copies, the files, the queue and the documents.
DataTyped ==
    /\ submissions \in Seq(Copies) /\ Len(submissions) <= MaxSubmits
    /\ blobs \subseteq Blobs
    /\ queue \in Seq(Documents)
    /\ documents \subseteq Documents

\* A file holds the picture of the copy it was made for, a document is named
\* after the file.
BlobsAreTrue ==
    \A blob \in blobs : /\ blob.sub \in DOMAIN submissions
                        /\ blob.image = submissions[blob.sub].image
IdsArePaths == \A doc \in Known : doc.id = doc.path

Data == DataTyped /\ BlobsAreTrue /\ IdsArePaths /\ ImageBeforeDocument

\* What the user sees.
Scene ==
    /\ screen \in {"stopped", "crashed", "auth", "library", "form"}
    /\ form \in 0 .. MaxForms
    /\ text \in Texts \cup {NoText}
    /\ image \in Images \cup {NoImage}
    /\ presented \in Covers
    /\ signedIn \in BOOLEAN /\ online \in BOOLEAN
    /\ faults \in 0 .. MaxFaults
    /\ presented # Nothing => screen = "form"
    /\ screen = "form" => form > 0

UploadInv == Data /\ Scene /\ SuccessIsTrue

\* Copies keep what they are copies of.
Kept ==
    /\ submissions' \in Seq(Copies) /\ Len(submissions') <= MaxSubmits
    /\ \A s \in DOMAIN submissions : /\ s \in DOMAIN submissions'
                                     /\ submissions'[s].form = submissions[s].form
                                     /\ submissions'[s].text = submissions[s].text
                                     /\ submissions'[s].image = submissions[s].image

-----------------------------------------------------------------------------
(* Copies, queue and documents.                                            *)

LEMMA CopyType ==
    ASSUME DataTyped, NEW s \in DOMAIN submissions
    PROVE  /\ submissions[s] \in Copies /\ s \in Ids
           /\ submissions[s].text \in Texts /\ submissions[s].image \in Images
  <1>1. submissions \in Seq(Copies) /\ Len(submissions) \in Nat /\ Len(submissions) <= MaxSubmits
    BY DEF DataTyped
  <1>2. s \in 1 .. Len(submissions) /\ submissions[s] \in Copies
    BY <1>1
  <1>3. s \in Ids
    BY <1>1, <1>2, UploadConstants DEF Ids, UploadConstants
  <1> QED BY <1>2, <1>3 DEF Copies

\* A phase that is moved on.
LEMMA PhaseStep ==
    ASSUME DataTyped, NEW s \in DOMAIN submissions, NEW p \in Phases, Phase(s, p)
    PROVE  Kept
  <1>1. /\ submissions \in Seq(Copies) /\ Len(submissions) \in Nat /\ Len(submissions) <= MaxSubmits
        /\ DOMAIN submissions = 1 .. Len(submissions)
    BY DEF DataTyped
  <1> DEFINE copy == [submissions[s] EXCEPT !.phase = p]
  <1>2. submissions[s] \in Copies
    BY CopyType
  <1>3. /\ copy \in Copies /\ copy.form = submissions[s].form
        /\ copy.text = submissions[s].text /\ copy.image = submissions[s].image
    BY <1>2 DEF Copies
  <1>4. submissions' = [submissions EXCEPT ![s] = copy]
    BY DEF Phase
  <1> HIDE DEF copy
  <1>5. submissions' \in Seq(Copies) /\ Len(submissions') = Len(submissions)
    BY <1>1, <1>3, <1>4
  <1>6. ASSUME NEW t \in DOMAIN submissions
        PROVE  /\ t \in DOMAIN submissions'
               /\ submissions'[t] = IF t = s THEN copy ELSE submissions[t]
    BY <1>1, <1>4
  <1> QED BY <1>1, <1>3, <1>5, <1>6 DEF Kept

\* The process ends.
LEMMA QuitStep ==
    ASSUME DataTyped, NEW how, Quit(how)
    PROVE  Kept
  <1>1. /\ submissions \in Seq(Copies) /\ Len(submissions) \in Nat /\ Len(submissions) <= MaxSubmits
        /\ DOMAIN submissions = 1 .. Len(submissions)
    BY DEF DataTyped
  <1>2. submissions' = [s \in 1 .. Len(submissions) |-> [submissions[s] EXCEPT !.phase = "over"]]
    BY <1>1 DEF Quit
  <1>3. ASSUME NEW s \in 1 .. Len(submissions)
        PROVE  /\ submissions'[s] \in Copies
               /\ submissions'[s].form = submissions[s].form
               /\ submissions'[s].text = submissions[s].text
               /\ submissions'[s].image = submissions[s].image
    <2>1. submissions[s] \in Copies /\ submissions'[s] = [submissions[s] EXCEPT !.phase = "over"]
      BY <1>1, <1>2
    <2> QED BY <2>1 DEF Copies, Phases
  <1>4. submissions' \in Seq(Copies) /\ Len(submissions') = Len(submissions)
    BY <1>1, <1>2, <1>3
  <1> QED BY <1>1, <1>2, <1>3, <1>4 DEF Kept

\* Copies kept, files kept, no new document.
LEMMA DataStep ==
    ASSUME Data, Kept, UNCHANGED blobs, Known' \subseteq Known,
           queue' \in Seq(Documents), documents' \subseteq Documents
    PROVE  Data'
  <1>1. DataTyped'
    BY DEF Data, DataTyped, Kept
  <1>2. BlobsAreTrue'
    BY DEF Data, BlobsAreTrue, Kept
  <1>3. IdsArePaths'
    BY DEF Data, IdsArePaths
  <1>4. ImageBeforeDocument'
    <2> SUFFICES ASSUME NEW doc \in Known'
                 PROVE  /\ doc.path \in DOMAIN submissions'
                        /\ doc.text = submissions'[doc.path].text
                        /\ [sub |-> doc.path, image |-> submissions'[doc.path].image] \in blobs'
      BY DEF ImageBeforeDocument, Known, Pending
    <2>1. /\ doc.path \in DOMAIN submissions
          /\ doc.text = submissions[doc.path].text
          /\ [sub |-> doc.path, image |-> submissions[doc.path].image] \in blobs
      BY DEF Data, ImageBeforeDocument, Known, Pending
    <2> QED BY <2>1 DEF Kept
  <1> QED BY <1>1, <1>2, <1>3, <1>4 DEF Data

\* Announcing a success stays true while the form stays and nothing is lost.
LEMMA SuccessStep ==
    ASSUME Data, SuccessIsTrue, Kept, documents \subseteq documents', UNCHANGED <<screen, form>>,
           presented' = presented \/ presented'.kind # "success"
    PROVE  SuccessIsTrue'
  <1> SUFFICES ASSUME presented'.kind = "success"
               PROVE  /\ \E doc \in documents' : doc.path = presented'.sub
                      /\ screen' = "form" /\ submissions'[presented'.sub].form = form'
    BY DEF SuccessIsTrue, FormAlive
  <1>1. presented' = presented
    OBVIOUS
  <1>2. PICK doc \in documents : doc.path = presented.sub
    BY <1>1 DEF SuccessIsTrue
  <1>3. presented.sub \in DOMAIN submissions
    BY <1>2 DEF Data, ImageBeforeDocument
  <1>4. screen = "form" /\ submissions[presented.sub].form = form
    BY <1>1 DEF SuccessIsTrue, FormAlive
  <1> QED BY <1>1, <1>2, <1>3, <1>4 DEF Kept

\* The first of the queue leaves it.
LEMMA QueueTail ==
    ASSUME DataTyped, queue # <<>>
    PROVE  /\ Tail(queue) \in Seq(Documents) /\ Head(queue) \in Pending
           /\ {Tail(queue)[k] : k \in DOMAIN Tail(queue)} \subseteq Pending
  <1>1. queue \in Seq(Documents) /\ Len(queue) \in Nat /\ Len(queue) > 0
    BY DEF DataTyped
  <1>2. /\ Tail(queue) \in Seq(Documents) /\ Len(Tail(queue)) = Len(queue) - 1
        /\ DOMAIN Tail(queue) = 1 .. Len(queue) - 1
        /\ \A k \in 1 .. Len(queue) - 1 : Tail(queue)[k] = queue[k + 1]
        /\ Head(queue) = queue[1] /\ DOMAIN queue = 1 .. Len(queue)
    BY <1>1
  <1>3. ASSUME NEW k \in DOMAIN Tail(queue)
        PROVE  Tail(queue)[k] \in Pending
    <2>1. k + 1 \in DOMAIN queue
      BY <1>1, <1>2
    <2> QED BY <1>2, <2>1 DEF Pending
  <1>4. Head(queue) \in Pending
    BY <1>1, <1>2 DEF Pending
  <1> QED BY <1>2, <1>3, <1>4

-----------------------------------------------------------------------------
(* The steps of the user, and faults.                                      *)

LEMMA UserStep ==
    ASSUME UploadInv,
           \/ Launch \/ SignIn \/ OpenForm \/ Back \/ EditText \/ UploadImageTapped \/ PickerDone
           \/ DismissAlert \/ Disconnect \/ Reconnect \/ ForcedSignOut
    PROVE  UploadInv'
  <1>1. UNCHANGED <<submissions, blobs, queue, documents>>
    BY DEF Launch, SignIn, OpenForm, Back, EditText, UploadImageTapped, PickerDone,
           DismissAlert, Disconnect, Reconnect, ForcedSignOut
  <1>2. Data'
    BY <1>1 DEF UploadInv, Data, DataTyped, BlobsAreTrue, IdsArePaths, ImageBeforeDocument,
                Known, Pending
  <1>3. MaxForms \in Nat /\ MaxFaults \in Nat
    BY UploadConstants DEF UploadConstants
  <1>4. Nothing \in Covers /\ [kind |-> "picker", sub |-> 0] \in Covers
    <2>1. 0 \in 0 .. MaxSubmits
      BY UploadConstants DEF UploadConstants
    <2> QED BY <2>1 DEF Nothing, Covers
  <1>5. Nothing.kind = "none" /\ [kind |-> "picker", sub |-> 0].kind = "picker"
    BY DEF Nothing
  <1>6. CASE Launch
    BY <1>1, <1>2, <1>6 DEF Launch, Running, UploadInv, Scene, SuccessIsTrue, FormAlive, editing, session
  <1>7. CASE SignIn
    BY <1>1, <1>2, <1>7 DEF SignIn, UploadInv, Scene, SuccessIsTrue, FormAlive, editing
  <1>8. CASE OpenForm
    <2>1. form' \in 0 .. MaxForms /\ form' > 0
      BY <1>3, <1>8 DEF OpenForm, UploadInv, Scene
    <2> QED BY <1>1, <1>2, <1>8, <2>1
            DEF OpenForm, UploadInv, Scene, SuccessIsTrue, FormAlive, session
  <1>9. CASE Back
    BY <1>1, <1>2, <1>5, <1>9 DEF Back, Ready, UploadInv, Scene, SuccessIsTrue, FormAlive, editing, session
  <1>10. CASE EditText
    BY <1>1, <1>2, <1>10 DEF EditText, UploadInv, Scene, SuccessIsTrue, FormAlive, session
  <1>11. CASE UploadImageTapped
    BY <1>1, <1>2, <1>4, <1>5, <1>11
       DEF UploadImageTapped, Ready, UploadInv, Scene, SuccessIsTrue, FormAlive, editing, session
  <1>12. CASE PickerDone
    BY <1>1, <1>2, <1>4, <1>5, <1>12 DEF PickerDone, UploadInv, Scene, SuccessIsTrue, FormAlive, session
  <1>13. CASE DismissAlert
    BY <1>1, <1>2, <1>4, <1>5, <1>13
       DEF DismissAlert, UploadInv, Scene, SuccessIsTrue, FormAlive, editing, session
  <1>14. CASE Reconnect
    BY <1>1, <1>2, <1>14 DEF Reconnect, UploadInv, Scene, SuccessIsTrue, FormAlive, editing
  <1>15. CASE Disconnect \/ ForcedSignOut
    <2>1. faults' \in 0 .. MaxFaults
      BY <1>3, <1>15 DEF Disconnect, ForcedSignOut, UploadInv, Scene
    <2> QED BY <1>1, <1>2, <1>15, <2>1
            DEF Disconnect, ForcedSignOut, UploadInv, Scene, SuccessIsTrue, FormAlive, editing
  <1> QED BY <1>6, <1>7, <1>8, <1>9, <1>10, <1>11, <1>12, <1>13, <1>14, <1>15

\* The end of the process, by the user, the system or the fatalError.
LEMMA EndStep ==
    ASSUME UploadInv, NEW how \in {"stopped", "crashed"}, Quit(how),
           UNCHANGED <<editing, blobs, queue, documents, session>>, faults' \in 0 .. MaxFaults
    PROVE  UploadInv'
  <1>1. Kept
    BY QuitStep DEF UploadInv, Data
  <1>2. Data'
    BY <1>1, DataStep DEF UploadInv, Data, DataTyped, Known, Pending
  <1>3. screen' = how /\ presented' = Nothing /\ Nothing.kind = "none" /\ Nothing \in Covers
    BY UploadConstants DEF Quit, Nothing, Covers, UploadConstants
  <1> QED BY <1>2, <1>3 DEF UploadInv, Scene, SuccessIsTrue, editing, session

LEMMA TerminateStep ==
    ASSUME UploadInv, Terminate
    PROVE  UploadInv'
  <1>1. faults' \in 0 .. MaxFaults
    BY UploadConstants DEF Terminate, UploadInv, Scene, UploadConstants
  <1> QED BY <1>1, EndStep DEF Terminate

-----------------------------------------------------------------------------
(* submitTapped and what it starts.                                        *)

\* The copy is taken.
LEMMA SubmitCopies ==
    ASSUME UploadInv, Complete, Len(submissions) < MaxSubmits, screen = "form",
           submissions' = Append(submissions, [form |-> form, text |-> text, image |-> image,
                                               phase |-> "putting"])
    PROVE  Kept
  <1> DEFINE copy == [form |-> form, text |-> text, image |-> image, phase |-> "putting"]
  <1>1. submissions \in Seq(Copies) /\ Len(submissions) \in Nat /\ MaxSubmits \in Nat
    BY UploadConstants DEF UploadInv, Data, DataTyped, UploadConstants
  <1>2. copy \in Copies
    <2>1. form \in 1 .. MaxForms
      BY UploadConstants DEF UploadInv, Scene, UploadConstants
    <2> QED BY <2>1 DEF UploadInv, Scene, Complete, Copies, Phases
  <1> HIDE DEF copy
  <1>3. /\ submissions' \in Seq(Copies) /\ Len(submissions') = Len(submissions) + 1
        /\ \A s \in 1 .. Len(submissions) : submissions'[s] = submissions[s]
    BY <1>1, <1>2, AppendProperties DEF copy
  <1>4. DOMAIN submissions = 1 .. Len(submissions) /\ DOMAIN submissions' = 1 .. Len(submissions) + 1
    BY <1>1, <1>3
  <1> QED BY <1>1, <1>3, <1>4 DEF Kept

LEMMA SubmitStep ==
    ASSUME UploadInv, SubmitTapped
    PROVE  UploadInv'
  <1>1. /\ screen = "form" /\ presented = Nothing
        /\ UNCHANGED <<editing, blobs, queue, documents, session, faults>>
    BY DEF SubmitTapped, Ready
  <1>2. UNCHANGED <<form, text, image, signedIn, online>>
    BY <1>1 DEF editing, session
  <1>3. ASSUME Kept, UNCHANGED screen, presented' \in Covers,
               presented' = presented \/ presented'.kind # "success"
        PROVE  UploadInv'
    <2>1. Data'
      BY <1>1, <1>3, DataStep DEF UploadInv, Data, DataTyped, Known, Pending
    <2>2. SuccessIsTrue'
      BY <1>1, <1>2, <1>3, SuccessStep DEF UploadInv
    <2> QED BY <1>1, <1>2, <1>3, <2>1, <2>2 DEF UploadInv, Scene
  <1>4. CASE ~ Complete /\ ShowAlert("error", 0) /\ UNCHANGED <<screen, submissions>>
    <2>1. presented' = [kind |-> "error", sub |-> 0] /\ presented'.kind = "error"
      BY <1>1, <1>4 DEF ShowAlert
    <2>2. presented' \in Covers
      BY <2>1, UploadConstants DEF Covers, UploadConstants
    <2>3. Kept
      BY <1>4 DEF UploadInv, Data, DataTyped, Kept
    <2> QED BY <1>3, <1>4, <2>1, <2>2, <2>3
  <1>5. CASE Quit("crashed")
    BY <1>1, <1>5, EndStep DEF UploadInv, Scene
  <1>6. CASE UNCHANGED <<screen, presented, submissions>>
    <2>1. Kept /\ presented' \in Covers
      BY <1>6 DEF UploadInv, Data, DataTyped, Kept, Scene
    <2> QED BY <1>3, <1>6, <2>1
  <1>7. CASE /\ Complete /\ Len(submissions) < MaxSubmits /\ UNCHANGED <<screen, presented>>
             /\ submissions' = Append(submissions,
                    [form |-> form, text |-> text, image |-> image, phase |-> "putting"])
    <2>1. Kept /\ presented' \in Covers
      BY <1>1, <1>7, SubmitCopies DEF UploadInv, Scene
    <2> QED BY <1>3, <1>7, <2>1
  <1> QED BY <1>4, <1>5, <1>6, <1>7 DEF SubmitTapped

LEMMA StoreStep ==
    ASSUME UploadInv, NEW s \in Ids, StoreBlob(s)
    PROVE  UploadInv'
  <1> DEFINE blob == [sub |-> s, image |-> submissions[s].image]
  <1>1. /\ s \in DOMAIN submissions /\ blobs' = blobs \cup {blob}
        /\ UNCHANGED <<screen, editing, presented, submissions, queue, documents, session, faults>>
    BY DEF StoreBlob, InPhase
  <1>2. UNCHANGED <<form, text, image, signedIn, online>>
    BY <1>1 DEF editing, session
  <1>3. blob \in Blobs /\ blob.sub = s /\ blob.image = submissions[s].image
    BY <1>1, CopyType DEF UploadInv, Data, Blobs
  <1> HIDE DEF blob
  <1>4. Data'
    <2>1. DataTyped' /\ BlobsAreTrue'
      BY <1>1, <1>3 DEF UploadInv, Data, DataTyped, BlobsAreTrue
    <2>2. IdsArePaths' /\ ImageBeforeDocument'
      BY <1>1 DEF UploadInv, Data, IdsArePaths, ImageBeforeDocument, Known, Pending
    <2> QED BY <2>1, <2>2 DEF Data
  <1> QED BY <1>1, <1>2, <1>4 DEF UploadInv, Scene, SuccessIsTrue, FormAlive

\* Only phases and alerts change, and the queue gets shorter.
LEMMA PhaseOnly ==
    ASSUME UploadInv, Kept, UNCHANGED <<screen, editing, blobs, session, faults>>,
           documents \subseteq documents', Known' \subseteq Known,
           queue' \in Seq(Documents), documents' \subseteq Documents,
           presented' \in Covers, presented' # Nothing => screen = "form",
           \/ presented' = presented
           \/ presented'.kind # "success"
           \/ /\ \E doc \in documents : doc.path = presented'.sub
              /\ FormAlive(presented'.sub)
    PROVE  UploadInv'
  <1>1. Data'
    BY DataStep DEF UploadInv
  <1>2. UNCHANGED <<form, text, image, signedIn, online>>
    BY DEF editing, session
  <1>3. SuccessIsTrue'
    <2>1. CASE presented' = presented \/ presented'.kind # "success"
      BY <1>2, <2>1, SuccessStep DEF UploadInv
    <2>2. CASE /\ \E doc \in documents : doc.path = presented'.sub
               /\ FormAlive(presented'.sub)
      <3>1. presented'.sub \in DOMAIN submissions
        BY <2>2 DEF UploadInv, Data, ImageBeforeDocument
      <3> QED BY <1>2, <2>2, <3>1 DEF SuccessIsTrue, FormAlive, Kept
    <2> QED BY <2>1, <2>2
  <1> QED BY <1>1, <1>2, <1>3 DEF UploadInv, Scene

LEMMA FailedStep ==
    ASSUME UploadInv, NEW s \in Ids, PutFailed(s)
    PROVE  UploadInv'
  <1>1. /\ s \in DOMAIN submissions /\ Phase(s, "over")
        /\ UNCHANGED <<screen, editing, presented, blobs, queue, documents, session, faults>>
    BY DEF PutFailed, InPhase
  <1>2. Kept
    BY <1>1, PhaseStep DEF UploadInv, Data, Phases
  <1> QED BY <1>1, <1>2, PhaseOnly DEF UploadInv, Data, DataTyped, Scene, Known, Pending

\* The picture is there: its document is queued, or forgotten with its form.
LEMMA SucceededStep ==
    ASSUME UploadInv, NEW s \in Ids, PutSucceeded(s)
    PROVE  UploadInv'
  <1> DEFINE doc == [id |-> s, text |-> submissions[s].text, path |-> s]
  <1>1. /\ s \in DOMAIN submissions /\ Stored(s)
        /\ UNCHANGED <<screen, editing, presented, blobs, documents, session, faults>>
        /\ \/ queue' = Append(queue, doc) /\ Phase(s, "adding")
           \/ Phase(s, "over") /\ UNCHANGED queue
    BY DEF PutSucceeded, InPhase
  <1>2. Kept
    BY <1>1, PhaseStep DEF UploadInv, Data, Phases
  <1>3. DataTyped
    BY DEF UploadInv, Data
  <1>4. CASE UNCHANGED queue
    BY <1>1, <1>2, <1>4, PhaseOnly DEF UploadInv, Data, DataTyped, Scene, Known, Pending
  <1>5. CASE queue' = Append(queue, doc)
    <2>1. doc \in Documents /\ doc.id = s /\ doc.path = s /\ doc.text = submissions[s].text
      BY <1>1, <1>3, CopyType DEF Documents
    <2>2. [sub |-> s, image |-> submissions[s].image] \in blobs
      <3>1. PICK blob \in blobs : blob.sub = s
        BY <1>1 DEF Stored
      <3>2. blob = [sub |-> s, image |-> submissions[s].image]
        BY <1>3, <3>1 DEF UploadInv, Data, DataTyped, Blobs, BlobsAreTrue
      <3> QED BY <3>1, <3>2
    <2> HIDE DEF doc
    <2>3. /\ queue' \in Seq(Documents) /\ Len(queue') = Len(queue) + 1 /\ Len(queue) \in Nat
          /\ \A k \in 1 .. Len(queue) : queue'[k] = queue[k]
          /\ queue'[Len(queue) + 1] = doc
      BY <1>3, <1>5, <2>1, AppendProperties DEF DataTyped
    <2>4. Known' \subseteq Known \cup {doc}
      <3>1. ASSUME NEW k \in DOMAIN queue'
            PROVE  queue'[k] \in Pending \cup {doc}
        <4>1. k \in 1 .. Len(queue) + 1 /\ DOMAIN queue = 1 .. Len(queue)
          BY <1>3, <2>3 DEF DataTyped
        <4>2. CASE k \in 1 .. Len(queue)
          BY <2>3, <4>1, <4>2 DEF Pending
        <4>3. CASE k = Len(queue) + 1
          BY <2>3, <4>3
        <4> QED BY <2>3, <4>1, <4>2, <4>3
      <3> QED BY <1>1, <3>1 DEF Known, Pending
    <2>5. ImageBeforeDocument'
      <3> SUFFICES ASSUME NEW d \in Known'
                   PROVE  /\ d.path \in DOMAIN submissions'
                          /\ d.text = submissions'[d.path].text
                          /\ [sub |-> d.path, image |-> submissions'[d.path].image] \in blobs'
        BY DEF ImageBeforeDocument, Known, Pending
      <3>1. /\ d.path \in DOMAIN submissions
            /\ d.text = submissions[d.path].text
            /\ [sub |-> d.path, image |-> submissions[d.path].image] \in blobs
        <4>1. CASE d = doc
          BY <1>1, <2>1, <2>2, <4>1
        <4>2. CASE d \in Known
          BY <4>2 DEF UploadInv, Data, ImageBeforeDocument, Known, Pending
        <4> QED BY <2>4, <4>1, <4>2
      <3> QED BY <1>1, <1>2, <3>1 DEF Kept
    <2>6. IdsArePaths'
      BY <2>1, <2>4 DEF UploadInv, Data, IdsArePaths
    <2>7. DataTyped' /\ BlobsAreTrue'
      BY <1>1, <1>2, <2>3 DEF UploadInv, Data, DataTyped, BlobsAreTrue, Kept
    <2>8. SuccessIsTrue'
      BY <1>1, <1>2, SuccessStep DEF UploadInv, editing
    <2> QED BY <1>1, <2>5, <2>6, <2>7, <2>8 DEF UploadInv, Data, Scene, editing, session
  <1> QED BY <1>1, <1>4, <1>5

-----------------------------------------------------------------------------
(* The backend.                                                            *)

LEMMA CommitStep ==
    ASSUME UploadInv, Commit
    PROVE  UploadInv'
  <1>1. PICK k \in DOMAIN queue : documents' = documents \cup {queue[k]}
    BY DEF Commit
  <1>2. UNCHANGED <<screen, editing, presented, submissions, blobs, queue, session, faults>>
    BY DEF Commit
  <1>3. queue[k] \in Documents /\ queue[k] \in Pending
    BY DEF UploadInv, Data, DataTyped, Pending
  <1>4. Known' \subseteq Known
    BY <1>1, <1>2, <1>3 DEF Known, Pending
  <1>5. Kept
    BY <1>2 DEF UploadInv, Data, DataTyped, Kept
  <1> QED BY <1>1, <1>2, <1>3, <1>4, <1>5, PhaseOnly DEF UploadInv, Data, DataTyped, Scene

\* The completion of addDocument: only phases and alerts.
LEMMA CompletedStep ==
    ASSUME UploadInv, queue # <<>>, queue' = Tail(queue), NEW kind \in {"error", "success"},
           kind = "success" => Head(queue) \in documents,
           Completed(Head(queue).path, kind),
           UNCHANGED <<screen, editing, blobs, documents, session, faults>>
    PROVE  UploadInv'
  <1> DEFINE s == Head(queue).path
  <1>1. /\ queue' \in Seq(Documents) /\ Head(queue) \in Pending /\ Pending' \subseteq Pending
    BY QueueTail DEF UploadInv, Data, Pending
  <1>2. Known' \subseteq Known /\ documents' \subseteq Documents /\ documents \subseteq documents'
    BY <1>1 DEF Known, UploadInv, Data, DataTyped
  <1>3. s \in DOMAIN submissions /\ s \in 0 .. MaxSubmits
    <2>1. s \in DOMAIN submissions
      BY <1>1 DEF UploadInv, Data, ImageBeforeDocument, Pending
    <2>2. s \in Ids
      BY <2>1, CopyType DEF UploadInv, Data
    <2> QED BY <2>1, <2>2, UploadConstants DEF Ids, UploadConstants
  <1> HIDE DEF s
  <1>4. CASE UNCHANGED <<submissions, presented>>
    <2>1. Kept
      BY <1>4 DEF UploadInv, Data, DataTyped, Kept
    <2> QED BY <1>1, <1>2, <1>4, <2>1, PhaseOnly DEF UploadInv, Scene
  <1>5. CASE Phase(s, "over") /\ UNCHANGED presented
    <2>1. Kept
      BY <1>3, <1>5, PhaseStep DEF UploadInv, Data, Phases
    <2> QED BY <1>1, <1>2, <1>5, <2>1, PhaseOnly DEF UploadInv, Scene
  <1>6. CASE Phase(s, "over") /\ FormAlive(s) /\ ShowAlert(kind, s)
    <2>1. Kept
      BY <1>3, <1>6, PhaseStep DEF UploadInv, Data, Phases
    <2>2. CASE presented' = presented
      BY <1>1, <1>2, <2>1, <2>2, PhaseOnly DEF UploadInv, Scene
    <2>3. CASE presented' = [kind |-> kind, sub |-> s]
      <3>1. presented' \in Covers /\ presented'.kind = kind /\ presented'.sub = s
        BY <1>3, <2>3 DEF Covers
      <3>2. screen = "form"
        BY <1>6 DEF FormAlive
      <3>3. kind = "success" => \E doc \in documents : doc.path = s
        BY DEF s
      <3> QED BY <1>1, <1>2, <1>6, <2>1, <3>1, <3>2, <3>3, PhaseOnly
    <2> QED BY <1>6, <2>2, <2>3 DEF ShowAlert
  <1> QED BY <1>4, <1>5, <1>6 DEF Completed, s

-----------------------------------------------------------------------------
(* The invariant and what it says.                                         *)

LEMMA InitUpload ==
    ASSUME Init
    PROVE  UploadInv
  <1>1. /\ DOMAIN submissions = {} /\ DOMAIN queue = {} /\ Len(submissions) = 0
        /\ submissions \in Seq(Copies) /\ queue \in Seq(Documents)
    BY DEF Init
  <1>2. MaxSubmits \in Nat /\ MaxForms \in Nat /\ MaxFaults \in Nat
    BY UploadConstants DEF UploadConstants
  <1>3. Data
    BY <1>1, <1>2 DEF Init, Data, DataTyped, BlobsAreTrue, IdsArePaths, ImageBeforeDocument,
                      Known, Pending
  <1>4. Nothing \in Covers /\ Nothing.kind = "none"
    BY <1>2 DEF Nothing, Covers
  <1>5. Scene /\ SuccessIsTrue
    BY <1>2, <1>4 DEF Init, Scene, SuccessIsTrue
  <1> QED BY <1>3, <1>5 DEF UploadInv

LEMMA NextUpload ==
    ASSUME UploadInv, [Next]_vars
    PROVE  UploadInv'
  <1>1. CASE UNCHANGED vars
    <2>1. /\ UNCHANGED <<screen, editing, presented, submissions, blobs, queue, session, faults>>
          /\ documents' = documents /\ Kept
      BY <1>1 DEF vars, editing, session, UploadInv, Data, DataTyped, Kept
    <2> QED BY <2>1, PhaseOnly DEF UploadInv, Data, DataTyped, Scene, Known, Pending
  <1>2. CASE \/ Launch \/ SignIn \/ OpenForm \/ Back \/ EditText \/ UploadImageTapped
             \/ PickerDone \/ DismissAlert \/ Disconnect \/ Reconnect \/ ForcedSignOut
    BY <1>2, UserStep
  <1>3. CASE SubmitTapped
    BY <1>3, SubmitStep
  <1>4. CASE \E s \in Ids : StoreBlob(s) \/ PutSucceeded(s) \/ PutFailed(s)
    BY <1>4, StoreStep, SucceededStep, FailedStep
  <1>5. CASE Commit
    BY <1>5, CommitStep
  <1>6. CASE Ack
    BY <1>6, CompletedStep DEF Ack
  <1>7. CASE Reject
    BY <1>7, CompletedStep DEF Reject
  <1>8. CASE Terminate
    BY <1>8, TerminateStep
  <1> QED BY <1>1, <1>2, <1>3, <1>4, <1>5, <1>6, <1>7, <1>8 DEF Next

LEMMA UploadInvariance == Spec => []UploadInv
  <1>1. Init => UploadInv
    BY InitUpload
  <1>2. UploadInv /\ [Next]_vars => UploadInv'
    BY NextUpload
  <1> QED BY <1>1, <1>2, PTL DEF Spec

\* Every state of the form, the two services and the queue is well typed,
\* and alerts and the picker only cover a form.
THEOREM UploadTyped == Spec => []TypeOK
  <1>1. UploadInv => TypeOK
    BY DEF UploadInv, Data, DataTyped, Scene, TypeOK
  <1> QED BY <1>1, UploadInvariance, PTL

\* submitTapped puts the picture first: whatever document is queued or
\* visible, its picture is in Storage and is the one it was submitted with.
THEOREM PictureFirst == Spec => []ImageBeforeDocument
  <1>1. UploadInv => ImageBeforeDocument
    BY DEF UploadInv, Data
  <1> QED BY <1>1, UploadInvariance, PTL

\* The completion of addDocument announces a success only when the document
\* is there, over the form that submitted it.
THEOREM SuccessTold == Spec => []SuccessIsTrue
  <1>1. UploadInv => SuccessIsTrue
    BY DEF UploadInv
  <1> QED BY <1>1, UploadInvariance, PTL

-----------------------------------------------------------------------------
(* The shelf.                                                              *)

Offer(s) == [id |-> s, text |-> submissions[s].text, image |-> submissions[s].image]
OfferNext(s) == [id |-> s, text |-> submissions'[s].text, image |-> submissions'[s].image]
Shown(doc) == [id |-> doc.id, text |-> doc.text, image |-> PictureAt(doc.path)]

\* Everybody sees a document as the book that was submitted.
LEMMA ShownAsOffered ==
    ASSUME UploadInv, NEW doc \in Known
    PROVE  /\ doc.path \in DOMAIN submissions
           /\ Shown(doc) = Offer(doc.path)
  <1> DEFINE s == doc.path
  <1>1. /\ s \in DOMAIN submissions /\ doc.id = s /\ doc.text = submissions[s].text
        /\ [sub |-> s, image |-> submissions[s].image] \in blobs
    BY DEF UploadInv, Data, ImageBeforeDocument, IdsArePaths, Known, Pending
  <1>2. \E blob \in blobs : blob.sub = s
    BY <1>1
  <1>3. \A blob \in blobs : blob.sub = s => blob.image = submissions[s].image
    BY DEF UploadInv, Data, BlobsAreTrue
  <1>4. PictureAt(s) = submissions[s].image
    BY <1>2, <1>3 DEF PictureAt, Stored
  <1> QED BY <1>1, <1>4 DEF Shown, Offer

\* Everybody sees the documents as the books that were submitted.
LEMMA VisibleBooks ==
    UploadInv => /\ Offered = {Offer(s) : s \in DOMAIN submissions}
                 /\ Visible = {Offer(doc.path) : doc \in documents}
  <1> SUFFICES ASSUME UploadInv
               PROVE  /\ Offered = {Offer(s) : s \in DOMAIN submissions}
                      /\ Visible = {Offer(doc.path) : doc \in documents}
    OBVIOUS
  <1>1. \A doc \in documents : Shown(doc) = Offer(doc.path)
    BY ShownAsOffered DEF Known
  <1>2. Visible = {Shown(doc) : doc \in documents}
    BY DEF Visible, Shown
  <1> QED BY <1>1, <1>2 DEF Offered, Offer

\* What the shelf and the offers are after a step.
LEMMA ShelfAfter ==
    ASSUME UploadInv, UploadInv', Kept, documents \subseteq documents'
    PROVE  /\ Offered' = {OfferNext(s) : s \in DOMAIN submissions'}
           /\ Visible' = {Offer(doc.path) : doc \in documents} \cup
                         {OfferNext(doc.path) : doc \in documents' \ documents}
           /\ \A s \in DOMAIN submissions : OfferNext(s) = Offer(s)
           /\ Offered = {Offer(s) : s \in DOMAIN submissions}
           /\ Visible = {Offer(doc.path) : doc \in documents}
  <1>1. \A s \in DOMAIN submissions : OfferNext(s) = Offer(s)
    BY DEF Offer, OfferNext, Kept
  <1>2. \A doc \in documents : doc.path \in DOMAIN submissions
    BY ShownAsOffered DEF Known
  <1>3. /\ Offered = {Offer(s) : s \in DOMAIN submissions}
        /\ Visible = {Offer(doc.path) : doc \in documents}
    BY VisibleBooks
  <1>4. (UploadInv => /\ Offered = {Offer(s) : s \in DOMAIN submissions}
                      /\ Visible = {Offer(doc.path) : doc \in documents})'
    BY VisibleBooks, PTL
  <1>5. /\ Offered' = {OfferNext(s) : s \in DOMAIN submissions'}
        /\ Visible' = {OfferNext(doc.path) : doc \in documents'}
    BY <1>4 DEF Offer, OfferNext
  <1>6. \A doc \in documents : OfferNext(doc.path) = Offer(doc.path)
    BY <1>1, <1>2
  <1> QED BY <1>1, <1>3, <1>5, <1>6

LEMMA ShelfSame ==
    ASSUME UploadInv, UploadInv', Kept, DOMAIN submissions' = DOMAIN submissions,
           UNCHANGED documents
    PROVE  UNCHANGED SharedShelf!svars
  <1>1. Offered' = Offered /\ Visible' = Visible
    BY ShelfAfter
  <1> QED BY <1>1 DEF SharedShelf!svars

\* A copy that is taken is an offer.
LEMMA OfferStep ==
    ASSUME UploadInv, UploadInv', Kept, UNCHANGED documents,
           Len(submissions') = Len(submissions) + 1
    PROVE  SharedShelf!Offer
  <1> DEFINE n    == Len(submissions) + 1
             book == OfferNext(n)
  <1>1. /\ Len(submissions) \in Nat /\ DOMAIN submissions = 1 .. Len(submissions)
        /\ DOMAIN submissions' = 1 .. n /\ n \in DOMAIN submissions' /\ n \notin DOMAIN submissions
    BY DEF UploadInv, Data, DataTyped, Kept
  <1>2. /\ n \in Ids /\ submissions'[n].text \in Texts /\ submissions'[n].image \in Images
    <2>1. submissions'[n] \in Copies /\ Len(submissions') <= MaxSubmits /\ MaxSubmits \in Nat
      BY <1>1, UploadConstants DEF Kept, UploadConstants
    <2> QED BY <1>1, <2>1 DEF Ids, Copies
  <1>3. book = [id |-> n, text |-> submissions'[n].text, image |-> submissions'[n].image]
    BY DEF OfferNext
  <1>4. book \in SharedShelf!Books
    BY <1>2, <1>3 DEF SharedShelf!Books
  <1>5. \A s \in DOMAIN submissions : Offer(s).id = s
    BY DEF Offer
  <1> HIDE DEF n, book
  <1>6. DOMAIN submissions' = DOMAIN submissions \cup {n}
    BY <1>1 DEF n
  <1>7. Offered' = Offered \cup {book} /\ Visible' = Visible
    <2>1. Offered' = {OfferNext(s) : s \in DOMAIN submissions \cup {n}}
      BY <1>6, ShelfAfter
    <2>2. \A s \in DOMAIN submissions : OfferNext(s) = Offer(s)
      BY ShelfAfter
    <2>3. Offered = {Offer(s) : s \in DOMAIN submissions}
      BY ShelfAfter
    <2>4. Offered' = Offered \cup {book}
      BY <2>1, <2>2, <2>3 DEF book
    <2>5. Visible' = Visible
      BY ShelfAfter
    <2> QED BY <2>4, <2>5
  <1>8. \A other \in Offered : other.id # book.id
    <2>1. book.id = n
      BY <1>3
    <2> QED BY <1>1, <1>5, <2>1, ShelfAfter
  <1> QED BY <1>4, <1>7, <1>8 DEF SharedShelf!Offer

\* A document that is committed puts one offered book on the shelf.
LEMMA PlaceStep ==
    ASSUME UploadInv, UploadInv', Commit
    PROVE  SharedShelf!Place
  <1>1. PICK k \in DOMAIN queue : queue[k] \notin documents /\ documents' = documents \cup {queue[k]}
    BY DEF Commit
  <1> DEFINE doc  == queue[k]
             book == Offer(doc.path)
  <1>2. /\ UNCHANGED submissions /\ doc \in Known /\ doc \in Documents
        /\ \A d \in documents : d \in Documents /\ d \in Known
    BY <1>1 DEF Commit, Known, Pending, UploadInv, Data, DataTyped
  <1>3. \A d \in Known : d.path \in DOMAIN submissions /\ d.id = d.path
                         /\ d.text = submissions[d.path].text
    BY DEF UploadInv, Data, IdsArePaths, ImageBeforeDocument, Known, Pending
  <1>4. ASSUME NEW d \in documents
        PROVE  Offer(d.path) # book
    <2>1. d.path # doc.path
      <3>1. d = [id |-> d.id, text |-> d.text, path |-> d.path]
            /\ doc = [id |-> doc.id, text |-> doc.text, path |-> doc.path]
        BY <1>2 DEF Documents
      <3> QED BY <1>1, <1>2, <1>3, <3>1
    <2>2. Offer(d.path).id = d.path /\ book.id = doc.path
      BY DEF Offer
    <2> QED BY <2>1, <2>2
  <1> HIDE DEF book, doc
  <1>5. Kept /\ documents \subseteq documents'
    BY <1>1, <1>2 DEF UploadInv, Data, DataTyped, Kept
  <1>6. /\ Offered' = Offered /\ Visible' = Visible \cup {book} /\ book \in Offered \ Visible
    <2>1. documents' \ documents = {doc}
      BY <1>1 DEF doc
    <2>2. OfferNext(doc.path) = book
      BY <1>2, <1>3, <1>5, ShelfAfter DEF book
    <2>3. Visible' = Visible \cup {book} /\ Offered' = Offered
      BY <1>2, <1>5, <2>1, <2>2, ShelfAfter
    <2>4. book \in Offered /\ book \notin Visible
      BY <1>2, <1>3, <1>4, <1>5, ShelfAfter DEF book
    <2> QED BY <2>3, <2>4
  <1> QED BY <1>6 DEF SharedShelf!Place

\* Steps that neither take a copy nor add a document.
LEMMA OtherSteps ==
    ASSUME UploadInv,
           \/ UNCHANGED vars
           \/ Launch \/ SignIn \/ OpenForm \/ Back \/ EditText \/ UploadImageTapped
           \/ PickerDone \/ DismissAlert \/ Disconnect \/ Reconnect \/ ForcedSignOut
           \/ Terminate \/ Ack \/ Reject
           \/ \E s \in Ids : StoreBlob(s) \/ PutSucceeded(s) \/ PutFailed(s)
    PROVE  Kept /\ DOMAIN submissions' = DOMAIN submissions /\ UNCHANGED documents
  <1>1. DataTyped
    BY DEF UploadInv, Data
  <1>2. ASSUME UNCHANGED submissions
        PROVE  Kept /\ DOMAIN submissions' = DOMAIN submissions
    BY <1>1, <1>2 DEF DataTyped, Kept
  <1>3. ASSUME NEW s \in DOMAIN submissions, NEW p \in Phases, Phase(s, p)
        PROVE  Kept /\ DOMAIN submissions' = DOMAIN submissions
    BY <1>1, <1>3, PhaseStep DEF Phase
  <1>4. CASE \/ UNCHANGED vars \/ Launch \/ SignIn \/ OpenForm \/ Back \/ EditText
             \/ UploadImageTapped \/ PickerDone \/ DismissAlert \/ Disconnect \/ Reconnect
             \/ ForcedSignOut \/ \E s \in Ids : StoreBlob(s)
    <2>1. UNCHANGED <<submissions, documents>>
      BY <1>4 DEF vars, Launch, SignIn, OpenForm, Back, EditText, UploadImageTapped, PickerDone,
                  DismissAlert, Disconnect, Reconnect, ForcedSignOut, StoreBlob
    <2> QED BY <1>2, <2>1
  <1>5. CASE Terminate
    BY <1>1, <1>5, QuitStep DEF Terminate, Quit
  <1>6. CASE \E s \in Ids : PutSucceeded(s) \/ PutFailed(s)
    BY <1>3, <1>6 DEF PutSucceeded, PutFailed, InPhase, Phases
  <1>7. CASE Ack \/ Reject
    <2>1. PICK kind \in {"success", "error"} :
              queue # <<>> /\ Completed(Head(queue).path, kind) /\ UNCHANGED documents
      BY <1>7 DEF Ack, Reject
    <2>2. CASE UNCHANGED submissions
      BY <1>2, <2>1, <2>2
    <2>3. CASE UnderWay(Head(queue).path) /\ Phase(Head(queue).path, "over")
      BY <1>3, <2>1, <2>3 DEF UnderWay, InPhase, Phases
    <2> QED BY <2>1, <2>2, <2>3 DEF Completed
  <1> QED BY <1>4, <1>5, <1>6, <1>7

LEMMA StepOnShelf ==
    ASSUME UploadInv, UploadInv', [Next]_vars
    PROVE  [SharedShelf!Offer \/ SharedShelf!Place]_(SharedShelf!svars)
  <1>1. CASE SubmitTapped
    <2>1. UNCHANGED documents
      BY <1>1 DEF SubmitTapped
    <2>2. CASE UNCHANGED submissions
      <3>1. Kept
        BY <2>2 DEF UploadInv, Data, DataTyped, Kept
      <3> QED BY <2>1, <2>2, <3>1, ShelfSame
    <2>3. CASE Quit("crashed")
      <3>1. Kept /\ DOMAIN submissions' = DOMAIN submissions
        BY <2>3, QuitStep DEF UploadInv, Data, Quit
      <3> QED BY <2>1, <3>1, ShelfSame
    <2>4. CASE /\ Complete /\ Len(submissions) < MaxSubmits
               /\ submissions' = Append(submissions,
                      [form |-> form, text |-> text, image |-> image, phase |-> "putting"])
      <3>1. screen = "form" /\ Kept
        BY <1>1, <2>4, SubmitCopies DEF SubmitTapped, Ready
      <3>2. Len(submissions') = Len(submissions) + 1
        BY <2>4 DEF UploadInv, Data, DataTyped
      <3> QED BY <2>1, <3>1, <3>2, OfferStep
    <2> QED BY <1>1, <2>2, <2>3, <2>4 DEF SubmitTapped
  <1>2. CASE Commit
    BY <1>2, PlaceStep
  <1>3. CASE ~ SubmitTapped /\ ~ Commit
    BY <1>3, OtherSteps, ShelfSame DEF Next
  <1> QED BY <1>1, <1>2, <1>3

\* Whatever is edited, left, lost or killed between the two services, an
\* upload is the atomic placement, at most once, of what was submitted.
THEOREM UploadImplementsShelf == Spec => ImplementsShelf
  <1>1. Init => SharedShelf!SInit
    BY DEF Init, SharedShelf!SInit, Offered, Visible
  <1>2. UploadInv /\ UploadInv' /\ [Next]_vars
            => [SharedShelf!Offer \/ SharedShelf!Place]_(SharedShelf!svars)
    BY StepOnShelf
  <1> QED BY <1>1, <1>2, UploadInvariance, PTL DEF Spec, ImplementsShelf, SharedShelf!SSpec


-----------------------------------------------------------------------------
(***************************************************************************)
(* What SubmissionsEnd rests on.  A submission only ends when somebody     *)
(* tells it: Storage while the picture is put, Firestore's queue after     *)
(* that.                                                                   *)
(***************************************************************************)

\* A submission that is under way runs in this process, and either Storage
\* still owes it an answer or its document is in the queue: it never waits for
\* an acknowledgement that was used up, or for a write that was not queued.
SomebodyAnswers ==
    \A s \in DOMAIN submissions :
        submissions[s].phase # "over" =>
            Running /\ (submissions[s].phase = "putting" \/ Queued(s))

\* What moving on one submission does to the phases.
LEMMA PhaseMoves ==
    ASSUME DataTyped, NEW s \in DOMAIN submissions, NEW p \in Phases, Phase(s, p)
    PROVE  /\ DOMAIN submissions' = DOMAIN submissions
           /\ \A t \in DOMAIN submissions :
                 submissions'[t].phase = IF t = s THEN p ELSE submissions[t].phase
  <1>1. submissions[s] \in Copies
    BY CopyType
  <1>2. submissions' = [submissions EXCEPT ![s] = [submissions[s] EXCEPT !.phase = p]]
    BY DEF Phase
  <1>3. [submissions[s] EXCEPT !.phase = p].phase = p
    BY <1>1 DEF Copies
  <1>4. DOMAIN submissions' = DOMAIN submissions
    BY <1>2
  <1> QED BY <1>2, <1>3, <1>4

\* The process ends: nobody waits.
LEMMA QuitEnds ==
    ASSUME DataTyped, NEW how, Quit(how)
    PROVE  SomebodyAnswers'
  <1>1. ASSUME NEW s \in DOMAIN submissions'
        PROVE  submissions'[s].phase = "over"
    <2>1. s \in DOMAIN submissions /\ submissions'[s] = [submissions[s] EXCEPT !.phase = "over"]
      BY <1>1 DEF Quit
    <2>2. submissions[s] \in Copies
      BY <2>1, CopyType
    <2> QED BY <2>1, <2>2 DEF Copies
  <1> QED BY <1>1 DEF SomebodyAnswers

\* Steps that keep submissions and queue, and do not end the process.
LEMMA AnswersStill ==
    ASSUME SomebodyAnswers, UNCHANGED <<submissions, queue>>, Running => Running'
    PROVE  SomebodyAnswers'
  <1>1. \A s : Queued(s) => Queued(s)'
    BY DEF Queued
  <1> QED BY <1>1 DEF SomebodyAnswers

LEMMA SubmitAnswers ==
    ASSUME UploadInv, SomebodyAnswers, SubmitTapped
    PROVE  SomebodyAnswers'
  <1>1. screen = "form" /\ UNCHANGED queue
    BY DEF SubmitTapped, Ready
  <1>2. CASE UNCHANGED <<screen, submissions>>
    BY <1>1, <1>2, AnswersStill DEF Running
  <1>3. CASE Quit("crashed")
    BY <1>3, QuitEnds DEF UploadInv, Data
  <1>4. CASE /\ UNCHANGED screen
             /\ submissions' = Append(submissions,
                    [form |-> form, text |-> text, image |-> image, phase |-> "putting"])
    <2> DEFINE copy == [form |-> form, text |-> text, image |-> image, phase |-> "putting"]
               n    == Len(submissions)
    <2>1. submissions \in Seq(Copies) /\ n \in Nat /\ DOMAIN submissions = 1 .. n
      BY DEF UploadInv, Data, DataTyped
    <2>2. copy.phase = "putting"
      OBVIOUS
    <2> HIDE DEF copy
    <2>3. /\ DOMAIN submissions' = 1 .. n + 1 /\ submissions'[n + 1] = copy
          /\ \A s \in 1 .. n : submissions'[s] = submissions[s]
      BY <1>4, <2>1 DEF copy
    <2>4. Running' /\ \A s : Queued(s) => Queued(s)'
      BY <1>1, <1>4 DEF Running, Queued
    <2> HIDE DEF n
    <2>5. ASSUME NEW s \in DOMAIN submissions', submissions'[s].phase # "over"
          PROVE  submissions'[s].phase = "putting" \/ Queued(s)'
      <3>1. CASE s = n + 1
        BY <2>2, <2>3, <3>1
      <3>2. CASE s \in 1 .. n
        BY <2>1, <2>3, <2>4, <2>5, <3>2 DEF SomebodyAnswers
      <3> QED BY <2>1, <2>3, <3>1, <3>2
    <2> QED BY <2>4, <2>5 DEF SomebodyAnswers
  <1> QED BY <1>2, <1>3, <1>4 DEF SubmitTapped

LEMMA PutAnswers ==
    ASSUME UploadInv, SomebodyAnswers, NEW s \in Ids, PutSucceeded(s) \/ PutFailed(s)
    PROVE  SomebodyAnswers'
  <1>1. Running' /\ s \in DOMAIN submissions
    BY DEF PutSucceeded, PutFailed, InPhase, Running
  <1>2. DataTyped
    BY DEF UploadInv, Data
  <1>3. CASE Phase(s, "over") /\ UNCHANGED queue
    <2>1. /\ DOMAIN submissions' = DOMAIN submissions
          /\ \A t \in DOMAIN submissions :
                submissions'[t].phase = IF t = s THEN "over" ELSE submissions[t].phase
      BY <1>1, <1>2, <1>3, PhaseMoves DEF Phases
    <2>2. \A t : Queued(t) => Queued(t)'
      BY <1>3 DEF Queued
    <2> QED BY <1>1, <2>1, <2>2 DEF SomebodyAnswers
  <1>4. CASE PutSucceeded(s) /\ Phase(s, "adding") /\ queue' # queue
    <2> DEFINE doc == [id |-> s, text |-> submissions[s].text, path |-> s]
               n   == Len(queue)
    <2>1. queue' = Append(queue, doc) /\ doc.path = s
      BY <1>4 DEF PutSucceeded
    <2>2. queue \in Seq(Documents) /\ n \in Nat /\ DOMAIN queue = 1 .. n
      BY <1>2 DEF DataTyped
    <2> HIDE DEF doc
    <2>3. /\ DOMAIN queue' = 1 .. n + 1 /\ queue'[n + 1] = doc
          /\ \A k \in 1 .. n : queue'[k] = queue[k]
      BY <2>1, <2>2
    <2>4. n + 1 \in DOMAIN queue' /\ \A k \in DOMAIN queue : k \in DOMAIN queue'
      BY <2>2, <2>3
    <2> HIDE DEF n
    <2>5. Queued(s)' /\ \A t : Queued(t) => Queued(t)'
      BY <2>1, <2>2, <2>3, <2>4 DEF Queued
    <2>6. /\ DOMAIN submissions' = DOMAIN submissions
          /\ \A t \in DOMAIN submissions :
                submissions'[t].phase = IF t = s THEN "adding" ELSE submissions[t].phase
      BY <1>1, <1>2, <1>4, PhaseMoves DEF Phases
    <2> QED BY <1>1, <2>5, <2>6 DEF SomebodyAnswers
  <1>5. ASSUME PutSucceeded(s), FormAlive(s)
        PROVE  Phase(s, "adding") /\ queue' # queue
    <2> DEFINE doc == [id |-> s, text |-> submissions[s].text, path |-> s]
    <2>1. Phase(s, "adding") /\ queue' = Append(queue, doc) /\ queue \in Seq(Documents)
      BY <1>2, <1>5 DEF PutSucceeded, DataTyped
    <2>2. Len(Append(queue, doc)) = Len(queue) + 1 /\ Len(queue) \in Nat
      BY <2>1
    <2> QED BY <2>1, <2>2
  <1>6. ASSUME PutSucceeded(s), ~ FormAlive(s)
        PROVE  Phase(s, "over") /\ UNCHANGED queue
    BY <1>6 DEF PutSucceeded
  <1> QED BY <1>3, <1>4, <1>5, <1>6 DEF PutFailed

\* The first write leaves the queue, and with it the submission it is of.
LEMMA HeadAnswers ==
    ASSUME UploadInv, SomebodyAnswers, queue # <<>>, queue' = Tail(queue),
           NEW kind, Completed(Head(queue).path, kind), UNCHANGED screen
    PROVE  SomebodyAnswers'
  <1> DEFINE s == Head(queue).path
             n == Len(queue)
  <1>1. /\ queue \in Seq(Documents) /\ n \in Nat /\ n > 0 /\ DOMAIN queue = 1 .. n
        /\ DOMAIN Tail(queue) = 1 .. n - 1 /\ Head(queue) = queue[1]
        /\ \A k \in 1 .. n - 1 : Tail(queue)[k] = queue[k + 1]
    BY DEF UploadInv, Data, DataTyped
  <1>2. s = queue[1].path
    BY <1>1
  <1> HIDE DEF s, n
  <1>3. ASSUME NEW t, t # s, Queued(t)
        PROVE  Queued(t)'
    <2>1. PICK k \in 1 .. n : queue[k].path = t
      BY <1>1, <1>3 DEF Queued
    <2>2. k # 1 /\ k - 1 \in 1 .. n - 1 /\ (k - 1) + 1 = k
      BY <1>1, <1>2, <1>3, <2>1
    <2>3. Tail(queue)[k - 1].path = t
      BY <1>1, <2>1, <2>2
    <2> QED BY <1>1, <2>2, <2>3 DEF Queued
  <1>4. Running => Running'
    BY DEF Running
  <1>5. DataTyped
    BY DEF UploadInv, Data
  <1>6. CASE UnderWay(s)
    <2>1. s \in DOMAIN submissions /\ Phase(s, "over")
      BY <1>6 DEF UnderWay, InPhase, Completed, s
    <2>2. /\ DOMAIN submissions' = DOMAIN submissions
          /\ \A t \in DOMAIN submissions :
                submissions'[t].phase = IF t = s THEN "over" ELSE submissions[t].phase
      BY <1>5, <2>1, PhaseMoves DEF Phases
    <2> QED BY <1>3, <1>4, <2>2 DEF SomebodyAnswers
  <1>7. CASE ~ UnderWay(s)
    <2>1. UNCHANGED submissions
      BY <1>7 DEF Completed, s
    <2>2. s \in DOMAIN submissions => submissions[s].phase = "over"
      <3>1. s \in DOMAIN submissions => submissions[s] \in Copies
        BY <1>5, CopyType
      <3> QED BY <1>7, <3>1 DEF UnderWay, InPhase, Copies, Phases
    <2> QED BY <1>3, <1>4, <2>1, <2>2 DEF SomebodyAnswers
  <1> QED BY <1>6, <1>7

\* submitTapped and its callbacks: however often the form is left, edited and
\* submitted again and whatever is refused, a submission that has not ended
\* can still be ended by Storage or by the queue.
THEOREM NoSubmissionStuck == Spec => []SomebodyAnswers
  <1>1. Init => SomebodyAnswers
    BY DEF Init, SomebodyAnswers
  <1>2. UploadInv /\ SomebodyAnswers /\ [Next]_vars => SomebodyAnswers'
    <2> SUFFICES ASSUME UploadInv, SomebodyAnswers, [Next]_vars PROVE SomebodyAnswers'
      OBVIOUS
    <2>1. CASE UNCHANGED vars
      BY <2>1, AnswersStill DEF vars, Running
    <2>2. CASE \/ Launch \/ SignIn \/ OpenForm \/ Back \/ EditText \/ UploadImageTapped
               \/ PickerDone \/ DismissAlert \/ Disconnect \/ Reconnect \/ ForcedSignOut
      <3>1. UNCHANGED <<submissions, queue>>
        BY <2>2 DEF Launch, SignIn, OpenForm, Back, EditText, UploadImageTapped, PickerDone,
                    DismissAlert, Disconnect, Reconnect, ForcedSignOut
      <3>2. Running => Running'
        BY <2>2 DEF Running, Launch, SignIn, OpenForm, Back, EditText, UploadImageTapped,
                    PickerDone, DismissAlert, Disconnect, Reconnect, ForcedSignOut
      <3> QED BY <3>1, <3>2, AnswersStill
    <2>3. CASE Commit \/ \E s \in Ids : StoreBlob(s)
      BY <2>3, AnswersStill DEF Commit, StoreBlob, Running
    <2>4. CASE SubmitTapped
      BY <2>4, SubmitAnswers
    <2>5. CASE \E s \in Ids : PutSucceeded(s) \/ PutFailed(s)
      BY <2>5, PutAnswers
    <2>6. CASE Ack
      BY <2>6, HeadAnswers DEF Ack
    <2>7. CASE Reject
      BY <2>7, HeadAnswers DEF Reject
    <2>8. CASE Terminate
      BY <2>8, QuitEnds DEF Terminate, UploadInv, Data
    <2> QED BY <2>1, <2>2, <2>3, <2>4, <2>5, <2>6, <2>7, <2>8 DEF Next
  <1> QED BY <1>1, <1>2, UploadInvariance, PTL DEF Spec
=============================================================================
