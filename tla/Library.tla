------------------------------ MODULE Library ------------------------------
(***************************************************************************)
(* The list of books: TextBooksViewController on one device, with the      *)
(* filter it presents and the upload form it pushes.                       *)
(*                                                                         *)
(* The list keeps what it fetched (originalBooks), what it shows (books)   *)
(* and the filter (filterGrade).  It fetches when it loads and after each  *)
(* upload whose success alert is answered; answers may come while another  *)
(* scene is on top, from the server, from the cache, with an error, or in  *)
(* one snapshot for several fetches, and they hold the device's own        *)
(* documents that are still queued.  A book is its document's ID; the      *)
(* upload form is module BookUpload, here only what the list sees of it.   *)
(***************************************************************************)
EXTENDS FilterTable, FiniteSets

CONSTANTS
    Ids,            \* documents that can come to exist, in the order of their IDs
    Mine,           \* those that this device uploads
    GradeOf         \* Book.grade of each

ASSUME LibraryConstants ==
    /\ Ids \subseteq Nat /\ IsFiniteSet(Ids)
    /\ Mine \subseteq Ids
    /\ GradeOf \in [Ids -> Grades]

VARIABLES
    documents,      \* the collection on the server
    cache,          \* documents in the device's cache
    queued,         \* the device's own documents that are not acknowledged
    fetches,        \* getDocuments not answered: the documents there were then
    callbacks,      \* answers on their way to the main thread
    scene,          \* what is on top: the list, the filter or the upload form
    added,          \* documents that this upload form has added
    alerts,         \* those of them whose success it was told
    originalBooks, books, filterGrade,
    online,         \* the client's OnlineState is not Offline
    announced,      \* auxiliary: uploads whose success was announced by an alert
    failed,         \* auxiliary: a fetch since the last announcement failed
    confirmed,      \* auxiliary: the books that the answer shown last had from the backend
    collected       \* auxiliary: documents that the cache has had and lost

cloud == <<documents, cache, queued>>
calls == <<fetches, callbacks>>
list  == <<originalBooks, books, filterGrade>>
form  == <<added, alerts>>
notes == <<announced, failed, confirmed, collected>>
vars  == <<table, cloud, calls, scene, form, list, online, notes>>

Listed(books_) == {books_[i] : i \in DOMAIN books_}

\* The elements of a set of numbers in order, each at the place that counts
\* those up to it.
Place(x, S)  == Cardinality({y \in S : y <= x})
Ascending(S) == [i \in 1 .. Cardinality(S) |-> CHOOSE x \in S : Place(x, S) = i]

\* getGradesFromBooks
GetGradesFromBooks == Ascending({GradeOf[id] : id \in Listed(originalBooks)})

\* filter with its closure: the books of the grade, in the order they are in.
OfGrade(grade, books_) ==
    LET kept == Ascending({i \in DOMAIN books_ : GradeOf[books_[i]] = grade})
    IN  [n \in DOMAIN kept |-> books_[kept[n]]]

\* Variant of ShowBooksFor that filters what is shown.
ShowBooksFor_Narrows(grade) ==
    books' = IF grade = NoGrade THEN originalBooks
             ELSE OfGrade(grade, books)

\* showBooksFor(grade:)
ShowBooksFor(grade) ==
    books' = IF grade = NoGrade THEN originalBooks
             ELSE OfGrade(grade, originalBooks)

\* The first half of getTextBooksAndReload.
GetTextBooks == fetches' = Append(fetches, documents)

-----------------------------------------------------------------------------
\* viewDidLoad fetches.
Init ==
    /\ TableInit
    /\ documents \in SUBSET (Ids \ Mine)
    /\ cache = {}
    /\ queued = {}
    /\ fetches = <<documents>>
    /\ callbacks = <<>>
    /\ scene = "list"
    /\ added = {} /\ alerts = {}
    /\ originalBooks = <<>>
    /\ books = <<>>
    /\ filterGrade = NoGrade
    /\ online = TRUE
    /\ announced = {}
    /\ failed = FALSE
    /\ confirmed = {}
    /\ collected = {}

\* The app is killed and launched again: a new list over the same cache.
Relaunch ==
    /\ grades' = <<>> /\ initialGrade' = NoGrade
    /\ previous' = 0 /\ selected' = 0
    /\ displayed' = {} /\ ticked' = {} /\ appeared' = FALSE
    /\ fetches' = <<documents>>
    /\ callbacks' = <<>>
    /\ scene' = "list"
    /\ added' = {} /\ alerts' = {}
    /\ originalBooks' = <<>>
    /\ books' = <<>>
    /\ filterGrade' = NoGrade
    /\ failed' = FALSE
    /\ confirmed' = {}
    /\ UNCHANGED <<cloud, online, announced, collected>>

-----------------------------------------------------------------------------
(***************************************************************************)
(* The filter.                                                             *)
(***************************************************************************)
\* prepare(for:) of "showFilter"
OpenFilter ==
    /\ scene = "list"
    /\ scene' = "filter"
    /\ Present(GetGradesFromBooks, filterGrade)
    /\ UNCHANGED <<cloud, calls, form, list, online, notes>>

UseFilter ==
    /\ scene = "filter"
    /\ Appear \/ Scroll \/ \E row \in displayed : TapRow(row)
    /\ UNCHANGED <<cloud, calls, scene, form, list, online, notes>>

\* doneButtonTapped and the list's gradeSelected
DoneButtonTapped ==
    /\ scene = "filter"
    /\ appeared
    /\ filterGrade' = ChosenGrade
    /\ ShowBooksFor(ChosenGrade)
    /\ scene' = "list"
    /\ UNCHANGED <<table, cloud, calls, form, originalBooks, online, notes>>

\* The sheet is swiped away.
Dismiss ==
    /\ scene = "filter"
    /\ scene' = "list"
    /\ UNCHANGED <<table, cloud, calls, form, list, online, notes>>

-----------------------------------------------------------------------------
(***************************************************************************)
(* Fetching.                                                               *)
(***************************************************************************)
\* One answer for all who wait: what it found, what of that came from the
\* backend (known), and (auxiliary) what it may lack since the cache has lost it.
Raise(answer) ==
    /\ fetches # <<>>
    /\ fetches' = <<>>
    /\ callbacks' = callbacks \o [i \in DOMAIN fetches |-> answer]

Answer(known, lost) == [ok |-> TRUE, found |-> known \cup queued, known |-> known, lost |-> lost]
Error == [ok |-> FALSE, found |-> {}, known |-> {}, lost |-> {}]

\* A fetch joins a query whose callback has not run.
Attached == \E i \in DOMAIN callbacks : callbacks[i].ok

AnswerFromServer ==
    /\ online
    /\ fetches # <<>>
    /\ \E S \in SUBSET documents :
         /\ cache \subseteq S
         /\ ~Attached => fetches[1] \subseteq S
         /\ Raise(Answer(S, IF Attached THEN collected \ S ELSE {}))
         /\ cache' = S
         /\ collected' = collected \ S
    /\ UNCHANGED <<table, documents, queued, scene, form, list, online,
                   announced, failed, confirmed>>

AnswerFromCache ==
    /\ ~online
    /\ Raise(Answer(cache, collected))
    /\ UNCHANGED <<table, cloud, scene, form, list, online, notes>>

AnswerError ==
    /\ online
    /\ ~Attached
    /\ Raise(Error)
    /\ UNCHANGED <<table, cloud, scene, form, list, online, notes>>

\* Variant of Callback that keeps the books it had.
Callback_NoRemoveAll ==
    /\ callbacks # <<>>
    /\ callbacks' = Tail(callbacks)
    /\ LET fetched == Ascending(Head(callbacks).found)
       IN  /\ originalBooks' = fetched
           /\ books' = books \o fetched
    /\ UNCHANGED <<table, cloud, fetches, scene, form, filterGrade, online, notes>>

\* Variant of Callback that empties the lists before it looks at the error.
Callback_ErrorEmpties ==
    /\ callbacks # <<>>
    /\ callbacks' = Tail(callbacks)
    /\ originalBooks' = Ascending(Head(callbacks).found)
    /\ books' = originalBooks'
    /\ confirmed' = IF Head(callbacks).ok THEN Head(callbacks).known ELSE confirmed
    /\ failed' = (failed \/ ~Head(callbacks).ok)
    /\ UNCHANGED <<table, cloud, fetches, scene, form, filterGrade, online, announced, collected>>

\* The second half of getTextBooksAndReload: the list is made anew, without
\* the filter; an error leaves it as it is.
Callback ==
    /\ callbacks # <<>>
    /\ callbacks' = Tail(callbacks)
    /\ IF Head(callbacks).ok
       THEN /\ originalBooks' = Ascending(Head(callbacks).found)
            /\ books' = originalBooks'
            /\ confirmed' = Head(callbacks).known
            /\ UNCHANGED failed
       ELSE failed' = TRUE /\ UNCHANGED <<originalBooks, books, confirmed>>
    /\ UNCHANGED <<table, cloud, fetches, scene, form, filterGrade, online, announced, collected>>

\* LruGarbageCollector: the cache loses any of the documents that no queued
\* write needs.  Those of a query that listens are pinned by it or stay in its
\* view, so that losing them shows only once it has been answered.
RemoveOrphanedDocuments ==
    /\ fetches = <<>> /\ ~Attached
    /\ \E orphans \in SUBSET (cache \ queued) :
         /\ cache' = cache \ orphans
         /\ collected' = collected \cup orphans
    /\ UNCHANGED <<table, documents, queued, calls, scene, form, list, online,
                   announced, failed, confirmed>>

-----------------------------------------------------------------------------
(***************************************************************************)
(* The upload form, as the list sees it, and the other devices.            *)
(***************************************************************************)
OpenForm ==
    /\ scene = "list"
    /\ scene' = "form"
    /\ UNCHANGED <<table, cloud, calls, form, list, online, notes>>

\* The form is released, its callbacks find nobody.
ReleaseForm ==
    /\ scene = "form"
    /\ scene' = "list"
    /\ added' = {}
    /\ alerts' = {}

LeaveForm ==
    /\ ReleaseForm
    /\ UNCHANGED <<table, cloud, calls, list, online, notes>>

\* addDocument overlays the cache at once.
AddDocument ==
    /\ scene = "form"
    /\ \E id \in Mine \ (documents \cup queued) :
         /\ queued' = queued \cup {id}
         /\ added' = added \cup {id}
    /\ UNCHANGED <<table, documents, cache, calls, scene, alerts, list, online,
                   notes>>

\* The server applies a queued document, which stays queued for the moment,
\* or a document of another device.
Commit ==
    /\ \E id \in (Ids \ Mine) \cup (IF online THEN queued ELSE {}) :
         documents' = documents \cup {id}
    /\ UNCHANGED <<table, cache, queued, calls, scene, form, list, online, notes>>

\* The acknowledgement puts the document into the cache and tells the form.
Ack ==
    /\ online
    /\ \E id \in queued \cap documents :
         /\ queued' = queued \ {id}
         /\ cache' = cache \cup {id}
         /\ alerts' = alerts \cup ({id} \cap added)
    /\ UNCHANGED <<table, documents, calls, scene, added, list, online, notes>>

Reject ==
    /\ online
    /\ \E id \in queued : queued' = queued \ {id}
    /\ UNCHANGED <<table, documents, cache, calls, scene, form, list, online,
                   notes>>

\* Variant of UploadCompleted without the refetch.
UploadCompleted_NoFetch ==
    /\ \E id \in alerts : announced' = announced \cup {id}
    /\ ReleaseForm
    /\ failed' = FALSE
    /\ UNCHANGED <<table, cloud, calls, list, online, confirmed, collected>>

\* OK on the success alert: the list below the form fetches, and the form is
\* popped.
UploadCompleted ==
    /\ \E id \in alerts : announced' = announced \cup {id}
    /\ GetTextBooks
    /\ ReleaseForm
    /\ failed' = FALSE
    /\ UNCHANGED <<table, cloud, callbacks, list, online, confirmed, collected>>

SwitchNetwork ==
    /\ online' = ~online
    /\ UNCHANGED <<table, cloud, calls, scene, form, list, notes>>

-----------------------------------------------------------------------------
Next ==
    \/ Relaunch
    \/ OpenFilter \/ UseFilter \/ DoneButtonTapped \/ Dismiss
    \/ AnswerFromServer \/ AnswerFromCache \/ AnswerError \/ Callback
    \/ RemoveOrphanedDocuments
    \/ OpenForm \/ LeaveForm \/ AddDocument \/ UploadCompleted
    \/ Commit \/ Ack \/ Reject
    \/ SwitchNetwork

Spec == Init /\ [][Next]_vars

-----------------------------------------------------------------------------
(***************************************************************************)
(* Properties                                                              *)
(***************************************************************************)

\* Type correctness: lists are in the order of the IDs and have no duplicates,
\* and the filter's rows are grades in ascending order.
Ordered(s) == \A i, j \in DOMAIN s : i < j => s[i] < s[j]

TypeOK ==
    /\ documents \subseteq Ids
    /\ cache \subseteq documents
    /\ queued \subseteq Mine
    /\ \A i \in DOMAIN fetches : fetches[i] \subseteq documents
    /\ \A i \in DOMAIN callbacks : /\ callbacks[i].found \subseteq Ids
                                    /\ callbacks[i].known \subseteq cache
    /\ scene \in {"list", "filter", "form"}
    /\ originalBooks \in Seq(Ids) /\ Ordered(originalBooks)
    /\ books \in Seq(Ids) /\ Ordered(books)
    /\ filterGrade \in Grades \cup {NoGrade}
    /\ grades \in Seq(Grades) /\ Ordered(grades)
    /\ previous \in 0 .. Len(grades)
    /\ selected \in 0 .. Len(grades)
    /\ ticked \subseteq displayed
    /\ displayed \subseteq DOMAIN grades
    /\ alerts \subseteq added /\ added \subseteq Mine
    /\ announced \subseteq Mine
    /\ collected \subseteq documents \ (cache \cup queued)

\* The list shows everything that was fetched last or exactly the books of
\* the grade in filterGrade: whatever answers arrive while the filter is open,
\* it never mixes two fetches, or one grade with another.
ListIsView ==
    \/ books = originalBooks
    \/ books = OfGrade(filterGrade, originalBooks)

\* When all rows fit on the screen, Done sets the filter to a grade only if its
\* row has a checkmark, or leaves the filter as it is: a checkmark that is left
\* over, as viewDidAppear leaves them when it selects anew, may stand on a row
\* that is not selected, but no row is selected behind the reader's back, except
\* that of the filter there already is.
ChangesAreTicked ==
    [][filterGrade' # filterGrade /\ Len(grades) <= Window
         => \/ filterGrade' = NoGrade
            \/ \E row \in ticked : grades[row] = filterGrade']_vars

\* A book that was listed because the backend had sent or acknowledged it
\* stays in what the list knows until the app is started again, unless the
\* cache has lost it by the time it answers, or answers one whom this answer is
\* joined to: no answer is otherwise older than an earlier one, and none that
\* comes from the backend lacks a book.  Without an acknowledgement a book may
\* go: the backend can refuse the device's own uploads.
BooksStay ==
    [][\/ Relaunch
       \/ confirmed \subseteq Listed(originalBooks')
       \/ callbacks # <<>> /\ confirmed \ Listed(originalBooks') \subseteq Head(callbacks).lost]_vars

\* After "Book Uploaded Successfully" is answered and the fetches have come
\* back without an error, the book is in the list, unless the cache has lost it.
UploadsListed ==
    (fetches = <<>> /\ callbacks = <<>> /\ ~failed)
      => announced \subseteq Listed(originalBooks) \cup collected
=============================================================================
