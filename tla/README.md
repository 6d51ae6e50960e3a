# Bookshare in TLA+

Bookshare (`src/TextBooks`, Swift, iOS) lets students offer textbooks and ask
for those of others.  There is no server code of its own: the app talks to
Firestore (the books), Cloud Storage (their pictures) and Firebase Auth through
the client libraries vendored under `src/TextBooks/Pods`.  What is hard in this
program therefore happens between a tap and a callback: reads that answer late,
from a cache or not at all, writes that wait in a persistent queue, scenes that
are left meanwhile, other devices that write the same document.  This directory
models that, from the screens down to the parts of the client libraries the
screens rely on, checks it with TLC, and proves most of its safety with TLAPS.

## The system

| Component | State | Operations | Talks to |
|---|---|---|---|
| Book details (`BookDetailsViewController`) | its `book`, the hidden or visible Request button | open, tap Request: `getDocument`, callback, `updateData` | Firestore, Auth |
| Upload form (`BooksUploadViewController`) | five text fields, a picture, an alert or picker over it | edit, pick a picture, submit: checks, `putData`, callback, `addDocument`, callback, alert | Storage, Firestore, Auth; the list (`uploadCompleted`) |
| List of books (`TextBooksViewController`) | `originalBooks`, `books`, `filterGrade` | `getTextBooksAndReload`, `prepare(for:)`, `showBooksFor` | Firestore; filter (`gradeSelected`), form, details |
| Filter (`BooksFilterViewController`) | `grades`, `filterGrade`, `previouslySelectedIndexPath`; the table's selection and cells | appear, tap a row, scroll, Done | list |
| Launch, sign-in (`AppDelegate`, `AuthViewController`) | root controller | launch, Google sign-in | Auth |
| Firestore client (Pods): reads | document cache, local overlay, listeners, online state | listen, answer, watch update, collect | backend |
| Firestore client: writes | mutation queues on disk, pipeline, write stream, waiting completions | write, hand over, send, acknowledge, reject, break, back off | backend, credentials |
| Credentials (`FIRAuth`, the provider, `Stream`) | current user, token counter, close count, three serial queues | change of user, token call, start and end of a stream | backend, write pipeline |
| Storage client (Pods) | upload tasks | `putData` | backend |
| Records (`Book`, `User`) | none | encode a form, decode a document | form, list, details |
| Book cell (`CollectionViewCell`) | image view | configure | image loading |
| Image loading (SDWebImage, FirebaseUI) | operation of each view, two caches, paths that failed | load, cancel, download, decode | Storage, cells |
| OTP, Requests, Grades, Legacy | none that matters | unreachable scenes and stubs | |

The scenes share nothing but the two backends, the current user and two
closures: `gradeSelected` (filter to list) and `uploadCompleted` (form to list).

Hard behaviours, and what makes each component correct:

* **Requests** are an unprotected read-modify-write of one array in a shared
  document.  Two readers at the same moment do overwrite each other; correct is
  that nothing *else* is lost: not a request that was there before, not through
  a cached or overlaid answer, a resent write or a killed app.
* **Uploads** write to two services in turn, from a form that stays editable and
  can be left.  Correct is that a document never shows without its picture,
  holds what was in the form at the tap, appears at most once, and that success
  is announced only when it is true.
* **The list** is replaced by answers that come while the filter or the form is
  on top.  Correct is that it is always one fetch, whole or filtered, that it
  never goes back in time but for what the cache has lost, and that the filter's
  rows stay meaningful.
* **The filter** keeps the selection twice (controller and table) and the
  checkmarks by hand; the selections must say the same, and Done must not choose
  what has no checkmark.
* **Writes** are sent one after the other without waiting, their answers name
  nothing, their ids are given out again, and everything in the pipeline is
  sent again when a stream ends.  Correct is that each completion hears of its
  own write, in order, and that no write is lost before it is decided.
* **Tokens** are asked for on one queue, labelled on a second and used on a
  third, while users change.  Correct is that no user's writes go out with
  another's token, and that the stream comes up again for whoever is there.
* **Documents on the device** are told of by acknowledgements and by watch
  updates, in no order.  Correct is that a cached document is what the backend
  has at its version, that it never goes back behind an own write, and that
  nothing reaches `Book` that stops the app.
* **Covers** load while their cell is reused for other books.  Correct is that a
  cell never shows another book's cover, and shows its own in the end.

Every hazard is listed at its line under `hazards` in `PROJECT.json`, with the
properties that cover it, or the reason why none does.

## Modules

| Module | What it is |
|---|---|
| `BookRequests` | one book's document and any number of devices: details, callback, Firestore client, backend, faults |
| `RequestArray` | abstract: lists that only grow by one fresh entry, of which the document shows one |
| `BookRequestsProofs` | types, survival of requests, what can be in a list, what outlives the app, and that `BookRequests` implements `RequestArray`, proved |
| `BookUpload` | the upload form on one device, Storage, Firestore's queue, faults |
| `Shelf` | abstract: books appear whole, at most once, only if they were submitted |
| `BookUploadProofs` | types, order and truth of uploads, that none is stuck, and that `BookUpload` implements `Shelf`, proved |
| `FilterTable` | the filter's table |
| `Library` | the list, composed with the filter table (whose variables and actions it takes over), over a collection of documents |
| `LibraryProofs` | types, selection, what Done may choose, list and refetch, proved |
| `WritePipeline` | one device's writes: mutation queues, pipeline, write stream, backend, faults |
| `WriteQueue` | abstract: a queue of writes per user, decided from its head, each completion run once |
| `WritePipelineProofs` | types; order, completeness and matching of answers; that no write is forgotten; that `WritePipeline` implements `WriteQueue`, proved |
| `StreamCredentials` | users, tokens and the start of streams over the auth, main and worker queues |
| `StreamCredentialsProofs` | types, whose token a stream carries, that it waits for one, and what it is at rest, proved |
| `BookRecord` | the fields the form writes and those `Book` and `User` read (operators only) |
| `LocalDocuments` | books on one device from the backend to the list: cache, queue, overlay, decoding by `BookRecord` |
| `LocalDocumentsProofs` | types; the cache is true, own writes stay, lists decode and keep their fields, proved |
| `CellImages` | cells, their load operations and the image caches |
| `CellImagesProofs` | types, matching of covers, and that no cell waits in vain, proved |
| `Induction` | lemmas: induction over naturals, and functions defined by steps |
| `MC...` | instances for TLC |

A definition with an underscore in its name is a wrong variant of the
definition that follows it (a dropped guard, a missing reset).  No
specification uses one; putting it in the place of the right one shows that a
property can fail, and `PROJECT.json` lists which variant breaks which property.

### BookRequests

`history` is the document as the sequence of its versions.  For each device,
`cached` is the version in its cache, `pending` the persistent queue of writes,
`applied` the versions that the first of them made while the acknowledgement is
under way, `reading` the one-shot listeners without an answer, `callbacks` the
answers dispatched to the main thread.  `Tap` is `btnRequestTapped` up to
`getDocument`, `Callback` is its closure: the `fatalError`, `userData`,
`newRequests` and `updateData`.  The answers are those that the vendored client
can give: from the server once it is in sync (`AnswerFromServer`; a listener
that joins a query still attached gets that query's snapshot), from the cache
when offline (`AnswerFromCache`), an error (`AnswerError`), each with the
queued writes laid over the document (`LocalView`).  A broken stream or a killed app
loses `applied`, never `pending`, so writes are sent again; a backend
that finds a write already applied may apply it again or answer with the old version.
`ForcedSignOut` is the auth library dropping a user whose token is refused; who
signs in again on a device is the same user.

An entry of the array is the user and the number of the tap that made it; the
name and photo in `userData` are not modelled.  Elements of the array that the app did not
write do not exist.

`since` and `clean` are auxiliary.  `since` is the oldest version the answers
of the device's current busy period can rest on (the version at the first tap,
or the cached one if the cache had to answer), `clean` says that no read of the
busy period failed.  They only give the property its words.

### BookUpload

`submissions` are the copies (`doc` and the picture) that `submitTapped` made,
with their phase: the picture is being put, the document added, or it is over.
`SubmitTapped` is the checks, the `fatalError` and the start of `putData`;
`PutSucceeded` and `PutFailed` are the completion of `putData` with its
`[weak self]`; `Ack` and `Reject` run the completion of `addDocument`
(`Completed`), which shows an alert when the form is alive (`FormAlive`).
`presented` is the alert or picker on top, and swallows other alerts, as UIKit
does.  `Quit` loses what is in memory; `queue`, `blobs` and `documents` stay.
The five text fields are one value, `NoText` if any is empty.

### FilterTable and Library

`FilterTable` keeps `previous` and `selected` apart, and the checkmarks of the
rows that have a cell.  UIKit's part is external: a tap on another row calls
`didDeselectRowAt` for the old one, then `didSelectRowAt`; rows scrolled into
view get a cell from `cellForRowAt`, which ticks the grade the filter was
*opened* with.  UIKit is taken to lay the list out after `reloadData` before the
next touch.  The filter is a sheet, so `Appear` is `viewDidAppear` of its first
showing and of each return after a swipe that was not finished; it then
selects the row of that grade again and leaves the checkmarks.  After that a checkmark may
stand on a row that is not selected, and the selected row may have none, so nothing
is promised of the checkmarks alone.  `ChangesAreTicked` is what remains, when all
rows fit: a filter that Done changes was ticked.  When rows scroll not even that
holds, as a ticked row loses its checkmark with its cell.

In `Library` a book is the ID of its document and `GradeOf` its grade; `Callback`
is the closure of `getDocuments` (an error only prints), `DoneButtonTapped` with
`ShowBooksFor` applies the filter.  The upload form is reduced to what the list
sees: documents added, acknowledged, refused, the alert's OK.  The app never
deletes a book, so `documents` grows.  `confirmed` is auxiliary: the books of the
last answer shown that the backend had sent or acknowledged.  `BooksStay` speaks
of them alone, because a book may be listed from the device's own queue, refused,
and gone from the next answer.

`RemoveOrphanedDocuments` is Firestore's LRU collection, which is on by default: it
takes documents from the cache that no queued write needs.  Its guard is that no
query listens, that is, no fetch is without an answer and no answered one without
its callback (`Attached`): the documents of a listening query are pinned by its
target, or stay in the view it has computed, and do not change its answer.
`collected` (auxiliary) is what the cache has lost and not had again; `lost`
in an answer is the part of it that the answer may lack: an answer from the cache
all of it, one from the server nothing, unless it joins a query that was answered
before.  `BooksStay` allows exactly this loss, and `UploadsListed` that of what is
in `collected`.

### WritePipeline and WriteQueue

`mutations` is the queue of each user on disk, `callbacks` the completions in
memory, by user and batch id, `nextId` the counter that a relaunch or a change of
user computes anew from the disk.  `pipeline` is `write_pipeline_`; `call` is the
gRPC call with what is under way in its two directions, `out` to the backend and
`in` from it, and its status.  The actions are the handlers: `WriteMutations`,
filling the pipeline and starting the stream, the token's arrival or failure, the
handshake, sending, `OnMutationResult`, the idle timer, the ends of a stream
(`HandleWriteError` or `HandleHandshakeError`, then back off and start again),
`HandleCredentialChange`, `Relaunch`.  The backend reads the messages of a live
call in order, applies or refuses them, and answers; of a call that is over on
either side it reads nothing more.  `WriteFails` is a gRPC write that fails while
the read of an answer has completed: `FastFinishCompletionsBlocking` then drops
the answer, which is what the run `pipeline_error` shows.

`WriteQueue` is what the app takes all this to be.  `WritePipeline` maps its queue
to the contents of `mutations`, with a write leaving when its completion runs.

### StreamCredentials

`main` and `worker` are the two queues a change of user and a token pass through,
in that order; a token call first reads the user (`calls`) and answers later.  The
provider compares its `counter` with the one the call noted, the stream the close
count.  The two guards back each other up: `SentByTheirUser` survives the loss of
either, so the variant that breaks it is another one, a change of user that leaves
the stream open; each guard has a property of its own, `LabelsAreTrue` and
`OneTokenAtATime`.  `carried` is auxiliary: the user whose token the open stream carries.

### BookRecord and LocalDocuments

`BookRecord` encodes (`Document`, `UserData`) and decodes (`Book`, `User`) the
seven fields of a book with their types, defaults and `fatalError`s.  In
`LocalDocuments`, `stored` holds the versions of each document at the backend;
`cache` what the device has, which may be nothing, a document, or a version
without data (`Unknown`: an acknowledged update of a book that was not cached);
`queue` the own writes, an upload (a set) or a request (an update of one field, by
number); `results` the acknowledgements under way.  `WatchUpdate` delivers any
version not older than the last it told of, and `PopulateDocumentChanges` keeps the newer of that and
the cache; `RemoveOrphanedDocument` is the collection.  `GetDocuments` lays the
queue over the cache and decodes what it finds into `books`.

### CellImages

`loads` are the operations of `SDWebImageManager`, each with its view, its path,
its phase (memory, disk, Storage, decoding, main queue) and whether it was
cancelled; `current` is a view's operation.  `Configure` is `configure(book:)`: it
cancels the view's load and starts another, or only empties the view for a book
without an image.  `Step` takes a load on by one queue; `DownloadFails`
and `Evict` are the faults.  Covers that Storage does not have get into
`failedURLs`; those over ten megabytes (`Large`) end in an error each time.

## Runs

| Run | Question | Instance |
|---|---|---|
| `requests_racing` | do requests survive all but a race; is a tap listed at most once; is every list an older one and one fresh entry (refinement of `RequestArray`) | two readers, 2 taps, 2 faults |
| `requests_owner` | can the owner get among the requests; is every tap settled | reader and owner, 2 taps, 2 faults, fair |
| `requests_crash` | can the callback find nobody logged in | 1 tap, 1 fault: yes |
| `upload` | pictures before documents, truthful success, refinement of `Shelf` | 2 submissions, 2 forms, 2 texts, 2 pictures, 1 fault |
| `upload_live` | does every submission and queued document end | 2 submissions, 1 text, 1 picture, 1 fault, fair |
| `library_list` | list, filter and table agree, Done chooses what is ticked, and nothing announced or confirmed is missing but what the cache lost | 3 books of 3 grades, two of them this device's, 2 rows on the screen |
| `pipeline` | order, matching, completeness, refinement of `WriteQueue`, and that queues drain | 2 users, 3 writes, pipeline of 2, 2 faults, fair |
| `pipeline_error` | can a completion report an error for a write that was applied | 4 writes in a pipeline of 4, no fault but the refusal and the failing write: yes |
| `credentials` | whose token a stream carries, and that it comes up for the current user | 2 users, 2 changes, 1 break, fair |
| `local_documents` | is the cache true, does an own write stay, do fields survive, does a list stop the app | 2 documents, 3 writes, 2 faults |
| `author_lost` | does the author that was entered reach the list | the same: no |
| `cell_images` | does a cell show its own cover, and get it | 2 cells, 4 books, 3 loads, 1 fault, fair |

All runs but `requests_crash`, `pipeline_error` and `author_lost` pass.

**Bounds.**  `MaxTaps`, `MaxFaults`, `MaxSubmits`, `MaxForms`, `MaxChanges`,
`MaxBreaks`, `MaxWrites` and `MaxLoads` bound the actions of the same names in
their guards; nothing else is bounded.  Two devices and
two taps are the smallest race; two taps of one device give pipelining, overlay
and joined queries.  Two faults give a lost acknowledgement and a second loss
while resending, or a kill while offline.  Two forms and two submissions give
completions that meet a newer form, and two documents in the queue; one fault
suffices for every crash point because each submission is independent of the
others but for the queue.  Two texts and two pictures tell a copy from the form as
it is now.  Three grades on two rows give scrolling as well as tables that fit;
two own books give a fetch that is asked for while two others are under way, and a
refused book among listed ones; the cache may lose any of the three, at any
time and as often as it likes.  That several books have one grade is left to the
theorems.  Three writes are one more than the
pipeline of two holds, so it is refilled; two users give queues that wait while
the other's is sent.  Two changes of user bring the first user back, with a
token of the first time still under way.  Three writes to two documents give an
upload and requests from two sides.  Four books are the four kinds of cover:
small, too large, missing, none; three configurations over two cells reuse one of them.
The constants of the proofs are unbounded.

`FourSymmetry`, permuting users and writes, is used in `pipeline_error` alone, an
invariant run; the other runs check temporal properties or do not need it.

**Deadlock** is checked in the `requests_` runs and in `library_list`.  Elsewhere the
bounds can be used up with nothing left to do, as in the program: the user stands
in the list and may upload no more, every write is decided and the stream idle,
the stream is open with no change or break left, all cells are configured and
loaded.

**Fairness.**  Weak fairness is given to what runs without the user.  In
`BookRequests` and `BookUpload`: the client's answers, the main queue, the write
stream and its acknowledgements, `StoreBlob` and `PutSucceeded` (an upload that
neither ends nor fails is not possible: the fetcher has a retry limit), and
`Reconnect` (the client retries the stream for ever; faults are finite, so the
network is there in the end).  In `WritePipeline`: the client's own steps
(`Library`, with the timer of the backoff and the answers of token calls) and the
backend's (`Server`), each as a whole.  In
`StreamCredentials`: the answers of token calls, the main queue and the worker
queue, which are serial queues that are always served, and the timer of the
backoff.  In `CellImages`: each step of
each load, as its queues are concurrent.  No step of the user, no launch and no
sign-in is fair, so liveness of `BookRequests` and `BookUpload` is stated only
while the app runs and its user is signed in.

**Findings.**  `requests_crash`: the callback in `btnRequestTapped` asserts
`fatalError("User is not logged in")`, yet the details stay open when the auth
library signs the user out, and an answer that comes after that ends the app.
`submitTapped` has the same assertion.  `author_lost`: the form stores the author
as a string, `Book` reads an array of strings, so every uploaded book is listed
with author "None Given".  `pipeline_error`: `HandleWriteError` blames the first
batch of the pipeline for a refusal; when an acknowledgement was dropped on the
way, because a write on the same call failed first, the completion of an applied
write is told that it was refused.

## Proofs

The theorems hold for every value of the constants, under the assumptions named
in the modules (`RequestConstants`, `UploadConstants`, `PipelineConstants`,
`CredentialConstants`, `DocumentConstants`, `ImageConstants`, `FilterConstants`,
`LibraryConstants`)
and nothing else.  Each rests on an inductive invariant with one lemma per action.

| Module | Theorems |
|---|---|
| `BookRequestsProofs` | `TypeCorrect`, `RequestsSurvive`, `WritesRestOnStanding`, `TapsListedOnce`, `OwnerNotListed`, `RequestsImplementArray`, `NothingComesToTheDead`, `QueueOutlivesTheApp` |
| `BookUploadProofs` | `UploadTyped`, `PictureFirst`, `SuccessTold`, `UploadImplementsShelf`, `NoSubmissionStuck` |
| `LibraryProofs` | `LibraryTyped`, `SelectionsAgree`, `ChangesShown`, `ListShowsOneFetch`, `AnnouncedAreListed`, `ListedBooksStay` |
| `WritePipelineProofs` | `FrontOfQueue`, `OrderedAnswers`, `CompletionsMatch`, `WritesSurvive`, `StreamIsInStep`, `PipelineImplementsQueue`, `PipelineTyped`, `PipelineFilled`, `NoWriteForgotten`, `SuccessIsTrue`, `CompletionsRunOnce` |
| `StreamCredentialsProofs` | `CredentialsTyped`, `TokensSentByTheirUser`, `LabelsTrue`, `StreamWaitsForOneToken`, `AtRestCaughtUp` |
| `LocalDocumentsProofs` | `CacheTrue`, `WritesStay`, `DocumentsTyped`, `ListsDecode`, `FieldsShown` |
| `CellImagesProofs` | `TypeCorrect`, `CoversMatch`, `NoCellWaitsInVain` |
| `Induction` | lemmas only: `Smallest`, `Induct`, `Iterates` and what is between them |

**BookRequests.**  `TypeCorrect` contains that results under way never outnumber
the queued writes, the assertion of `OnWriteStreamMutationResult`.
`StandingRequestsSurvive` speaks about versions that exist and says nothing of
the writes that will make the next one, so it is not inductive.  The inductive
invariant is `RequestsInv`: `TypeOK`, `Basis` and the property.  `Basis` follows
the array backwards from the backend: a queued write holds every entry that
stands since its `since` (`WritesBased`), because the answer it was made from
did (`AnswersBased`), because the version it came from is not older than the
listen (`ReadsBased`) or, for a query that was joined, than the cache
(`CacheBased`), and because an overlay is itself a queued write of the same busy
period.  The step of the proof that needs it is `Commit`, which turns the next
write into a version; entries that stand until that version are fewer than those
that stood until now, so the write has them all.  Each action has a lemma, and
`Standing` has lemmas on growing ranges and histories.  TLC checks `Basis` as an
invariant of `requests_racing`.

The lists' part of the module adds `ListsInv`: every list that is in a version, a queue or
an answer (`Held`) is made of entries of different taps and of readers
(`ListsFine`); a tap that waits for its answer or callback is in none of them
(`TapsFresh`) and waits in one place (`OpenApart`, `OpenOnce`); and the owner's
device only asks when nobody is signed in (`OwnerAway`), where the callback ends
the app instead of writing.  The refinement follows: a step makes no list, or one
list that extends a held one by a fresh entry, or shows a held one.

`UnderWayRuns` says that nothing is under way to a process that is gone: no
handler asks, as in the code, so it holds only because `Terminate`, the crash in the
callback, the loss of the network and the sign-outs drop what is under way.  With it, `StoppedKeeps` shows of every step of every
device that it leaves what a stopped app has on disk alone.

**BookUpload.**  `UploadInv`: documents, queued or visible, and pictures belong to
submissions and carry their data (`Data`), ids are paths, the scene's variables fit
each other (`Scene`), and `SuccessIsTrue`.  A submission becomes visible on
`Shelf` when the backend applies its document, whole because `Data` ties the
document to the copies made at the tap.  `SomebodyAnswers`, added to the
invariant, is that a submission never waits for an answer that was used up.

**Library.**  `LibraryInv`: later answers rest on at least what earlier ones did
and on at least what is shown, but for what they say the cache has lost
(`AnswersGrow`); the last answer has everything
announced once nothing is asked for any more (`AnnouncedComes`).  An answer of the
server to a query nobody listened to before has all that is shown, because
nothing is collected while a fetch waits, so what is shown was at the backend
when the first fetch was made, or is in the cache.

Rows are ascending grades, all with a cell when they fit (`RowsFine`); that they
ascend needs the sort to be right, which `Ascends` proves by counting places.
`ChangesAreTicked` follows from `SelectionTicked` (the selected row is ticked, or is
one that `viewDidAppear` selects) and `FilterInStep` (the grade of that one is the
list's filter, so Done on it changes nothing).
The order of a filtered list is that of `originalBooks` because `OfGrade` is
stated by the ascending places it keeps (`FilterKeepsOrder`, from `Ascends`);
`LibraryTyped` needs it.

**WritePipeline.**  `Inv` is `Queued` and `Streaming`.  On disk, ids ascend and are
below `nextId`, so an id that is given out again is never one that a completion
waits under; on the wire, a call carries exactly what its pipeline says it
should (`Matches`), and what it has answered is true (`AnswersAreTrue`): the two
together make "the first of the pipeline" the right reading of an answer.  For
the refinement, `Authored` adds that a write is in one queue, once.  `TypeOK`
bounds ids by the number of writes; `Counted` has the step-wise form, that
`nextId` is at most one more than the writes that were issued.

Two facts say why the queue can drain.  `PipelineIsFull`: no handler leaves room
in the pipeline that a queued batch could take.  `WritesUnderWay`: whenever a
write waits, one of the things that move it is there, a backoff, a token that will
not be dropped, or a call that carries something or has ended.  What is left to
fairness is that each of them happens.  `ToldAfterDecision` and `ToldOnce` are
properties of `WriteQueue`, proved of it (`QueueKeepsPromises`) and carried to
the pipeline by the refinement, so neither proof looks at a stream.

**StreamCredentials.**  `CredentialInv` says of each queue what a reader at each of
its places has been told of last (`Told`): what the main queue tells the provider
is the current user in the end, what the worker queue tells the sync engine is
what the provider knows; and a token whose count is current, with no
announcement before it, is that user's (`CountsTell`).

`OneTokenAtATime` adds up three cardinalities.  Its inductive form `WaitsForOne`
says where the token is instead: in exactly one of the three places while the
stream starts, in none otherwise, and never with a count the stream has not
reached (`NoneAhead`).  Together with `CredentialInv` it gives `RestsCaughtUp`: the
only way for this client to come to rest is with the stream open for the user who
is signed in.

**LocalDocuments.**  An acknowledgement brings a version and no data, so the device
computes the document from the one it has, which may be older than the one the
backend wrote to.  `CacheIsTrue` holds because that makes no difference
(`PatchMarks`): every version of a document is what its uploader made of it, with
at most the requests array of one write on it (`DocsOf`, `VersionsFine`).
`StoreInv` also has that versions with the number of a queued write are what that
write makes (`WritesMade`), which needs numbers to be told apart
(`NumbersApart`), and that an answer names such a version (`ResultsFine`); an id
that nobody uploaded to has no version (`Untouched`).  An update
whose outcome depends on the field's old value, an `arrayUnion`, would need
another argument.

What a list sees is the overlay, a recursion along the queue, so `NeverStops` and
`FieldsSurvive` are proved by induction along the queue.  The library's induction
theorem takes an operator as a parameter; `Induction` gets what is needed without
one, from the well-foundedness of strict inclusion on finite sets: a set of
naturals has a smallest member (`Smallest`), so a set that holds 0 and is closed
under successor up to `L` holds `0 .. L` (`Induct`), and a function defined by steps
exists and is typed (`Iterates`).  That works because membership in a set is the
hypothesis, where the theorem has a predicate.  The induction shows that every view of
a document is none, or one its uploader made with at most the array of one write on it.
`DocumentConstants` says for this that `Nil` is not the content of any field.

**CellImages.**  `OneLoad`: a load that is not cancelled is the one its view knows,
and it is for the view's book.  `Answered`: a load that a cell with a cover knows is
its own and not cancelled, and once done has left the cover or an error; from it
comes `CoverComes`, that no cell is left empty without a load that will be heard.

Every safety invariant of the passing runs, their action properties and the three
refinements are theorems.  Only model-checked: liveness (`TapsSettle`,
`SubmissionsEnd`, both `QueueDrains`, `CatchesUp`, `CoverOrError`), which is out of
this prover's reach.  For most of them the safety half, that what the fairness
moves on is there whenever it is needed, is a theorem: `SomebodyAnswers`,
`WritesUnderWay`, `RestsCaughtUp`, `CoverComes`; for `TapsSettle` only that
nothing is under way to a stopped app (`UnderWayRuns`).  These, and `PipelineIsFull`,
`ToldAfterDecision`, `ToldOnce` and `StoppedKeeps`, are stated in the proof modules.

## Not modelled

* OTP and phone sign-in, Grades, Legacy, `UploadBooks*`, `TableViewController`:
  no scene of the running app leads to them, or they are not in the target.
* The Requests scene is a stub with empty handlers.  Logout is an unwind segue
  nothing triggers, to an empty method.
* Keyboard, focus, layout; indicators, progress and prefetching of images.
* Inside the client libraries: limbo documents, watch targets and resume tokens,
  queries with filters and limits, multi-tab persistence, transactions, resumable
  upload chunks, sign-in providers and the keychain.  The app uses none of them,
  or they decide only when something arrives, which the models leave open.
* The rest of `Pods`, nearly all of the repository's lines: BoringSSL, gRPC's
  core, Abseil, leveldb, Protobuf, nanopb.  They are general-purpose libraries
  below the interfaces modelled here, a call that delivers messages in order until it
  breaks and a store that keeps what was written, and nothing in them is about this program.
* Two outcomes that the app does not meet.  A write call that the server ends with
  status OK while batches wait (an assertion in `OnWriteStreamClose`): the
  models end a call with an error, or from the client's side.  And
  a stored file that does not decode, for which the image loader reports neither
  image nor error: the form stores nothing but `pngData`.
* The backend's security rules, which are not in the repository: a write may be
  refused at any time.

## Plan

1. Done: the scenes with their services, the client libraries as far as the
   scenes rely on them, three refinements, and the theorems above.
2. Left: `TextBooksApp`, composing
   `Library`, `BookUpload` and the details of a book over one `WriteQueue`, so
   that a sign-out in one scene meets writes of another.
