--------------------------- MODULE LocalDocuments ----------------------------
(***************************************************************************)
(* The books on one device, from the backend to the list: the remote       *)
(* document cache and the mutation queue of Firestore's LocalStore, the    *)
(* view that lays the second over the first, and the decoding of what the  *)
(* view hands to the list.                                                 *)
(*                                                                         *)
(* Two streams tell the device about a document, in an order nobody fixes: *)
(* acknowledgements of its own writes, which carry a version but no data,  *)
(* and watch updates, which carry both and may be older.  The cache is     *)
(* collected, so a write may be made to a document that is not there.      *)
(* The content of the requests array is the subject of BookRequests; here  *)
(* each write of it has a number.                                          *)
(* A definition with an underscore in its name is a deliberately wrong     *)
(* variant of the one below it: see README.                                *)
(***************************************************************************)
EXTENDS BookRecord, FiniteSets

CONSTANTS
    Ids,            \* documents of the collection
    Accounts,       \* who may upload: records of id, name and photo
    Here,           \* the account that is signed in on this device
    MaxWrites,      \* bound: writes of this device and of others
    MaxFaults       \* bound: lost answers, refusals, collections, relaunches

\* What a document was made of, see origin.
Origins == [form : Forms, account : Accounts, path : Ids]

\* Nil is nothing that a form, an account or a document holds.
ASSUME DocumentConstants ==
    /\ Here \in Accounts /\ Nil \notin Origins
    /\ \A form \in Forms : Nil \notin {form.title, form.subject, form.condition}
    /\ \A account \in Accounts : Nil \notin {account.id, UserData(account)}
    /\ Nil # "Some Student"
    /\ \A made \in Origins :
          LET doc == Document(made.form, made.account, made.path)
          IN  Nil \notin {doc} \cup {With(doc, "requests", Array(k)) : k \in 0 .. MaxWrites}
    /\ MaxWrites \in Nat /\ MaxFaults \in Nat

VARIABLES
    stored,         \* the backend: the versions of each document
    cache,          \* remote_document_cache_
    queue,          \* mutation_queue_
    results,        \* versions the first writes of the queue made, answers under way
    watched,        \* the newest version a watch update has told of
    books,          \* the books of the list
    stopped,        \* a fatalError has ended the app
    origin,         \* auxiliary: the form, account and path a document was made of
    acked,          \* auxiliary: the newest version acknowledged since the last collection
    writes, faults

vars == <<stored, cache, queue, results, watched, books, stopped, origin, acked,
          writes, faults>>

NotCached      == [kind |-> "none", version |-> 0, doc |-> Nil, synced |-> TRUE]
Unknown(v)     == [kind |-> "unknown", version |-> v, doc |-> Nil, synced |-> FALSE]
Cached(d, v, s) == [kind |-> "document", version |-> v, doc |-> d, synced |-> s]

Init ==
    /\ stored = [b \in Ids |-> <<>>]
    /\ cache = [b \in Ids |-> NotCached]
    /\ queue = <<>>
    /\ results = <<>>
    /\ watched = [b \in Ids |-> 0]
    /\ books = {}
    /\ stopped = FALSE
    /\ origin = [b \in Ids |-> Nil]
    /\ acked = [b \in Ids |-> 0]
    /\ writes = 0
    /\ faults = 0

Current(b) == stored[b][Len(stored[b])].doc
Fault == faults < MaxFaults /\ faults' = faults + 1

-----------------------------------------------------------------------------
(* Mutations.  A set has no precondition, a patch needs the document.      *)

Patched(doc, write) == With(doc, "requests", Array(write.number))

ApplyToLocalView_NoPrecondition(write, doc) ==
    CASE write.kind = "set"            -> write.doc
      [] write.kind = "patch"          -> IF doc = Nil THEN Patched(<<>>, write)
                                          ELSE Patched(doc, write)
ApplyToLocalView(write, doc) ==
    CASE write.kind = "set"                -> write.doc
      [] write.kind = "patch" /\ doc = Nil -> Nil
      [] OTHER                             -> Patched(doc, write)

ApplyToRemoteDocument_OldContents(write, entry, v) ==
    CASE write.kind = "set" -> Cached(write.doc, v, FALSE)
      [] write.kind = "patch" /\ entry.kind # "document" -> Unknown(v)
      [] OTHER -> Cached(entry.doc, v, FALSE)
ApplyToRemoteDocument(write, entry, v) ==
    CASE write.kind = "set" -> Cached(write.doc, v, FALSE)
      [] write.kind = "patch" /\ entry.kind # "document" -> Unknown(v)
      [] OTHER -> Cached(Patched(entry.doc, write), v, FALSE)

\* LocalDocumentsView: the cached document and the queued writes over it.
View(b) ==
    LET after[n \in 0 .. Len(queue)] ==
            CASE n = 0                -> cache[b].doc
              [] n > 0 /\ queue[n].book = b -> ApplyToLocalView(queue[n], after[n - 1])
              [] OTHER                -> after[n - 1]
    IN  after[Len(queue)]

-----------------------------------------------------------------------------
(* The app of this device.                                                 *)

NextWrite == writes < MaxWrites /\ writes' = writes + 1

\* submitTapped, when the picture is stored: addDocument takes an id of its
\* own for each call.
Upload(b, form) ==
    /\ ~ stopped /\ NextWrite
    /\ origin[b] = Nil
    /\ origin' = [origin EXCEPT ![b] = [form |-> form, account |-> Here, path |-> b]]
    /\ queue' = Append(queue, [kind |-> "set", book |-> b, number |-> writes',
                               doc |-> Document(form, Here, b)])
    /\ UNCHANGED <<stored, cache, results, watched, books, stopped, acked, faults>>

\* updateData, for a book of the list that is not the user's own.
Request(book) ==
    /\ ~ stopped /\ NextWrite
    /\ book.user.id # Here.id
    /\ queue' = Append(queue, [kind |-> "patch", book |-> book.id, number |-> writes',
                               doc |-> Nil])
    /\ UNCHANGED <<stored, cache, results, watched, books, stopped, origin, acked, faults>>

\* The callback of getDocuments.  What it is given is the view of the moment:
\* from the cache when the device is offline, and no less when it waits for
\* the server, whose updates are steps of their own.
GetDocuments ==
    LET found == {b \in Ids : View(b) # Nil}
    IN  /\ ~ stopped
        /\ IF \A b \in found : Decodes(View(b))
           THEN books' = {Book(b, View(b)) : b \in found} /\ UNCHANGED stopped
           ELSE stopped' = TRUE /\ UNCHANGED books
        /\ UNCHANGED <<stored, cache, queue, results, watched, origin, acked, writes, faults>>

Relaunch ==
    /\ Fault
    /\ books' = {}
    /\ stopped' = FALSE
    /\ results' = <<>>
    /\ UNCHANGED <<stored, cache, queue, watched, origin, acked, writes>>

-----------------------------------------------------------------------------
(* The local store.                                                        *)

\* AcknowledgeBatch, one transaction with the removal from the queue.
Acknowledge ==
    /\ results # <<>>
    /\ LET write == Head(queue)
           b     == write.book
           v     == Head(results)
       IN  /\ cache' = IF cache[b].version < v
                       THEN [cache EXCEPT ![b] = ApplyToRemoteDocument(write, @, v)]
                       ELSE cache
           /\ acked' = [acked EXCEPT ![b] = IF @ < v THEN v ELSE @]
    /\ queue' = Tail(queue)
    /\ results' = Tail(results)
    /\ UNCHANGED <<stored, watched, books, stopped, origin, writes, faults>>

\* ApplyRemoteEvent: an update is taken if it is newer than what is cached,
\* or if it confirms what an acknowledgement put there.  Updates of one
\* document are in order, and may be any number behind.
WatchUpdate_TakesAll(b, v) ==
    /\ watched[b] <= v /\ v \in DOMAIN stored[b]
    /\ watched' = [watched EXCEPT ![b] = v]
    /\ cache' = [cache EXCEPT ![b] = Cached(stored[b][v].doc, v, TRUE)]
    /\ UNCHANGED <<stored, queue, results, books, stopped, origin, acked, writes, faults>>
WatchUpdate(b, v) ==
    /\ watched[b] <= v /\ v \in DOMAIN stored[b]
    /\ watched' = [watched EXCEPT ![b] = v]
    /\ cache' = IF \/ cache[b].version < v
                   \/ cache[b].version = v /\ ~ cache[b].synced
                THEN [cache EXCEPT ![b] = Cached(stored[b][v].doc, v, TRUE)]
                ELSE cache
    /\ UNCHANGED <<stored, queue, results, books, stopped, origin, acked, writes, faults>>

RejectBatch_AnyTime ==
    /\ queue # <<>>
    /\ Fault
    /\ queue' = Tail(queue)
    /\ UNCHANGED <<stored, cache, results, watched, books, stopped, origin, acked, writes>>
RejectBatch ==
    /\ queue # <<>> /\ results = <<>>
    /\ Fault
    /\ queue' = Tail(queue)
    /\ UNCHANGED <<stored, cache, results, watched, books, stopped, origin, acked, writes>>

\* LruGarbageCollector: a document that no queued write needs.
RemoveOrphanedDocument(b) ==
    /\ \A n \in DOMAIN queue : queue[n].book # b
    /\ cache[b].kind # "none"
    /\ Fault
    /\ cache' = [cache EXCEPT ![b] = NotCached]
    /\ acked' = [acked EXCEPT ![b] = 0]
    /\ UNCHANGED <<stored, queue, results, watched, books, stopped, origin, writes>>

-----------------------------------------------------------------------------
(* The backend and the other devices.                                      *)

Store(b, doc, number) == stored' = [stored EXCEPT ![b] = Append(@, [doc |-> doc, number |-> number])]

\* The next write of the queue is applied, an update only to a document that
\* is there; one that was applied before its
\* answer was lost may be applied again or be answered with its version.
Commit ==
    /\ Len(results) < Len(queue)
    /\ LET write == queue[Len(results) + 1]
           b     == write.book
           done  == {v \in DOMAIN stored[b] : stored[b][v].number = write.number}
       IN  \/ /\ write.kind = "set" \/ stored[b] # <<>>
              /\ Store(b, IF write.kind = "set" THEN write.doc
                          ELSE Patched(Current(b), write), write.number)
              /\ results' = Append(results, Len(stored'[b]))
           \/ /\ \E v \in done : results' = Append(results, v)
              /\ UNCHANGED stored
    /\ UNCHANGED <<cache, queue, watched, books, stopped, origin, acked, writes, faults>>

Break ==
    /\ results # <<>>
    /\ Fault
    /\ results' = <<>>
    /\ UNCHANGED <<stored, cache, queue, watched, books, stopped, origin, acked, writes>>

OtherUploads(b, form, account) ==
    /\ NextWrite
    /\ origin[b] = Nil /\ account # Here
    /\ origin' = [origin EXCEPT ![b] = [form |-> form, account |-> account, path |-> b]]
    /\ Store(b, Document(form, account, b), writes')
    /\ UNCHANGED <<cache, queue, results, watched, books, stopped, acked, faults>>

OtherRequests(b) ==
    /\ NextWrite
    /\ stored[b] # <<>>
    /\ Store(b, Patched(Current(b), [number |-> writes']), writes')
    /\ UNCHANGED <<cache, queue, results, watched, books, stopped, origin, acked, faults>>

-----------------------------------------------------------------------------
Next ==
    \/ \E b \in Ids, form \in Forms :
          \/ Upload(b, form)
          \/ \E account \in Accounts : OtherUploads(b, form, account)
    \/ \E book \in books : Request(book)
    \/ \E b \in Ids : OtherRequests(b) \/ RemoveOrphanedDocument(b)
    \/ \E b \in Ids : \E v \in DOMAIN stored[b] : WatchUpdate(b, v)
    \/ GetDocuments \/ Relaunch \/ Acknowledge \/ RejectBatch \/ Commit \/ Break

Spec == Init /\ [][Next]_vars

-----------------------------------------------------------------------------
\* The states of the store are well formed; answers under way never outnumber
\* the queued writes, and every version they name exists.
TypeOK ==
    /\ \A b \in Ids : /\ cache[b].kind \in {"none", "unknown", "document"}
                      /\ cache[b].doc = Nil <=> cache[b].kind # "document"
                      /\ cache[b].version \in 0 .. Len(stored[b])
                      /\ watched[b] \in 0 .. Len(stored[b])
    /\ Len(results) <= Len(queue)
    /\ \A n \in DOMAIN results : results[n] \in DOMAIN stored[queue[n].book]
    /\ writes \in 0 .. MaxWrites /\ faults \in 0 .. MaxFaults

\* No document that reaches a list makes Book or User stop the app, not even
\* while a request is queued for a book the cache has lost, or when its
\* acknowledgement comes before any update of the book.
NeverStops == ~ stopped

\* A book of the list shows what its uploader entered, whatever was written
\* to its document since, here or elsewhere, in the queue or not.
FieldsSurvive ==
    \A book \in books :
        LET made == origin[book.id]
        IN  /\ book.title = made.form.title
            /\ book.subject = made.form.subject
            /\ book.condition = made.form.condition
            /\ made.form.grade \in DOMAIN Numbers => book.grade = Numbers[made.form.grade]
            /\ book.image = made.path
            /\ book.user.id = made.account.id

\* A cached document is the backend's of that version, although those that an
\* acknowledgement left are computed here and from an older one.
CacheIsTrue ==
    \A b \in Ids : cache[b].kind = "document" =>
        cache[b].doc = stored[b][cache[b].version].doc

\* Once a write of this device is acknowledged, no update that was still on
\* its way takes the document back behind it.
OwnWritesStay == \A b \in Ids : cache[b].version >= acked[b]

\* The list names the author who was entered; the form insists on one.
AuthorSurvives == \A book \in books : book.author = <<origin[book.id].form.author>>
=============================================================================
