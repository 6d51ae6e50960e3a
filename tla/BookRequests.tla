---------------------------- MODULE BookRequests ----------------------------
(***************************************************************************)
(* Requesting a book: BookDetailsViewController.btnRequestTapped.          *)
(*                                                                         *)
(* The requests for a book are one array field of its Firestore document.  *)
(* A tap on "Request" reads the document (getDocument), and the callback   *)
(* of the read appends the user to the array it was given and writes the   *)
(* whole array back (updateData), with no transaction and no look at the   *)
(* callback's error.  This module follows ONE document through any number  *)
(* of devices, over the Firestore client the app is built with: answers    *)
(* from the server, from the cache or with an error; the persistent queue  *)
(* of local writes, overlaid on every answer; pipelined writes, resent     *)
(* after a broken stream; acknowledgement and rejection; the app being     *)
(* killed; a user the auth library signs out.                              *)
(*                                                                         *)
(* The backend keeps the document as the sequence of its versions.  The    *)
(* fields since and clean, of a device and of a write, are auxiliary: they *)
(* record what the device's answers were based on and guard nothing.       *)
(*                                                                         *)
(* A definition with an underscore in its name is a deliberately wrong     *)
(* variant of the one below it, which no specification uses: see README.   *)
(***************************************************************************)
EXTENDS Naturals, Sequences, Functions

CONSTANTS
    Clients,    \* the devices that run the app
    Users,      \* the accounts of the people who use them
    UserOf,     \* the account of each device
    Owner,      \* the user who uploaded the book
    MaxTaps,    \* bound: taps on the button, over all devices
    MaxFaults   \* bound: lost connections, killed apps and forced sign-outs

ASSUME RequestConstants ==
    /\ UserOf \in [Clients -> Users]
    /\ Owner \in Users
    /\ MaxTaps \in Nat
    /\ MaxFaults \in Nat

VARIABLES
    history,    \* the versions of the document, each the write that made it
    cached,     \* the last version in the device's cache (0: before any request)
    pending,    \* the device's queue of writes that are not acknowledged
    applied,    \* versions that the first of those writes made, acks under way
    reading,    \* getDocument calls that are not answered
    callbacks,  \* answers on their way to the main thread
    screen,     \* what the app shows; the details show "hidden" or "request"
    signedIn,   \* Auth.auth().currentUser is not nil
    online,     \* the client's OnlineState is not Offline
    taps,       \* taps so far; a tap is known by its number
    faults,     \* faults so far
    since,      \* auxiliary: oldest version the device's answers may come from
    clean       \* auxiliary: no answer was an error, since the device was idle

server  == <<history>>
client  == <<cached, pending, applied, reading, callbacks>>
app     == <<screen, signedIn, online>>
aux     == <<since, clean>>
vars    == <<history, cached, pending, applied, reading, callbacks,
             screen, signedIn, online, taps, faults, since, clean>>

(***************************************************************************)
(* Data.  An element of the array is the userData dictionary; the number   *)
(* of the tap that made it tells apart the entries of one user.            *)
(***************************************************************************)
Taps     == 1 .. MaxTaps
Entries  == [user : Users, tap : Taps]
Lists    == Seq(Entries)
Writes   == [tap : Taps, list : Lists, since : Nat, clean : BOOLEAN]
Reads    == [tap : Taps, at : Nat]
Answers  == [tap : Taps, list : Lists, ok : BOOLEAN]
Screens  == {"stopped", "crashed", "auth", "list", "hidden", "request"}

Running(c) == screen[c] \notin {"stopped", "crashed"}

\* The array in version n of the document; version 0 has no such field.
ListAt(n) == IF n = 0 THEN <<>> ELSE history[n].list

\* Variant of LocalView that lays the queued entries, not the queued array, over
\* the document.
LocalView_Merges(c, n) ==
    ListAt(n) \o [i \in 1 .. Len(pending[c]) |->
                    pending[c][i].list[Len(pending[c][i].list)]]

\* What the client reports for server version n: the queued writes of the
\* user overlay the document, and each of them replaces the whole array.
LocalView(c, n) ==
    IF signedIn[c] /\ pending[c] # <<>>
      THEN pending[c][Len(pending[c])].list
      ELSE ListAt(n)

Newer(a, b) == IF a < b THEN b ELSE a
Older(a, b) == IF a < b THEN a ELSE b

\* Nothing that a tap started is left on the device.
Idle(c) == reading[c] = <<>> /\ callbacks[c] = <<>> /\ pending[c] = <<>>

-----------------------------------------------------------------------------
(***************************************************************************)
(* The app: launching, signing in, opening and leaving the details.        *)
(***************************************************************************)
Init ==
    /\ history = <<>>
    /\ cached = [c \in Clients |-> 0]
    /\ pending = [c \in Clients |-> <<>>]
    /\ applied = [c \in Clients |-> <<>>]
    /\ reading = [c \in Clients |-> <<>>]
    /\ callbacks = [c \in Clients |-> <<>>]
    /\ screen = [c \in Clients |-> "list"]
    /\ signedIn = [c \in Clients |-> TRUE]
    /\ online = [c \in Clients |-> TRUE]
    /\ taps = 0
    /\ faults = 0
    /\ since = [c \in Clients |-> 0]
    /\ clean = [c \in Clients |-> TRUE]

\* A stored user leads straight to the list of books, none to the login.
Launch(c) ==
    /\ ~Running(c)
    /\ screen' = [screen EXCEPT ![c] = IF signedIn[c] THEN "list" ELSE "auth"]
    /\ UNCHANGED <<server, client, signedIn, online, taps, faults, aux>>

\* didSignInWith, called without an error: the list becomes the root.
SignIn(c) ==
    /\ screen[c] = "auth"
    /\ online[c]
    /\ signedIn' = [signedIn EXCEPT ![c] = TRUE]
    /\ screen' = [screen EXCEPT ![c] = "list"]
    /\ UNCHANGED <<server, client, online, taps, faults, aux>>

\* The list is fetched again: the cache moves on to a version the server sent.
FetchList(c) ==
    /\ screen[c] = "list"
    /\ online[c]
    /\ \E n \in cached[c] .. Len(history) :
         cached' = [cached EXCEPT ![c] = n]
    /\ UNCHANGED <<server, pending, applied, reading, callbacks, app, taps,
                   faults, aux>>

\* Variant of OpenDetails that forgets to compare the user with the owner.
OpenDetails_Always(c) ==
    /\ screen[c] = "list"
    /\ screen' = [screen EXCEPT ![c] = "request"]
    /\ UNCHANGED <<server, client, signedIn, online, taps, faults, aux>>

\* viewDidLoad of the details hides the button from the owner of the book.
OpenDetails(c) ==
    /\ screen[c] = "list"
    /\ screen' = [screen EXCEPT ![c] =
                    IF signedIn[c] /\ UserOf[c] = Owner THEN "hidden"
                                                        ELSE "request"]
    /\ UNCHANGED <<server, client, signedIn, online, taps, faults, aux>>

\* Leaving the details; the callback holds the controller, and still runs.
Back(c) ==
    /\ screen[c] \in {"hidden", "request"}
    /\ screen' = [screen EXCEPT ![c] = "list"]
    /\ UNCHANGED <<server, client, signedIn, online, taps, faults, aux>>

-----------------------------------------------------------------------------
(***************************************************************************)
(* The request: tap, answer, callback.                                     *)
(***************************************************************************)

\* btnRequestTapped starts a read; nothing disables the button meanwhile.
Tap(c) ==
    /\ screen[c] = "request"
    /\ taps < MaxTaps
    /\ taps' = taps + 1
    /\ reading' = [reading EXCEPT ![c] =
                     Append(@, [tap |-> taps + 1, at |-> Len(history)])]
    /\ since' = [since EXCEPT ![c] = IF Idle(c) THEN Len(history) ELSE @]
    /\ clean' = [clean EXCEPT ![c] = Idle(c) \/ @]
    /\ UNCHANGED <<server, cached, pending, applied, callbacks, app, faults>>

\* Every listener of the query is raised with the same snapshot.
Raise(c, list, ok) ==
    /\ reading[c] # <<>>
    /\ reading' = [reading EXCEPT ![c] = <<>>]
    /\ callbacks' = [callbacks EXCEPT ![c] = @ \o
                       [i \in 1 .. Len(reading[c]) |->
                          [tap |-> reading[c][i].tap, list |-> list, ok |-> ok]]]

\* A listener whose predecessor has been raised but not yet removed joins the
\* same query and is given the snapshot that query has.
Attached(c) == \E i \in DOMAIN callbacks[c] : callbacks[c][i].ok

\* Variant of AnswerFromServer that raises the cache before it is current.
AnswerFromServer_Stale(c) ==
    /\ online[c]
    /\ \E n \in cached[c] .. Len(history) :
         /\ Raise(c, LocalView(c, n), TRUE)
         /\ cached' = [cached EXCEPT ![c] = n]
    /\ UNCHANGED <<server, pending, applied, app, taps, faults, aux>>

\* Online, the listeners wait for the server: a version no older than the
\* listen, or than the snapshot of the query that they joined.
AnswerFromServer(c) ==
    /\ online[c]
    /\ reading[c] # <<>>
    /\ \E n \in Newer(cached[c], IF Attached(c) THEN 0 ELSE reading[c][1].at)
                  .. Len(history) :
         /\ Raise(c, LocalView(c, n), TRUE)
         /\ cached' = [cached EXCEPT ![c] = n]
    /\ UNCHANGED <<server, pending, applied, app, taps, faults, aux>>

\* Offline, the cache answers at once.
AnswerFromCache(c) ==
    /\ ~online[c]
    /\ Raise(c, LocalView(c, cached[c]), TRUE)
    /\ since' = [since EXCEPT ![c] = Older(@, cached[c])]
    /\ UNCHANGED <<server, cached, pending, applied, app, taps, faults, clean>>

\* The listen is rejected, or the document has left the cache while offline:
\* the callback gets no snapshot.
AnswerError(c) ==
    /\ ~Attached(c)
    /\ Raise(c, <<>>, FALSE)
    /\ clean' = [clean EXCEPT ![c] = FALSE]
    /\ UNCHANGED <<server, cached, pending, applied, app, taps, faults, since>>

\* Variant of NewRequests that always takes the branch of the first request.
NewRequests_Singleton(list, userData) == <<userData>>

\* The array written for an answer: a nil snapshot, one without the field and
\* one with an empty array all give the singleton.
NewRequests(list, userData) == Append(list, userData)

\* The callback of getDocument: fatalError without a current user, otherwise
\* the array goes into the persistent queue of writes.
Callback(c) ==
    /\ callbacks[c] # <<>>
    /\ LET answer == Head(callbacks[c])
           userData == [user |-> UserOf[c], tap |-> answer.tap]
       IN  IF signedIn[c]
           THEN /\ pending' = [pending EXCEPT ![c] = Append(@,
                      [tap   |-> answer.tap,
                       list  |-> NewRequests(answer.list, userData),
                       since |-> since[c],
                       clean |-> clean[c]])]
                /\ callbacks' = [callbacks EXCEPT ![c] = Tail(@)]
                /\ UNCHANGED <<reading, applied, screen>>
           ELSE /\ screen' = [screen EXCEPT ![c] = "crashed"]
                /\ reading' = [reading EXCEPT ![c] = <<>>]
                /\ callbacks' = [callbacks EXCEPT ![c] = <<>>]
                /\ applied' = [applied EXCEPT ![c] = <<>>]
                /\ UNCHANGED pending
    /\ UNCHANGED <<server, cached, signedIn, online, taps, faults, aux>>

-----------------------------------------------------------------------------
(***************************************************************************)
(* The queue of writes and the backend.                                    *)
(***************************************************************************)
CanWrite(c) == Running(c) /\ online[c] /\ signedIn[c]

\* The backend applies the next write of the pipeline, or finds that it had
\* applied it on a stream that broke before the acknowledgement.
Commit(c) ==
    /\ CanWrite(c)
    /\ Len(applied[c]) < Len(pending[c])
    /\ LET write == pending[c][Len(applied[c]) + 1]
       IN  \/ /\ history' = Append(history, write)
              /\ applied' = [applied EXCEPT ![c] = Append(@, Len(history) + 1)]
           \/ \E n \in DOMAIN history :
                /\ history[n].tap = write.tap
                /\ applied' = [applied EXCEPT ![c] = Append(@, n)]
                /\ UNCHANGED history
    /\ UNCHANGED <<cached, pending, reading, callbacks, app, taps, faults, aux>>

\* Variant of Ack that does not take the result off the pipeline.
Ack_KeepsResult(c) ==
    /\ CanWrite(c)
    /\ applied[c] # <<>>
    /\ pending' = [pending EXCEPT ![c] = Tail(@)]
    /\ cached' = [cached EXCEPT ![c] = Newer(@, Head(applied[c]))]
    /\ UNCHANGED <<server, applied, reading, callbacks, app, taps, faults, aux>>

\* Variant of Ack that ignores the result of a version the cache has overtaken.
Ack_NewsOnly(c) ==
    /\ CanWrite(c)
    /\ applied[c] # <<>>
    /\ cached[c] < Head(applied[c])
    /\ cached' = [cached EXCEPT ![c] = Head(applied[c])]
    /\ pending' = [pending EXCEPT ![c] = Tail(@)]
    /\ applied' = [applied EXCEPT ![c] = Tail(@)]
    /\ UNCHANGED <<server, reading, callbacks, app, taps, faults, aux>>

\* The acknowledgement of the oldest write: it leaves the queue, and the cache
\* takes its version unless it already holds a newer one.
Ack(c) ==
    /\ CanWrite(c)
    /\ applied[c] # <<>>
    /\ cached' = [cached EXCEPT ![c] = Newer(@, Head(applied[c]))]
    /\ pending' = [pending EXCEPT ![c] = Tail(@)]
    /\ applied' = [applied EXCEPT ![c] = Tail(@)]
    /\ UNCHANGED <<server, reading, callbacks, app, taps, faults, aux>>

\* A permanent error concerns the oldest write; nobody is told.
Reject(c) ==
    /\ CanWrite(c)
    /\ pending[c] # <<>>
    /\ applied[c] = <<>>
    /\ pending' = [pending EXCEPT ![c] = Tail(@)]
    /\ UNCHANGED <<server, cached, applied, reading, callbacks, app, taps,
                   faults, aux>>

-----------------------------------------------------------------------------
(***************************************************************************)
(* Faults.  Each of them ends the write stream: the acknowledgements under *)
(* way are lost, and the writes will be sent again.                        *)
(***************************************************************************)
Disconnect(c) ==
    /\ Running(c)
    /\ online[c]
    /\ faults < MaxFaults
    /\ faults' = faults + 1
    /\ online' = [online EXCEPT ![c] = FALSE]
    /\ applied' = [applied EXCEPT ![c] = <<>>]
    /\ UNCHANGED <<server, cached, pending, reading, callbacks, screen,
                   signedIn, taps, aux>>

Reconnect(c) ==
    /\ ~online[c]
    /\ online' = [online EXCEPT ![c] = TRUE]
    /\ UNCHANGED <<server, client, screen, signedIn, taps, faults, aux>>

\* The auth library drops a user whose token is refused; the screen stays.
ForcedSignOut(c) ==
    /\ Running(c)
    /\ signedIn[c]
    /\ online[c]
    /\ faults < MaxFaults
    /\ faults' = faults + 1
    /\ signedIn' = [signedIn EXCEPT ![c] = FALSE]
    /\ applied' = [applied EXCEPT ![c] = <<>>]
    /\ UNCHANGED <<server, cached, pending, reading, callbacks, screen, online,
                   taps, aux>>

\* The app is killed: reads and callbacks are gone, cache and queue are kept.
Terminate(c) ==
    /\ Running(c)
    /\ faults < MaxFaults
    /\ faults' = faults + 1
    /\ screen' = [screen EXCEPT ![c] = "stopped"]
    /\ reading' = [reading EXCEPT ![c] = <<>>]
    /\ callbacks' = [callbacks EXCEPT ![c] = <<>>]
    /\ applied' = [applied EXCEPT ![c] = <<>>]
    /\ UNCHANGED <<server, cached, pending, signedIn, online, taps, aux>>

-----------------------------------------------------------------------------
Next ==
    \E c \in Clients :
        \/ Launch(c) \/ SignIn(c) \/ FetchList(c) \/ OpenDetails(c) \/ Back(c)
        \/ Tap(c)
        \/ AnswerFromServer(c) \/ AnswerFromCache(c) \/ AnswerError(c)
        \/ Callback(c)
        \/ Commit(c) \/ Ack(c) \/ Reject(c)
        \/ Disconnect(c) \/ Reconnect(c) \/ ForcedSignOut(c) \/ Terminate(c)

Spec == Init /\ [][Next]_vars

\* The client library and the main queue keep running, and so does the
\* network after the last fault; the user need not do anything.
Fairness ==
    \A c \in Clients :
        /\ WF_vars(AnswerFromServer(c) \/ AnswerFromCache(c))
        /\ WF_vars(Callback(c))
        /\ WF_vars(Commit(c))
        /\ WF_vars(Ack(c))
        /\ WF_vars(Reconnect(c))

FairSpec == Spec /\ Fairness

-----------------------------------------------------------------------------
(***************************************************************************)
(* Properties                                                              *)
(***************************************************************************)

\* Type correctness of the client, backend and app state; acknowledgements
\* under way never outnumber the queued writes (remote_store.cc asserts that
\* a result finds its write in the pipeline), and versions exist.
TypeOK ==
    /\ history \in Seq(Writes)
    /\ cached \in [Clients -> 0 .. Len(history)]
    /\ pending \in [Clients -> Seq(Writes)]
    /\ applied \in [Clients -> Seq(1 .. Len(history))]
    /\ \A c \in Clients : Len(applied[c]) <= Len(pending[c])
    /\ reading \in [Clients -> Seq(Reads)]
    /\ callbacks \in [Clients -> Seq(Answers)]
    /\ screen \in [Clients -> Screens]
    /\ signedIn \in [Clients -> BOOLEAN]
    /\ online \in [Clients -> BOOLEAN]
    /\ taps \in 0 .. MaxTaps
    /\ faults \in 0 .. MaxFaults
    /\ since \in [Clients -> 0 .. Len(history)]
    /\ clean \in [Clients -> BOOLEAN]

\* The requests that stand in every version of the document from m to n.
Standing(m, n) ==
    {e \in Entries : \A k \in m .. n : e \in Range(ListAt(k))}

\* btnRequestTapped overwrites the whole array, so writes of two devices can
\* drop each other's requests.  They drop nothing else: unless a read failed,
\* the write that makes version j keeps every request that stood in the
\* document all the time from the first tap of the device's busy period (or,
\* when the cache had to answer, from the version in the cache) until j.
\* Local overlay, cached answers, shared snapshots, pipelining, resent writes
\* and killed apps never cost a request of somebody who was not racing.
StandingRequestsSurvive ==
    \A j \in DOMAIN history :
        history[j].clean =>
            Standing(history[j].since, j - 1) \subseteq Range(history[j].list)

\* Why they survive: on every device, whatever is still to be written has been
\* built on all the requests that stand since the device became busy.  This is
\* the inductive form of StandingRequestsSurvive.
WritesBased ==
    \A c \in Clients : \A i \in DOMAIN pending[c] :
        /\ since[c] <= pending[c][i].since
        /\ pending[c][i].since <= Len(history)
        /\ clean[c] => pending[c][i].clean
        /\ pending[c][i].clean =>
             Standing(pending[c][i].since, Len(history))
               \subseteq Range(pending[c][i].list)

AnswersBased ==
    \A c \in Clients : \A i \in DOMAIN callbacks[c] :
        clean[c] => Standing(since[c], Len(history))
                      \subseteq Range(callbacks[c][i].list)

ReadsBased ==
    \A c \in Clients : \A i \in DOMAIN reading[c] :
        reading[c][i].at \in since[c] .. Len(history)

CacheBased ==
    \A c \in Clients : Attached(c) => since[c] <= cached[c]

Basis == WritesBased /\ AnswersBased /\ ReadsBased /\ CacheBased

\* A write that is resent after a lost acknowledgement, or whose entry came
\* back through the overlay, never lists one tap on the button twice.
AtMostOncePerTap ==
    \A j \in DOMAIN history :
        \A x, y \in DOMAIN history[j].list :
            history[j].list[x].tap = history[j].list[y].tap => x = y

\* The owner of the book is never among those who request it, although the
\* button is hidden when the details open and the user is read in a callback.
OwnerNeverRequests ==
    \A j \in DOMAIN history :
        \A x \in DOMAIN history[j].list : history[j].list[x].user # Owner

\* The callback takes it for granted that a user is logged in.
NeverCrashes == \A c \in Clients : screen[c] # "crashed"

\* Every tap is settled: whatever a device has started, it finishes, unless
\* the app is not running or its user has been signed out.
TapsSettle ==
    \A c \in Clients : ~Idle(c) ~> (Idle(c) \/ ~Running(c) \/ ~signedIn[c])

-----------------------------------------------------------------------------
(***************************************************************************)
(* What the array promises, seen from outside (module RequestArray): every *)
(* list that is ever computed extends an earlier one by one fresh entry.   *)
(***************************************************************************)
KnownLists ==
    {<<>>} \cup {history[n].list : n \in DOMAIN history}
           \cup (UNION {{pending[c][i].list : i \in DOMAIN pending[c]} : c \in Clients})
           \cup (UNION {{callbacks[c][i].list : i \in DOMAIN callbacks[c]} : c \in Clients})

\* The taps whose entry is made or will never be.
SpentTaps ==
    {t \in Taps : /\ t <= taps
                 /\ \A c \in Clients :
                      /\ \A i \in DOMAIN reading[c] : reading[c][i].tap # t
                      /\ \A i \in DOMAIN callbacks[c] : callbacks[c][i].tap # t}

Array == INSTANCE RequestArray
         WITH People <- Users, Tickets <- Taps, array <- ListAt(Len(history)),
              lists <- KnownLists, used <- SpentTaps

\* The read-modify-write of btnRequestTapped, with everything that the client
\* and the network add to it, only ever shows lists made entry by entry.
ImplementsArray == Array!ASpec
=============================================================================
