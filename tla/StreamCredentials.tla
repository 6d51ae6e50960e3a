-------------------------- MODULE StreamCredentials --------------------------
(***************************************************************************)
(* Whose token a stream to Firestore carries: FIRAuth, the Firebase        *)
(* credentials provider, and the start of a Stream.                        *)
(*                                                                         *)
(* Three serial queues take part.  On the auth work queue the current      *)
(* user changes, which is announced on the main queue, and tokens are      *)
(* fetched, whose callbacks go to the main queue too.  On the main queue   *)
(* the provider counts the announcements, compares the count for a token   *)
(* that arrives, and passes both kinds on to Firestore's worker queue.     *)
(* There the sync engine changes the user and restarts the stream, and the *)
(* stream drops a token that was asked for before it was closed.           *)
(*                                                                         *)
(* The stream always has something to send (see WritePipeline for when it  *)
(* has), so it is restarted whenever it ends.  NoUser is a user as well:   *)
(* his token is the empty one.  A definition with an underscore in its     *)
(* name is a deliberately wrong variant of the one below it: see README.   *)
(***************************************************************************)
EXTENDS Naturals, Sequences, FiniteSets

CONSTANTS
    Users, NoUser,
    Unread,         \* the token call has not looked at the current user
    MaxChanges,     \* bound: changes of the current user or of his token
    MaxBreaks       \* bound: streams that end and tokens that cannot be had

ASSUME CredentialConstants ==
    /\ NoUser \notin Users /\ Unread \notin Users \cup {NoUser}
    /\ MaxChanges \in Nat /\ MaxBreaks \in Nat

VARIABLES
    current,        \* FIRAuth's _currentUser
    main,           \* what is queued on the main queue
    known,          \* contents_->current_user
    counter,        \* contents_->token_counter
    worker,         \* what is queued on the worker queue
    syncUser,       \* the sync engine's current_user_, whose writes are sent
    stream,         \* the stream's state_
    closes,         \* its close_count_
    calls,          \* calls of getToken under way in the auth library
    carried,        \* the user whose token the stream was opened with
    changes, breaks

auth     == <<current, changes>>
provider == <<known, counter>>
engine   == <<syncUser, stream, closes, carried>>
vars     == <<current, main, known, counter, worker, syncUser, stream, closes,
              calls, carried, changes, breaks>>

Anyone == Users \cup {NoUser}
Calls  == [close : Nat, counter : Nat, user : Anyone \cup {Unread}]

Announced(u)       == [kind |-> "user", user |-> u]
TokenFor(c, u, ok) == [kind |-> "token", close |-> c.close, counter |-> c.counter,
                       user |-> u, ok |-> ok]
Result(m, ok)      == [kind |-> "token", close |-> m.close, user |-> m.user,
                       label |-> known, ok |-> ok]

\* RequestCredentials: the call notes both counts.
Asks(count) == calls' = calls \cup {[close |-> count, counter |-> counter, user |-> Unread]}

\* Firestore is set up on the main queue; whether the stored user has been
\* loaded by then is open, and his announcement is queued in both cases.
Init ==
    /\ current \in Anyone
    /\ known \in {current, NoUser}
    /\ syncUser = known
    /\ main = IF current = NoUser THEN <<>> ELSE <<Announced(current)>>
    /\ worker = <<>>
    /\ counter = 0
    /\ closes = 0
    /\ stream = "Starting"
    /\ calls = {[close |-> 0, counter |-> 0, user |-> Unread]}
    /\ carried = NoUser
    /\ changes = 0 /\ breaks = 0

-----------------------------------------------------------------------------
(* The auth work queue.                                                    *)

\* updateCurrentUser: another user, nobody, or a new token of the same user.
UpdateCurrentUser(u) ==
    /\ changes < MaxChanges
    /\ changes' = changes + 1
    /\ ~ (u = NoUser /\ current = NoUser)
    /\ current' = u
    /\ main' = Append(main, Announced(u))
    /\ UNCHANGED <<provider, engine, worker, calls, breaks>>

\* getTokenForcingRefresh: without a user the answer is nil at once,
\* otherwise the user's token service is asked, which may take long.
GetToken(c) ==
    /\ c.user = Unread
    /\ IF current = NoUser
       THEN /\ main' = Append(main, TokenFor(c, NoUser, TRUE))
            /\ calls' = calls \ {c}
       ELSE /\ calls' = (calls \ {c}) \cup {[c EXCEPT !.user = current]}
            /\ UNCHANGED main
    /\ UNCHANGED <<auth, provider, engine, worker, breaks>>

TokenFetched(c) ==
    /\ c.user # Unread
    /\ main' = Append(main, TokenFor(c, c.user, TRUE))
    /\ calls' = calls \ {c}
    /\ UNCHANGED <<auth, provider, engine, worker, breaks>>

FetchFailed(c) ==
    /\ c.user # Unread
    /\ breaks < MaxBreaks
    /\ breaks' = breaks + 1
    /\ main' = Append(main, TokenFor(c, c.user, FALSE))
    /\ calls' = calls \ {c}
    /\ UNCHANGED <<auth, provider, engine, worker>>

-----------------------------------------------------------------------------
(* The main queue.                                                         *)

AuthStateDidChange ==
    /\ main # <<>> /\ Head(main).kind = "user"
    /\ known' = Head(main).user
    /\ counter' = counter + 1
    /\ worker' = Append(worker, Announced(known'))
    /\ main' = Tail(main)
    /\ UNCHANGED <<auth, engine, calls, breaks>>

\* The callback of GetToken: aborted if there was an announcement since.
TokenArrived_NoCounter ==
    /\ main # <<>> /\ Head(main).kind = "token"
    /\ worker' = Append(worker, Result(Head(main), Head(main).ok))
    /\ main' = Tail(main)
    /\ UNCHANGED <<auth, provider, engine, calls, breaks>>
TokenArrived ==
    /\ main # <<>> /\ Head(main).kind = "token"
    /\ worker' = Append(worker,
                    Result(Head(main), Head(main).ok /\ Head(main).counter = counter))
    /\ main' = Tail(main)
    /\ UNCHANGED <<auth, provider, engine, calls, breaks>>

-----------------------------------------------------------------------------
(* The worker queue.                                                       *)

\* HandleCredentialChange: the stream is stopped and started again.
CredentialChanged_KeepsOpen ==
    /\ worker # <<>> /\ Head(worker).kind = "user"
    /\ syncUser' = Head(worker).user
    /\ worker' = Tail(worker)
    /\ IF stream = "Open" THEN UNCHANGED <<closes, stream, calls>>
       ELSE closes' = closes + 1 /\ stream' = "Starting" /\ Asks(closes')
    /\ UNCHANGED <<auth, provider, main, carried, breaks>>
CredentialChanged ==
    /\ worker # <<>> /\ Head(worker).kind = "user"
    /\ syncUser' = Head(worker).user
    /\ worker' = Tail(worker)
    /\ closes' = closes + 1
    /\ stream' = "Starting"
    /\ Asks(closes')
    /\ UNCHANGED <<auth, provider, main, carried, breaks>>

\* The token is dropped if the stream was closed since it was asked for.
ResumeStart_AnyClose ==
    /\ worker # <<>> /\ Head(worker).kind = "token"
    /\ worker' = Tail(worker)
    /\ LET r == Head(worker)
       IN  IF stream # "Starting" THEN UNCHANGED engine
           ELSE /\ IF r.ok THEN stream' = "Open" /\ carried' = r.user /\ UNCHANGED closes
                           ELSE stream' = "Backoff" /\ closes' = closes + 1 /\ UNCHANGED carried
                /\ UNCHANGED syncUser
    /\ UNCHANGED <<auth, provider, main, calls, breaks>>
ResumeStart_IgnoresErrors ==
    /\ worker # <<>> /\ Head(worker).kind = "token"
    /\ worker' = Tail(worker)
    /\ LET r == Head(worker)
       IN  IF r.close # closes \/ ~ r.ok THEN UNCHANGED engine
           ELSE stream' = "Open" /\ carried' = r.user /\ UNCHANGED <<syncUser, closes>>
    /\ UNCHANGED <<auth, provider, main, calls, breaks>>
ResumeStart ==
    /\ worker # <<>> /\ Head(worker).kind = "token"
    /\ worker' = Tail(worker)
    /\ LET r == Head(worker)
       IN  IF r.close # closes THEN UNCHANGED engine
           ELSE /\ IF r.ok THEN stream' = "Open" /\ carried' = r.user /\ UNCHANGED closes
                           ELSE stream' = "Backoff" /\ closes' = closes + 1 /\ UNCHANGED carried
                /\ UNCHANGED syncUser
    /\ UNCHANGED <<auth, provider, main, calls, breaks>>

\* An error ends the stream, which backs off and starts again.
StreamBreaks_StaysDown ==
    /\ stream = "Open"
    /\ breaks < MaxBreaks
    /\ breaks' = breaks + 1
    /\ stream' = "Error"
    /\ closes' = closes + 1
    /\ UNCHANGED <<auth, provider, main, worker, syncUser, calls, carried>>
StreamBreaks ==
    /\ stream = "Open"
    /\ breaks < MaxBreaks
    /\ breaks' = breaks + 1
    /\ stream' = "Backoff"
    /\ closes' = closes + 1
    /\ UNCHANGED <<auth, provider, main, worker, syncUser, calls, carried>>

BackoffElapsed ==
    /\ stream = "Backoff"
    /\ stream' = "Starting"
    /\ Asks(closes)
    /\ UNCHANGED <<auth, provider, main, worker, syncUser, closes, carried, breaks>>

-----------------------------------------------------------------------------
Answer == \E c \in calls : GetToken(c) \/ TokenFetched(c)
Main   == AuthStateDidChange \/ TokenArrived
Worker == CredentialChanged \/ ResumeStart
Next ==
    \/ Answer \/ Main \/ Worker \/ BackoffElapsed \/ StreamBreaks
    \/ \E u \in Anyone : UpdateCurrentUser(u)
    \/ \E c \in calls : FetchFailed(c)

Spec == Init /\ [][Next]_vars

\* The three queues are served, and a token call under way is answered.
FairSpec == Spec /\ WF_vars(Answer) /\ WF_vars(Main) /\ WF_vars(Worker)
                 /\ WF_vars(BackoffElapsed)

-----------------------------------------------------------------------------
TypeOK ==
    /\ current \in Anyone /\ known \in Anyone /\ syncUser \in Anyone /\ carried \in Anyone
    /\ stream \in {"Starting", "Open", "Backoff"}
    /\ counter \in Nat /\ closes \in Nat
    /\ calls \subseteq Calls
    /\ \A k \in DOMAIN main : main[k].kind \in {"user", "token"}
    /\ \A k \in DOMAIN worker : worker[k].kind \in {"user", "token"}

\* The writes of a user are only sent on a stream with his own token: with
\* another one, or with none, the backend would refuse and the client drop
\* them.
SentByTheirUser == stream = "Open" => carried = syncUser

\* A stream that is starting waits for one token and no other stream waits
\* for any, whatever became of tokens asked for before: the assertion of
\* ResumeStartWithCredentials that the state is still Starting.
Fresh(queue) == {k \in DOMAIN queue : queue[k].kind = "token" /\ queue[k].close = closes}
OneTokenAtATime ==
    Cardinality({c \in calls : c.close = closes})
        + Cardinality(Fresh(main)) + Cardinality(Fresh(worker))
      = IF stream = "Starting" THEN 1 ELSE 0

\* A token the provider hands out is labelled with the user it belongs to.
LabelsAreTrue ==
    \A k \in DOMAIN worker :
        worker[k].kind = "token" /\ worker[k].ok => worker[k].label = worker[k].user

\* When users have stopped changing and streams breaking, the stream is open
\* for the user who is signed in.
CatchesUp == <>[](syncUser = current /\ stream = "Open" /\ carried = current)
=============================================================================
