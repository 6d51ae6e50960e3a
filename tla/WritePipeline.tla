---------------------------- MODULE WritePipeline ----------------------------
(***************************************************************************)
(* How Firestore's client gets the writes of a device to the backend:      *)
(* SyncEngine, LocalStore, RemoteStore, WriteStream and GrpcStream.        *)
(*                                                                         *)
(* A write gets a batch id, goes to the current user's mutation queue,     *)
(* which is on disk, and its completion is kept in memory.  The pipeline   *)
(* is a copy of the front of that queue; its batches are sent one after    *)
(* the other on the write stream, after a handshake and without waiting    *)
(* for answers, and an answer says nothing but "the next one".  A stream   *)
(* ends by an error, by the idle timer, or when the user changes, and      *)
(* after that everything in the pipeline is sent again.                    *)
(*                                                                         *)
(* All steps run one at a time on the worker queue.  The network is never  *)
(* disabled by the app, so CanUseNetwork is true between steps.  The delay *)
(* of a timer is not modelled, only that it may elapse.                    *)
(* A definition with an underscore in its name is a deliberately wrong     *)
(* variant of the one below it, which no specification uses: see README.   *)
(***************************************************************************)
EXTENDS Naturals, Sequences, FiniteSets

CONSTANTS
    Users, Writes,
    NoOne,          \* nobody has issued the write
    Handshake,      \* the first message of a stream and its answer
    MaxPending,     \* kMaxPendingWrites
    MaxFaults       \* bound: broken or refused calls, failed tokens, changes
                    \* of credentials, relaunches

ASSUME PipelineConstants ==
    /\ NoOne \notin Users
    /\ Handshake \notin Writes
    /\ MaxPending \in Nat \ {0}
    /\ MaxFaults \in Nat
    /\ IsFiniteSet(Writes)

VARIABLES
    user,           \* current_user_
    mutations,      \* the mutation queue of each user, on disk
    nextId,         \* next_batch_id_
    callbacks,      \* mutation_callbacks_
    pipeline,       \* write_pipeline_
    stream,         \* state_ of the write stream
    handshake,      \* handshake_complete_
    idle,           \* idleness_timer_ is running
    closes,         \* close_count_
    tokens,         \* the close counts at which GetToken was called, unanswered
    call,           \* grpc_stream_ and what is under way on it
    author,         \* who issued a write
    outcome,        \* what the completion of a write was told
    committed,      \* writes the backend has applied
    rejected,       \* writes the backend has refused
    faults

local   == <<user, mutations, nextId, callbacks, author, outcome>>
backend == <<committed, rejected>>
vars    == <<user, mutations, nextId, callbacks, pipeline, stream, handshake, idle,
             closes, tokens, call, author, outcome, committed, rejected, faults>>

Batches  == [id : 1 .. Cardinality(Writes), write : Writes]
Messages == Writes \cup {Handshake}
States   == {"Initial", "Starting", "Open", "Error", "Backoff"}
Statuses == {"live", "transient", "permanent"}
Started  == stream \in {"Starting", "Open", "Backoff"}

\* out: messages the backend has not read, the first of them possibly being
\* written; in: answers that have not been read; status: what Finish tells;
\* failed: a write has failed, and its completion is on the worker queue
\* behind that of a read ("next") or before any other ("now").
NoCall  == [out |-> <<>>, in |-> <<>>, status |-> "none", failed |-> "no"]
NewCall == [NoCall EXCEPT !.out = <<Handshake>>, !.status = "live"]
Ended   == call.status \in {"transient", "permanent"}

Contents(batches) == [k \in DOMAIN batches |-> batches[k].write]
Ids(queue) == {queue[k].id : k \in DOMAIN queue}
Decided(w) == w \in committed \/ w \in rejected
Fault == faults < MaxFaults /\ faults' = faults + 1

-----------------------------------------------------------------------------
(* The pipeline.                                                           *)

\* GetNextMutationBatch(last), as often as there is room.
Filled_FromStart(pipe, queue) ==
    pipe \o SubSeq(queue, 1, IF Len(queue) < MaxPending - Len(pipe)
                             THEN Len(queue) ELSE MaxPending - Len(pipe))
Filled(pipe, queue) ==
    LET last == IF pipe = <<>> THEN 0 ELSE pipe[Len(pipe)].id
        k    == CHOOSE k \in 0 .. Len(queue) :
                    /\ \A j \in 1 .. k : queue[j].id <= last
                    /\ \A j \in k + 1 .. Len(queue) : queue[j].id > last
        room == MaxPending - Len(pipe)
    IN  pipe \o SubSeq(queue, k + 1, IF Len(queue) - k < room THEN Len(queue) ELSE k + room)

\* Stream::Start, when there is something to send: a stream that failed
\* backs off first, any other asks for a token.
StartIfNeeded_ErrorStays(pipe, state, count, asked) ==
    LET asks == pipe # <<>> /\ state = "Initial"
    IN  /\ stream' = IF asks THEN "Starting" ELSE state
        /\ tokens' = IF asks THEN asked \cup {count} ELSE asked
StartIfNeeded(pipe, state, count, asked) ==
    LET asks == pipe # <<>> /\ state = "Initial"
    IN  /\ stream' = CASE asks                               -> "Starting"
                       [] pipe # <<>> /\ state = "Error"     -> "Backoff"
                       [] OTHER                              -> state
        /\ tokens' = IF asks THEN asked \cup {count} ELSE asked

\* New batches are written if the stream can take them, which cancels the
\* idle timer; with nothing to send an open stream is marked idle.
Fill_Unshaken(pipe, queue, state, shaken, c, count, asked) ==
    LET filled == Filled(pipe, queue)
        added  == SubSeq(filled, Len(pipe) + 1, Len(filled))
    IN  /\ pipeline' = filled
        /\ call' = IF state = "Open" THEN [c EXCEPT !.out = @ \o Contents(added)] ELSE c
        /\ idle' = (state = "Open" /\ (filled = <<>> \/ (idle /\ added = <<>>)))
        /\ StartIfNeeded(filled, state, count, asked)
Fill(pipe, queue, state, shaken, c, count, asked) ==
    LET filled == Filled(pipe, queue)
        added  == SubSeq(filled, Len(pipe) + 1, Len(filled))
    IN  /\ pipeline' = filled
        /\ call' = IF state = "Open" /\ shaken
                   THEN [c EXCEPT !.out = @ \o Contents(added)] ELSE c
        /\ idle' = (state = "Open" /\ (filled = <<>> \/ (idle /\ (added = <<>> \/ ~ shaken))))
        /\ StartIfNeeded(filled, state, count, asked)

-----------------------------------------------------------------------------
(* The local store and the completions.                                    *)

\* LoadNextBatchIdFromDb looks at what is on disk, not at ids given before.
IsNextId_OnePast(n, queues) ==
    /\ \A u \in Users : \A i \in Ids(queues[u]) : i + 1 < n
    /\ n = 2 \/ \E u \in Users : n - 2 \in Ids(queues[u])
IsNextId(n, queues) ==
    /\ \A u \in Users : \A i \in Ids(queues[u]) : i < n
    /\ n = 1 \/ \E u \in Users : n - 1 \in Ids(queues[u])

Init ==
    /\ user \in Users
    /\ mutations = [u \in Users |-> <<>>]
    /\ nextId = 1
    /\ callbacks = {}
    /\ pipeline = <<>>
    /\ stream = "Initial"
    /\ handshake = FALSE
    /\ idle = FALSE
    /\ closes = 0
    /\ tokens = {}
    /\ call = NoCall
    /\ author = [w \in Writes |-> NoOne]
    /\ outcome = [w \in Writes |-> "none"]
    /\ committed = {}
    /\ rejected = {}
    /\ faults = 0

\* SyncEngine::WriteMutations.  insert leaves a completion alone that is
\* there already under the same user and id.
WriteMutations(w) ==
    LET batch == [id |-> nextId, write |-> w]
        taken == \E cb \in callbacks : cb.user = user /\ cb.id = nextId
    IN  /\ author[w] = NoOne
        /\ author' = [author EXCEPT ![w] = user]
        /\ mutations' = [mutations EXCEPT ![user] = Append(@, batch)]
        /\ nextId' = nextId + 1
        /\ callbacks' = IF taken THEN callbacks
                        ELSE callbacks \cup {[user |-> user, id |-> nextId, write |-> w]}
        /\ Fill(pipeline, mutations'[user], stream, handshake, call, closes, tokens)
        /\ UNCHANGED <<user, handshake, closes, outcome, backend, faults>>

\* NotifyUser and RemoveMutationBatch, for the batch that was answered.
Without(queue, id) ==
    LET k == CHOOSE k \in DOMAIN queue : queue[k].id = id
    IN  SubSeq(queue, 1, k - 1) \o SubSeq(queue, k + 1, Len(queue))

Settle_KeepsCallback(batch, answer) ==
    LET mine == {cb \in callbacks : cb.user = user /\ cb.id = batch.id}
    IN  /\ outcome' = [w \in Writes |-> IF \E cb \in mine : cb.write = w THEN answer
                                        ELSE outcome[w]]
        /\ mutations' = [mutations EXCEPT ![user] = Without(@, batch.id)]
        /\ UNCHANGED <<user, nextId, callbacks, author>>
Settle(batch, answer) ==
    LET mine == {cb \in callbacks : cb.user = user /\ cb.id = batch.id}
    IN  /\ outcome' = [w \in Writes |-> IF \E cb \in mine : cb.write = w THEN answer
                                        ELSE outcome[w]]
        /\ callbacks' = callbacks \ mine
        /\ mutations' = [mutations EXCEPT ![user] = Without(@, batch.id)]
        /\ UNCHANGED <<user, nextId, author>>

-----------------------------------------------------------------------------
(* The stream.                                                             *)

\* Close with an error and OnWriteStreamClose: a permanent error after the
\* handshake is taken for the backend's answer to the first batch.
Finish_AnyError(status) ==
    /\ closes' = closes + 1
    /\ handshake' = FALSE
    /\ IF handshake /\ pipeline # <<>>
       THEN /\ Settle(Head(pipeline), "error")
            /\ Fill(Tail(pipeline), mutations'[user], "Initial", FALSE, NoCall,
                    closes + 1, tokens)
       ELSE /\ pipeline' = pipeline
            /\ call' = NoCall
            /\ idle' = FALSE
            /\ StartIfNeeded(pipeline, "Error", closes + 1, tokens)
            /\ UNCHANGED local
    /\ UNCHANGED backend
Finish(status) ==
    /\ closes' = closes + 1
    /\ handshake' = FALSE
    /\ IF handshake /\ status = "permanent" /\ pipeline # <<>>
       THEN /\ Settle(Head(pipeline), "error")
            /\ Fill(Tail(pipeline), mutations'[user], "Initial", FALSE, NoCall,
                    closes + 1, tokens)
       ELSE /\ pipeline' = pipeline
            /\ call' = NoCall
            /\ idle' = FALSE
            /\ StartIfNeeded(pipeline, "Error", closes + 1, tokens)
            /\ UNCHANGED local
    /\ UNCHANGED backend

BackoffElapsed ==
    /\ stream = "Backoff"
    /\ StartIfNeeded(pipeline, "Initial", closes, tokens)
    /\ UNCHANGED <<local, backend, pipeline, handshake, idle, closes, call, faults>>

\* The answer to GetToken: it is dropped when the stream was closed since.
TokenStale(c) ==
    /\ c \in tokens /\ c # closes
    /\ tokens' = tokens \ {c}
    /\ UNCHANGED <<local, backend, pipeline, stream, handshake, idle, closes, call, faults>>

TokenReady_AnyTime(c) ==
    /\ c \in tokens
    /\ stream = "Starting"
    /\ tokens' = tokens \ {c}
    /\ stream' = "Open"
    /\ call' = NewCall
    /\ UNCHANGED <<local, backend, pipeline, handshake, idle, closes, faults>>
TokenReady(c) ==
    /\ c \in tokens /\ c = closes
    /\ tokens' = tokens \ {c}
    /\ stream' = "Open"
    /\ call' = NewCall
    /\ UNCHANGED <<local, backend, pipeline, handshake, idle, closes, faults>>

TokenFailed(c) ==
    /\ c \in tokens /\ c = closes
    /\ closes' = closes + 1
    /\ StartIfNeeded(pipeline, "Error", closes + 1, tokens \ {c})
    /\ Fault
    /\ UNCHANGED <<local, backend, pipeline, handshake, idle, call>>

\* OnStreamRead.  The first message is the answer to the handshake, any later
\* one acknowledges the first batch of the pipeline.
CanRead == call.in # <<>> /\ call.failed # "now"
Read    == [call EXCEPT !.in = Tail(@), !.failed = IF @ = "next" THEN "now" ELSE @]

OnHandshakeComplete_NoResend ==
    /\ CanRead /\ ~ handshake
    /\ handshake' = TRUE
    /\ call' = Read
    /\ UNCHANGED <<local, backend, pipeline, stream, idle, closes, tokens, faults>>
OnHandshakeComplete ==
    /\ CanRead /\ ~ handshake
    /\ handshake' = TRUE
    /\ call' = [Read EXCEPT !.out = @ \o Contents(pipeline)]
    /\ idle' = (idle /\ pipeline = <<>>)
    /\ UNCHANGED <<local, backend, pipeline, stream, closes, tokens, faults>>

OnMutationResult ==
    /\ CanRead /\ handshake
    /\ Settle(Head(pipeline), "ok")
    /\ Fill(Tail(pipeline), mutations'[user], stream, handshake, Read, closes, tokens)
    /\ UNCHANGED <<backend, handshake, closes, faults>>

\* The call is over, and either all its answers were read, or the failure of
\* a write is found first: OnOperationFailed turns completions of reads that
\* are queued into no-ops, and Finish tells the status of the call.
OnStreamFinish ==
    /\ Ended
    /\ call.in = <<>> \/ call.failed = "now"
    /\ Finish(call.status)
    /\ UNCHANGED faults

IdleTimeout ==
    /\ idle
    /\ closes' = closes + 1
    /\ handshake' = FALSE
    /\ idle' = FALSE
    /\ call' = NoCall
    /\ StartIfNeeded(pipeline, "Initial", closes + 1, tokens)
    /\ UNCHANGED <<local, backend, pipeline, faults>>

\* SyncEngine::HandleCredentialChange, for another user or for a new token
\* of the same one: the stream is stopped, the pipeline emptied, and both
\* start again with the queue of the user.
HandleCredentialChange(u) ==
    LET count == IF Started THEN closes + 1 ELSE closes
    IN  /\ Fault
        /\ user' = u
        /\ \E n \in 1 .. Cardinality(Writes) + 1 :
              /\ IF u = user THEN n = nextId ELSE IsNextId(n, mutations)
              /\ nextId' = n
        /\ closes' = count
        /\ handshake' = FALSE
        /\ Fill(<<>>, mutations[u], IF Started THEN "Initial" ELSE stream, FALSE,
                NoCall, count, tokens)
        /\ UNCHANGED <<mutations, callbacks, author, outcome, backend>>

\* The process ends at any point and is started again by the same user:
\* what was in memory is gone.
Relaunch ==
    /\ Fault
    /\ \E n \in 1 .. Cardinality(Writes) + 1 : IsNextId(n, mutations) /\ nextId' = n
    /\ callbacks' = {}
    /\ handshake' = FALSE
    /\ closes' = 0
    /\ Fill(<<>>, mutations[user], "Initial", FALSE, NoCall, 0, {})
    /\ UNCHANGED <<user, mutations, author, outcome, backend>>

-----------------------------------------------------------------------------
(* The backend and the network.  The backend reads a call's messages in    *)
(* order, and none any more when the call is over on either side.          *)

Reads(message) == call.status = "live" /\ call.out # <<>> /\ Head(call.out) = message
Answers(message) == call' = [call EXCEPT !.out = Tail(@), !.in = Append(@, message)]
Client == <<local, pipeline, stream, handshake, idle, closes, tokens>>

AnswerHandshake ==
    /\ Reads(Handshake)
    /\ Answers(Handshake)
    /\ UNCHANGED <<Client, backend, faults>>

Commit(w) ==
    /\ Reads(w)
    /\ Answers(w)
    /\ committed' = committed \cup {w}
    /\ UNCHANGED <<Client, rejected, faults>>

Reject(w) ==
    /\ Reads(w)
    /\ call' = [call EXCEPT !.out = Tail(@), !.status = "permanent"]
    /\ rejected' = rejected \cup {w}
    /\ UNCHANGED <<Client, committed, faults>>

RefuseHandshake ==
    /\ Reads(Handshake)
    /\ Fault
    /\ call' = [call EXCEPT !.out = Tail(@), !.status = "permanent"]
    /\ UNCHANGED <<Client, backend>>

\* The connection is lost, and with it answers that are under way.
Break ==
    /\ call.status = "live"
    /\ Fault
    /\ \E k \in 0 .. Len(call.in) :
          call' = [call EXCEPT !.in = SubSeq(@, 1, k), !.status = "transient"]
    /\ UNCHANGED <<Client, backend>>

\* gRPC fails the write that is under way when the call is over.  The read
\* that is always pending completes as soon as there is an answer, thus
\* before that; the answers behind it are only asked for later.
WriteFails ==
    /\ Ended /\ call.out # <<>> /\ call.failed = "no"
    /\ call' = [call EXCEPT !.failed = IF call.in = <<>> THEN "now" ELSE "next"]
    /\ UNCHANGED <<Client, backend, faults>>

-----------------------------------------------------------------------------
Library ==
    \/ BackoffElapsed \/ OnHandshakeComplete \/ OnMutationResult \/ OnStreamFinish
    \/ \E c \in tokens : TokenStale(c) \/ TokenReady(c)

Server == AnswerHandshake \/ \E w \in Writes : Commit(w)

Next ==
    \/ Library
    \/ Server
    \/ \E w \in Writes : WriteMutations(w) \/ Reject(w)
    \/ \E c \in tokens : TokenFailed(c)
    \/ \E u \in Users : HandleCredentialChange(u)
    \/ IdleTimeout \/ Relaunch \/ RefuseHandshake \/ Break \/ WriteFails

Spec == Init /\ [][Next]_vars

FairSpec == Spec /\ WF_vars(Library) /\ WF_vars(Server)

-----------------------------------------------------------------------------
TypeOK ==
    /\ user \in Users
    /\ mutations \in [Users -> Seq(Batches)]
    /\ nextId \in 1 .. Cardinality(Writes) + 1
    /\ callbacks \subseteq [user : Users, id : 1 .. Cardinality(Writes), write : Writes]
    /\ pipeline \in Seq(Batches)
    /\ stream \in States
    /\ handshake \in BOOLEAN /\ idle \in BOOLEAN
    /\ closes \in Nat /\ tokens \subseteq Nat
    /\ call \in [out : Seq(Messages), in : Seq(Messages),
                 status : Statuses \cup {"none"}, failed : {"no", "next", "now"}]
    /\ author \in [Writes -> Users \cup {NoOne}]
    /\ outcome \in [Writes -> {"none", "ok", "error"}]
    /\ committed \subseteq Writes /\ rejected \subseteq Writes
    /\ faults \in 0 .. MaxFaults

\* The pipeline is the front of the current user's queue, and never longer
\* than kMaxPendingWrites.
PipelineIsFront ==
    /\ Len(pipeline) <= MaxPending
    /\ Len(pipeline) <= Len(mutations[user])
    /\ pipeline = SubSeq(mutations[user], 1, Len(pipeline))

\* An answer names no batch, so OnMutationResult takes the first one of the
\* pipeline: what is under way in the two directions of a call, in order, is
\* the pipeline, up to the write the backend refused.
AnswersAreInOrder ==
    handshake =>
        LET under == call.in \o call.out
            acked == Len(call.in)
        IN  IF call.status = "live" THEN under = Contents(pipeline)
            ELSE /\ acked <= Len(pipeline)
                 /\ call.in = SubSeq(Contents(pipeline), 1, acked)

\* A completion waits under the id of the batch it belongs to.  Ids are
\* given out again after a relaunch and after a change of user, so a
\* completion that were left behind would be told the fate of another write.
CallbacksMatch ==
    \A cb \in callbacks :
        \E k \in DOMAIN mutations[cb.user] :
            mutations[cb.user][k] = [id |-> cb.id, write |-> cb.write]

\* A write that was issued stays in its author's queue until the backend has
\* decided it.
NothingIsLost ==
    \A w \in Writes :
        author[w] # NoOne =>
            \/ Decided(w)
            \/ \E k \in DOMAIN mutations[author[w]] : mutations[author[w]][k].write = w

\* What the asserts of Stream and RemoteStore rely on: one call, opened by
\* the token asked for last; the idle timer only runs on an open stream with
\* nothing to send; a stream that is not started has nothing to send.
StreamInStep ==
    /\ call.status # "none" <=> stream = "Open"
    /\ closes \in tokens <=> stream = "Starting"
    /\ handshake => stream = "Open"
    /\ idle => stream = "Open" /\ pipeline = <<>>
    /\ pipeline # <<>> => Started

\* A completion that reports an error tells the truth, as the comment in
\* HandleWriteError has it: the request itself was the problem.
ErrorIsTrue == \A w \in Writes : outcome[w] = "error" => w \in rejected

\* Every write of a user who stays is decided in the end, and leaves the queue.
QueueDrains ==
    \A u \in Users : (user = u /\ mutations[u] # <<>>) ~> (user # u \/ mutations[u] = <<>>)

\* The pipeline does what the app takes a write to be.
Queue == INSTANCE WriteQueue WITH
    waiting  <- [u \in Users |-> Contents(mutations[u])],
    promised <- {cb.write : cb \in callbacks}
ImplementsQueue == Queue!Spec
=============================================================================
